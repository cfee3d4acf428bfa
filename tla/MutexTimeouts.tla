---------------------------- MODULE MutexTimeouts -----------------------------
(***************************************************************************)
(* Mutexes taken with a timeout, which KernelMutex leaves out.  A task     *)
(* whose time is up has to take back the priority that it lent, but only   *)
(* as far as nobody else who waits lends it too.  Between the end of its   *)
(* time and that, the mutex may be given, taken by another task and lent   *)
(* to again.                                                               *)
(***************************************************************************)
EXTENDS KernelMutex

CONSTANT BlockTimes      \* the timeouts that each task uses: "none", "finite", "forever"

ASSUME BlockTimesAssumption == BlockTimes \in [Tasks -> SUBSET {"none", "finite", "forever"}]

VARIABLES
    xTicksToWait,   \* of each task: "forever", "finite", "elapsed" without the task
                    \* having noticed, or "none": used up, or none from the start
    xInheritanceOccurred

waitVars == <<xTicksToWait, xInheritanceOccurred>>
timedVars == <<suspended, xPendingReadyList, pc, mutexVars, waitVars>>

WaitStart ==
    /\ xTicksToWait = [t \in Tasks |-> "none"]
    /\ xInheritanceOccurred = [t \in Tasks |-> FALSE]

TimedInit == TasksInit /\ pc = Idle /\ MutexStart /\ WaitStart

Ticks(t, n) == xTicksToWait' = [xTicksToWait EXCEPT ![t] = n]
Free(t) == xMutexHolder[want[t]] = NoTask

\* The task calls xSemaphoreTake.
LockFor(t) ==
    /\ Lock(t)
    /\ \E n \in BlockTimes[t] : Ticks(t, n)
    /\ xInheritanceOccurred' = [xInheritanceOccurred EXCEPT ![t] = FALSE]

\* The call fails.
Fail(t) ==
    /\ Go(t, "idle")
    /\ want' = [want EXCEPT ![t] = NoMutex]

\* The first critical section of a turn, in a call that waits no longer.
TakeAtOnce(t) ==
    /\ pc[t] = "take" /\ xTicksToWait[t] = "none" /\ ~Free(t)
    /\ Fail(t)
    /\ UNCHANGED <<suspended, xPendingReadyList, uxPriority, xMutexHolder, waiting, held,
                   waitVars>>

TakeInTime(t) ==
    /\ pc[t] = "take" /\ (Free(t) \/ xTicksToWait[t] # "none")
    /\ SemaphoreTake(t)
    /\ UNCHANGED waitVars

\* The rest of a turn: the result of xTaskPriorityInherit is kept.
BlockFor(t) ==
    /\ pc[t] = "block" /\ xTicksToWait[t] # "elapsed"
    /\ BlockOnMutex(t)
    /\ xInheritanceOccurred' =
          IF Free(t) THEN xInheritanceOccurred
          ELSE [xInheritanceOccurred EXCEPT ![t] =
                   \/ uxPriority[xMutexHolder[want[t]]] < uxPriority[t]
                   \/ Priority[xMutexHolder[want[t]]] < uxPriority[t]]
    /\ UNCHANGED xTicksToWait

\* or the time is up, and whether the mutex is free is looked at once more.
TimeIsOver(t) ==
    /\ pc[t] = "block" /\ xTicksToWait[t] = "elapsed"
    /\ Ticks(t, "none")
    /\ Go(t, "over")
    /\ UNCHANGED <<suspended, xPendingReadyList, mutexVars, xInheritanceOccurred>>

LookOnceMore(t) ==
    /\ pc[t] = "over"
    /\ \/ Free(t) /\ Go(t, "take") /\ UNCHANGED want
       \/ ~Free(t) /\ xInheritanceOccurred[t] /\ Go(t, "disinherit") /\ UNCHANGED want
       \/ ~Free(t) /\ ~xInheritanceOccurred[t] /\ Fail(t)
    /\ UNCHANGED <<suspended, xPendingReadyList, uxPriority, xMutexHolder, waiting, held,
                   waitVars>>

\* Variant of HighestWaiting that does not ask who else waits.
HighestWaitingNone(m) == 0

\* prvGetDisinheritPriorityAfterTimeout
HighestWaiting(m) == IF waiting[m] = <<>> THEN 0 ELSE uxPriority[Head(waiting[m])]

\* Variant of AfterTimeout that never takes anything back.
AfterTimeoutKept(h, highest) == uxPriority

\* vTaskPriorityDisinheritAfterTimeout: not if the holder has another mutex,
\* which might be the one for which it has its priority.
AfterTimeout(h, highest) ==
    IF Len(held[h]) = 1
    THEN [uxPriority EXCEPT ![h] = IF Priority[h] < highest THEN highest ELSE Priority[h]]
    ELSE uxPriority

TakeBack(t) ==
    /\ pc[t] = "disinherit"
    /\ uxPriority' = IF Free(t) THEN uxPriority
                     ELSE AfterTimeout(xMutexHolder[want[t]], HighestWaiting(want[t]))
    /\ Fail(t)
    /\ UNCHANGED <<suspended, xPendingReadyList, xMutexHolder, waiting, held, waitVars>>

\* The time of a call is up: the tick wakes the task, if it waits.
TimeElapses(t) ==
    /\ xTicksToWait[t] = "finite" /\ pc[t] \in {"take", "block", "waiting"}
    /\ Ticks(t, "elapsed")
    /\ IF pc[t] = "waiting"
       THEN /\ waiting' = [waiting EXCEPT ![want[t]] = Without(@, t)]
            /\ Go(t, "take")
       ELSE UNCHANGED <<waiting, pc>>
    /\ UNCHANGED <<suspended, xPendingReadyList, uxPriority, xMutexHolder, held, want,
                   xInheritanceOccurred>>

TimedNext == \E t \in Tasks :
    \/ Running(t) /\ \/ LockFor(t) \/ TakeAtOnce(t) \/ TakeInTime(t) \/ BlockFor(t)
                     \/ TimeIsOver(t) \/ LookOnceMore(t) \/ TakeBack(t)
                     \/ (Give(t) \/ Sleep(t)) /\ UNCHANGED waitVars
    \/ WakeUp(t) /\ UNCHANGED waitVars
    \/ TimeElapses(t)

TimedSpec == TimedInit /\ [][TimedNext]_timedVars

-------------------------------------------------------------------------------
\* A priority is lent only as long as somebody waits: the holder of a mutex in which
\* it nests no other (a nest keeps what it has got) has its own priority, or that of
\* a task that waits for it or is about to take back what it lent.
Lends(u, t) ==
    /\ want[u] # NoMutex /\ xMutexHolder[want[u]] = t
    /\ uxPriority[u] >= uxPriority[t]
    /\ pc[u] = "waiting" \/ xInheritanceOccurred[u]
NestsNothing(t) ==
    held[t] # <<>> /\ \A nest \in Nests[t] : Head(nest) = Head(held[t]) => Len(nest) <= 1
PriorityIsLent ==
    \A t \in Tasks : NestsNothing(t) =>
        uxPriority[t] = Priority[t] \/ \E u \in Tasks : Lends(u, t)
===============================================================================
