----------------------------- MODULE KernelMutex ------------------------------
(***************************************************************************)
(* The mutexes of the kernel, queue.c and tasks.c, as Fmutex uses them:    *)
(* taken without a timeout, given by the holder.  A task that waits lends  *)
(* the holder its priority, until the holder has given all it holds.       *)
(* MutexTimeouts adds timeouts and obeys the priorities: a step belongs to *)
(* a ready task of the highest one; KernelScheduler has the same mutexes   *)
(* and shows that the kernel keeps to that.                                *)
(* A task may sleep while it holds a mutex (PicoI2C waits for its          *)
(* interrupt, Storage::store for room).                                    *)
(***************************************************************************)
EXTENDS KernelTasks

CONSTANTS
    Mutexes,
    Nests           \* what each task may hold, in the order of taking

NoMutex == "none"

ASSUME MutexAssumption ==
    NoMutex \notin Mutexes /\ Nests \in [Tasks -> SUBSET Seq(Mutexes)]

VARIABLES
    uxPriority,
    xMutexHolder,
    waiting,        \* xTasksWaitingToReceive of each mutex
    held,           \* the mutexes of each task (uxMutexesHeld is their number)
    want            \* the mutex a task is about to take

mutexVars == <<uxPriority, xMutexHolder, waiting, held, want>>

NoMutexUsed ==
    /\ xMutexHolder = [m \in Mutexes |-> NoTask]
    /\ waiting = [m \in Mutexes |-> <<>>]
    /\ held = [t \in Tasks |-> <<>>]
    /\ want = [t \in Tasks |-> NoMutex]

MutexStart == uxPriority = Priority /\ NoMutexUsed

Ready(t) == pc[t] \notin {"waiting", "asleep"}
Running(t) == Ready(t) /\ \A u \in Tasks : Ready(u) => uxPriority[u] <= uxPriority[t]

-------------------------------------------------------------------------------
\* Fmutex::lock: the task decides for a mutex.
Lock(t) ==
    /\ pc[t] = "idle"
    /\ \E nest \in Nests[t] :
        /\ Len(held[t]) < Len(nest) /\ held[t] = SubSeq(nest, 1, Len(held[t]))
        /\ want' = [want EXCEPT ![t] = nest[Len(held[t]) + 1]]
    /\ Go(t, "take")
    /\ UNCHANGED <<suspended, xPendingReadyList, uxPriority, xMutexHolder, waiting, held>>

\* The first critical section of xQueueSemaphoreTake.
SemaphoreTake(t) ==
    /\ pc[t] = "take"
    /\ IF xMutexHolder[want[t]] = NoTask
       THEN /\ xMutexHolder' = [xMutexHolder EXCEPT ![want[t]] = t]
            /\ held' = [held EXCEPT ![t] = Append(@, want[t])]
            /\ want' = [want EXCEPT ![t] = NoMutex]
            /\ Go(t, "idle")
       ELSE Go(t, "block") /\ UNCHANGED <<xMutexHolder, held, want>>
    /\ UNCHANGED <<suspended, xPendingReadyList, uxPriority, waiting>>

\* xTaskPriorityInherit
PriorityInherit(h, t) ==
    IF uxPriority[h] < uxPriority[t]
    THEN [uxPriority EXCEPT ![h] = uxPriority[t]] ELSE uxPriority

\* The rest of its turn, under vTaskSuspendAll: no interrupt gives a mutex.  The list
\* is in the order of the priorities at the time of the insertion.
BlockOnMutex(t) ==
    /\ pc[t] = "block"
    /\ IF xMutexHolder[want[t]] = NoTask
       THEN Go(t, "take") /\ UNCHANGED <<uxPriority, waiting>>
       ELSE /\ uxPriority' = PriorityInherit(xMutexHolder[want[t]], t)
            /\ waiting' = [waiting EXCEPT ![want[t]] = vListInsert(@, t, uxPriority)]
            /\ Go(t, "waiting")
    /\ UNCHANGED <<suspended, xPendingReadyList, xMutexHolder, held, want>>

\* Variant of PriorityDisinherit that disinherits with every mutex.
PriorityDisinheritAlways(t, n) == [uxPriority EXCEPT ![t] = Priority[t]]

\* xTaskPriorityDisinherit, n mutexes left: only with the last one.
PriorityDisinherit(t, n) ==
    IF n = 0 THEN [uxPriority EXCEPT ![t] = Priority[t]] ELSE uxPriority

\* Fmutex::unlock: xQueueGenericSend to a mutex, which wakes the first waiter.
\* Mutexes are given in the reverse order of the taking.
Give(t) ==
    /\ pc[t] = "idle" /\ held[t] # <<>>
    /\ LET n == Len(held[t])
           m == held[t][n]
       IN  /\ held' = [held EXCEPT ![t] = SubSeq(@, 1, n - 1)]
           /\ uxPriority' = PriorityDisinherit(t, n - 1)
           /\ xMutexHolder' = [xMutexHolder EXCEPT ![m] = NoTask]
           /\ IF waiting[m] = <<>> THEN UNCHANGED <<waiting, pc>>
              ELSE /\ waiting' = [waiting EXCEPT ![m] = Tail(@)]
                   /\ Go(Head(waiting[m]), "take")
    /\ UNCHANGED <<suspended, xPendingReadyList, want>>

\* The task waits for something else, and gets it.
Sleep(t) ==
    /\ pc[t] = "idle"
    /\ Go(t, "asleep")
    /\ UNCHANGED <<suspended, xPendingReadyList, mutexVars>>

WakeUp(t) ==
    /\ pc[t] = "asleep"
    /\ Go(t, "idle")
    /\ UNCHANGED <<suspended, xPendingReadyList, mutexVars>>

-------------------------------------------------------------------------------
\* No priority inversion: whoever holds a mutex has at least the priority of
\* every task that waits for it, however the holder came by it (nested in
\* another one, from a waiter that was woken, while asleep); and no task keeps
\* a borrowed priority that holds nothing.
HolderInherits ==
    /\ \A m \in Mutexes : xMutexHolder[m] # NoTask =>
          \A i \in 1..Len(waiting[m]) :
             uxPriority[waiting[m][i]] <= uxPriority[xMutexHolder[m]]
    /\ \A t \in Tasks : held[t] = <<>> => uxPriority[t] = Priority[t]

\* A mutex under which a task takes another one is taken by no other task, as
\* Storage::mStoreAccess is by nobody but the handler of the switches.
OuterUncontended ==
    \A t \in Tasks : \A nest \in Nests[t] : \A i \in 1..(Len(nest) - 1) :
        \A u \in Tasks \ {t} : \A other \in Nests[u] :
            \A j \in 1..Len(other) : other[j] # nest[i]
===============================================================================
