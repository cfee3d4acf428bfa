------------------------------- MODULE PicoSync -------------------------------
(***************************************************************************)
(* The locks of the SDK on the kernel, port.c: a task that finds a lock    *)
(* taken waits for the event bits of its spin lock, and whoever gives the  *)
(* lock back sets them.  The spin lock is to be held until the task is in  *)
(* the list of the event group: interrupts are off until then, and         *)
(* vPortEnableInterrupts gives it back.  One core, so a step is what       *)
(* happens between two points where an interrupt can come.                 *)
(***************************************************************************)
EXTENDS EventGroups

CONSTANTS
    Locks,          \* the numbers of the spin locks
    ISRLocks,       \* the semaphores given by interrupts
    Seeks,          \* those that each task takes
    Patience,       \* how each task waits for a lock: "forever" or "finite"
    NoLock

ASSUME LockAssumption ==
    /\ Locks \subseteq 0..31 /\ ISRLocks \subseteq Locks /\ NoLock \notin Locks
    /\ Seeks \in [Tasks -> SUBSET Locks]
    /\ Patience \in [Tasks -> {"forever", "finite"}]

VARIABLES
    running,            \* the task that runs, or NoTask for any other one
    permits,            \* of each lock: whether it can be had
    stage,              \* where each task is
    goal,               \* the lock it wants or has
    pxYieldSpinLock,
    lostNotices                \* history: the locks whose notification found the queue full

lockVars == <<running, permits, stage, goal, pxYieldSpinLock, lostNotices>>
picoVars == <<lockVars, eventVars>>

LockStart ==
    /\ running = NoTask /\ pxYieldSpinLock = NoLock /\ lostNotices = {}
    /\ permits = [l \in Locks |-> IF l \in ISRLocks THEN 0 ELSE 1]
    /\ stage = [t \in Tasks |-> "idle"]
    /\ goal = [t \in Tasks |-> NoLock]

-------------------------------------------------------------------------------
\* prvGetEventGroupBit: the 32 bits of the locks, folded into 24.
EventBit(l) == { b \in {l, l - 8} : b \in 0..23 }

WaitFor(t, wait) ==
    [kind |-> "wait", task |-> t, bits |-> EventBit(goal[t]), set |-> {}, all |-> FALSE,
     clear |-> TRUE, wait |-> wait]

AtStage(t, place) == running = t /\ stage[t] = place
ToStage(t, place) ==
    /\ stage' = [stage EXCEPT ![t] = place]
    /\ goal' = IF place = "idle" THEN [goal EXCEPT ![t] = NoLock] ELSE goal

\* A context switch, once the list of the event group is what it becomes.
Dispatch == running' \in (Tasks \cup {NoTask}) \ DOMAIN xTasksWaitingForBits'

\* vPortEnableInterrupts where the lock is not the task's own.
EnableInterrupts == pxYieldSpinLock' = NoLock

\* An interrupt that makes another task run.
Preempt ==
    /\ UNCHANGED <<permits, stage, goal, pxYieldSpinLock, lostNotices, eventVars>>
    /\ Dispatch

\* The task wants a lock.
Begin(t) ==
    /\ AtStage(t, "idle") /\ stage' = [stage EXCEPT ![t] = "enter"]
    /\ \E l \in Seeks[t] : goal' = [goal EXCEPT ![t] = l]
    /\ UNCHANGED <<running, permits, pxYieldSpinLock, lostNotices, eventVars>>

\* It gets the lock; who holds a mutex gives it back, interrupts give the others.
Take(t) ==
    /\ permits[goal[t]] > 0
    /\ permits' = [permits EXCEPT ![goal[t]] = @ - 1]
    /\ ToStage(t, IF goal[t] \in ISRLocks THEN "idle" ELSE "holds")
    /\ UNCHANGED <<pxYieldSpinLock, eventVars>>

\* It waits for the bits, the spin lock noted for vPortEnableInterrupts, which
\* gives the lock back before it forgets it.
SpinUnlockWithWait(t) ==
    /\ WaitBits(t, WaitFor(t, Patience[t]))
    /\ pxYieldSpinLock' = goal[t]
    /\ ToStage(t, "enabling")
    /\ UNCHANGED permits

\* Less than a tick is left.
SpinUnlockAndYield(t) ==
    /\ Patience[t] = "finite" /\ ToStage(t, "yield")
    /\ UNCHANGED <<permits, pxYieldSpinLock, eventVars>>

\* Variant of Enter in which the spin lock is given back before the wait.
EnterUnlocked(t) ==
    /\ \/ AtStage(t, "enter")
          /\ \/ Take(t)
             \/ /\ permits[goal[t]] = 0 /\ ToStage(t, "unlocked")
                /\ UNCHANGED <<permits, pxYieldSpinLock, eventVars>>
       \/ AtStage(t, "unlocked") /\ SpinUnlockWithWait(t)
    /\ UNCHANGED <<running, lostNotices>>

\* With the spin lock held the task takes the lock, or waits.
Enter(t) ==
    /\ AtStage(t, "enter")
    /\ \/ Take(t)
       \/ permits[goal[t]] = 0 /\ (SpinUnlockWithWait(t) \/ SpinUnlockAndYield(t))
    /\ UNCHANGED <<running, lostNotices>>

\* The rest of vPortEnableInterrupts, interrupts being enabled.
ForgetLock(t) ==
    /\ AtStage(t, "enabling")
    /\ pxYieldSpinLock' = NoLock
    /\ ToStage(t, IF calling[t] = NoCall THEN "waited" ELSE "yield")
    /\ UNCHANGED <<running, permits, lostNotices, eventVars>>

\* vPortYield: in the wait, or in order not to hog the core.
Yield(t) ==
    /\ AtStage(t, "yield")
    /\ ToStage(t, IF calling[t] = NoCall THEN "enter" ELSE "waits")
    /\ UNCHANGED <<permits, pxYieldSpinLock, lostNotices, eventVars>>
    /\ Dispatch

\* The wait returns; if its time is up, the bits are looked at in a critical section.
EndOfWait(t) ==
    /\ AtStage(t, "waits") /\ GoOn(t) /\ ToStage(t, "waited")
    /\ IF t \in DOMAIN eventItem THEN UNCHANGED pxYieldSpinLock ELSE EnableInterrupts
    /\ UNCHANGED <<running, permits, lostNotices>>

\* The SDK looks again, unless the time it waits for has come.
LookAgain(t) ==
    /\ AtStage(t, "waited")
    /\ \E place \in IF Patience[t] = "finite" THEN {"idle", "yield"} ELSE {"enter"} :
          ToStage(t, place)
    /\ UNCHANGED <<running, permits, pxYieldSpinLock, lostNotices, eventVars>>

\* vPortLockInternalSpinUnlockWithNotify by a task: first the spin lock ...
GiveBack(t) ==
    /\ AtStage(t, "holds")
    /\ permits' = [permits EXCEPT ![goal[t]] = @ + 1]
    /\ ToStage(t, "notify")
    /\ UNCHANGED <<running, pxYieldSpinLock, lostNotices, eventVars>>

\* ... and then the bits, which may make another task run at once.
Notify(t) ==
    /\ AtStage(t, "notify")
    /\ SetBits(EventBit(goal[t])) /\ EnableInterrupts
    /\ ToStage(t, "idle")
    /\ Dispatch
    /\ UNCHANGED <<permits, lostNotices, pendedBits, calling, entered, left>>

\* The same by an interrupt: what xEventGroupSetBitsFromISR returns is ignored.
ReleaseFromISR(l) ==
    /\ permits[l] = 0
    /\ permits' = [permits EXCEPT ![l] = 1]
    /\ IF Len(pendedBits) < TimerQueueLength
       THEN PendFromISR("set", EventBit(l)) /\ UNCHANGED lostNotices
       ELSE lostNotices' = lostNotices \cup {l} /\ UNCHANGED eventVars
    /\ UNCHANGED <<running, stage, goal, pxYieldSpinLock>>

\* The timer task sets the bits.
NotifyPended ==
    /\ RunPended /\ EnableInterrupts /\ Dispatch
    /\ UNCHANGED <<permits, stage, goal, lostNotices, calling, entered, left>>

TimeOut(t) == TimeUp(t) /\ UNCHANGED lockVars

LockNext ==
    \/ Preempt \/ NotifyPended
    \/ \E t \in Tasks :
          \/ Begin(t) \/ Enter(t) \/ ForgetLock(t) \/ Yield(t) \/ EndOfWait(t) \/ LookAgain(t)
          \/ GiveBack(t) \/ Notify(t) \/ TimeOut(t)
    \/ \E l \in ISRLocks : ReleaseFromISR(l)

LockSpec == LockStart /\ EventInit /\ [][LockNext]_picoVars

-------------------------------------------------------------------------------
\* Nobody waits for a lock that can be had, unless the notification is on its
\* way, or was lost because the queue of the timer task was full.
NotificationReaches ==
    \A t \in Waiting : permits[goal[t]] > 0 =>
        \/ goal[t] \in lostNotices
        \/ \E u \in Tasks : stage[u] = "notify" /\ goal[u] = goal[t]
        \/ \E f \in ToSet(pendedBits) : f.kind = "set" /\ EventBit(goal[t]) \subseteq f.bits

\* port.c asserts that no lock is noted when a task yields or begins to wait:
\* it is "always dealt with and cleared" before interrupts are enabled again.
Asserts(t) == AtStage(t, "yield") \/ (AtStage(t, "enter") /\ permits[goal[t]] = 0)
NoLockLeft == \A t \in Tasks : Asserts(t) => pxYieldSpinLock = NoLock
===============================================================================
