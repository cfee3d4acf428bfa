----------------------------- MODULE KernelClock ------------------------------
(***************************************************************************)
(* How the kernel measures time, tasks.c: vTaskDelay, the waits with a     *)
(* timeout, the tick interrupt and the two delayed lists, which change     *)
(* places when the tick count overflows.  While the scheduler is suspended *)
(* ticks are only counted; xTaskResumeAll runs them one after the other.   *)
(* A tick count has TickRange values and the count of its overflows        *)
(* OverflowRange (both 2^32 in the program).  The value of a list item is  *)
(* kept as long as the item is in a list.                                  *)
(***************************************************************************)
EXTENDS KernelTasks, FiniteSetsExt

CONSTANTS
    TickRange, OverflowRange,
    Sleepers,       \* the tasks that delay and wait
    Delays,         \* the ticks they ask vTaskDelay for
    Timeouts,       \* the ticks they wait for an event
    MaxPended,      \* bound: the ticks counted while the scheduler is suspended
    MaxLate         \* bound: how many ticks each task, ready, takes to block again

ASSUME ClockAssumption ==
    /\ TickRange \in Nat \ 0..1 /\ OverflowRange \in Nat \ 0..1
    /\ Sleepers \subseteq Tasks
    /\ Delays \subseteq 1..(TickRange - 1) /\ Timeouts \subseteq 1..(TickRange - 2)
    /\ MaxPended \in Nat /\ MaxLate \in [Tasks -> Nat]

VARIABLES
    clk,            \* xTickCount, xNumOfOverflows, the delayed lists with the
                    \* values of their items, xNextTaskUnblockTime, and left:
                    \* how many ticks of the wait are to come (history)
    xPendedTicks,
    job,            \* what each sleeper does: [kind, ticks, overflows, entered]
    late            \* history: the ticks since a task was last blocked or idle

clockVars == <<clk, xPendedTicks, job, late>>

portMAX_DELAY == TickRange - 1
NoJob == [kind |-> "none", ticks |-> 0, overflows |-> 0, entered |-> 0]

ClockStart ==
    /\ clk = [tick |-> 0, overflows |-> 0, delayed |-> {}, overflow |-> {},
              forever |-> {}, wakeAt |-> [t \in Tasks |-> 0],
              nextUnblock |-> portMAX_DELAY, left |-> [t \in Tasks |-> 0]]
    /\ xPendedTicks = 0
    /\ job = [t \in Tasks |-> NoJob]
    /\ late = [t \in Tasks |-> 0]

ClockInit == TasksInit /\ pc = Idle /\ ClockStart

Asleep(c) == c.delayed \cup c.overflow \cup c.forever
ClockRuns(t) == t \notin Asleep(clk) /\ suspended \in {NoTask, t}
ClockAt(t, place) == pc[t] = place /\ ClockRuns(t)

-------------------------------------------------------------------------------
\* The delayed lists.

\* prvResetNextTaskUnblockTime
First(tasks, wakeAt) ==
    IF tasks = {} THEN portMAX_DELAY ELSE Min({ wakeAt[t] : t \in tasks })

\* prvAddCurrentTaskToDelayedList; a wait for 0 ticks ends with the next tick.
AddToDelayedList(c, t, ticks, forever) ==
    LET wake == (c.tick + ticks) % TickRange
        d == [c EXCEPT !.wakeAt[t] = wake]
    IN  IF forever THEN [c EXCEPT !.forever = @ \cup {t}]
        ELSE IF wake < c.tick THEN [d EXCEPT !.overflow = @ \cup {t}]
        ELSE [d EXCEPT !.delayed = @ \cup {t},
                       !.nextUnblock = IF wake < @ THEN wake ELSE @]

\* A task leaves whichever list it is in; xNextTaskUnblockTime stays.
Removed(c, tasks) ==
    [c EXCEPT !.delayed = @ \ tasks, !.overflow = @ \ tasks, !.forever = @ \ tasks,
              !.wakeAt = [t \in Tasks |-> IF t \in tasks THEN 0 ELSE @[t]]]

\* taskSWITCH_DELAYED_LISTS
SwitchDelayedLists(c) ==
    [c EXCEPT !.delayed = c.overflow, !.overflow = c.delayed,
              !.overflows = (@ + 1) % OverflowRange,
              !.nextUnblock = First(c.overflow, c.wakeAt)]

Due(c) == { t \in c.delayed : c.wakeAt[t] <= c.tick }

\* The loop of xTaskIncrementTick over the head of the delayed list.
UnblockDue(c) ==
    [Removed(c, Due(c)) EXCEPT !.nextUnblock = First(c.delayed \ Due(c), c.wakeAt)]

\* xTaskIncrementTick, the scheduler running.
Ticked(c) ==
    LET now == (c.tick + 1) % TickRange
        n == [c EXCEPT !.tick = now,
                       !.left = [t \in Tasks |-> IF @[t] > 0 THEN @[t] - 1 ELSE 0]]
        s == IF now = 0 THEN SwitchDelayedLists(n) ELSE n
    IN  IF now >= s.nextUnblock THEN UnblockDue(s) ELSE s

\* n pended ticks, one after the other.
TickedTimes(c, n) ==
    LET run[i \in 0..n] == IF i = 0 THEN c ELSE Ticked(run[i - 1]) IN run[n]

Later(c) == [t \in Tasks |-> IF t \in Asleep(c) \/ pc[t] = "idle" THEN 0
                             ELSE IF late[t] < MaxLate[t] THEN late[t] + 1
                             ELSE MaxLate[t]]

\* The tick interrupt.
IncrementTick ==
    /\ \A t \in Tasks : late[t] < MaxLate[t]
    /\ IF suspended = NoTask
       THEN clk' = Ticked(clk) /\ UNCHANGED xPendedTicks
       ELSE /\ xPendedTicks < MaxPended
            /\ xPendedTicks' = xPendedTicks + 1
            /\ UNCHANGED clk
    /\ late' = Later(clk')
    /\ UNCHANGED <<suspended, xPendingReadyList, pc, job>>

\* xTaskResumeAll: first the pending tasks, then the pended ticks.
ResumeScheduler ==
    LET c == Removed(clk, xPendingReadyList)
        r == IF xPendingReadyList = {} THEN c
             ELSE [c EXCEPT !.nextUnblock = First(c.delayed, c.wakeAt)]
    IN  /\ suspended' = NoTask
        /\ xPendingReadyList' = {} /\ xPendedTicks' = 0
        /\ clk' = TickedTimes(r, xPendedTicks)

-------------------------------------------------------------------------------
\* vTaskDelay(ticks), and a wait for an event: vTaskInternalSetTimeOutState
\* when the event is not there yet.
StartJob(t) ==
    /\ ClockAt(t, "idle") /\ suspended = NoTask
    /\ \E kind \in {"delay", "wait"} :
        \E n \in IF kind = "delay" THEN Delays ELSE Timeouts :
            /\ job' = [job EXCEPT ![t] =
                         IF kind = "delay" THEN [NoJob EXCEPT !.kind = kind, !.ticks = n]
                         ELSE [kind |-> kind, ticks |-> n, entered |-> clk.tick,
                               overflows |-> clk.overflows]]
            /\ clk' = [clk EXCEPT !.left[t] = n]
    /\ Go(t, "suspend")
    /\ UNCHANGED <<suspended, xPendingReadyList, xPendedTicks, late>>

SuspendScheduler(t) ==
    /\ ClockAt(t, "suspend") /\ suspended = NoTask
    /\ suspended' = t
    /\ Go(t, IF job[t].kind = "delay" THEN "add" ELSE "check")
    /\ UNCHANGED <<xPendingReadyList, clockVars>>

Elapsed(t) == (clk.tick - job[t].entered) % TickRange

\* Variant of TimedOut that compares with the tick count on entering.
TimedOutPlain(t) == clk.tick - job[t].entered >= job[t].ticks

\* The verdict of xTaskCheckForTimeOut.
TimedOut(t) ==
    \/ clk.overflows # job[t].overflows /\ clk.tick >= job[t].entered
    \/ Elapsed(t) >= job[t].ticks

\* xTaskCheckForTimeOut: what is left is waited for from now on.
CheckForTimeOut(t) ==
    /\ ClockAt(t, "check")
    /\ IF TimedOut(t) THEN Go(t, "giveUp") /\ UNCHANGED job
       ELSE /\ Go(t, "add")
            /\ job' = [job EXCEPT ![t].ticks =
                                      @ - Elapsed(t),
                                  ![t].overflows = clk.overflows,
                                  ![t].entered = clk.tick]
    /\ UNCHANGED <<suspended, xPendingReadyList, clk, xPendedTicks, late>>

\* The delay of vTaskDelay counts from here.
AddCurrentTask(t) ==
    /\ ClockAt(t, "add")
    /\ LET c == IF job[t].kind = "delay" THEN [clk EXCEPT !.left[t] = job[t].ticks]
                                         ELSE clk
       IN  clk' = AddToDelayedList(c, t, job[t].ticks, FALSE)
    /\ Go(t, "resume")
    /\ UNCHANGED <<suspended, xPendingReadyList, xPendedTicks, job, late>>

ResumeAfter(t) ==
    /\ pc[t] \in {"resume", "giveUp"} /\ suspended = t
    /\ ResumeScheduler
    /\ late' = [late EXCEPT ![t] = 0]
    /\ IF pc[t] = "resume" THEN Go(t, "blocked") /\ UNCHANGED job
       ELSE Go(t, "idle") /\ job' = [job EXCEPT ![t] = NoJob]

\* Ready again: the delay is over, or the wait is tried again.
Awake(t) ==
    /\ ClockAt(t, "blocked") /\ suspended = NoTask
    /\ IF job[t].kind = "wait" THEN Go(t, "suspend") /\ UNCHANGED <<job, late>>
       ELSE /\ Go(t, "idle")
            /\ job' = [job EXCEPT ![t] = NoJob]
            /\ late' = [late EXCEPT ![t] = 0]
    /\ UNCHANGED <<suspended, xPendingReadyList, clk, xPendedTicks>>

\* An interrupt handler wakes a task that waits for an event (which another
\* task may take before it runs).
EventWakes(t) ==
    /\ job[t].kind = "wait" /\ t \in Asleep(clk) /\ t \notin xPendingReadyList
    /\ IF suspended = NoTask
       THEN clk' = Removed(clk, {t}) /\ UNCHANGED xPendingReadyList
       ELSE xPendingReadyList' = xPendingReadyList \cup {t} /\ UNCHANGED clk
    /\ UNCHANGED <<suspended, pc, xPendedTicks, job, late>>

Sleeper(t) ==
    \/ StartJob(t) \/ SuspendScheduler(t) \/ CheckForTimeOut(t) \/ AddCurrentTask(t)
    \/ ResumeAfter(t) \/ Awake(t) \/ EventWakes(t)

ClockNext == IncrementTick \/ \E t \in Sleepers : Sleeper(t)

ClockSpec == ClockInit /\ [][ClockNext]_<<suspended, xPendingReadyList, pc, clockVars>>

\* The tick count goes around once at most while a task waits, is woken late and looks
\* at the time.
ClockParameters ==
    /\ MaxPended < TickRange
    /\ \A t \in Sleepers, n \in Timeouts : n + MaxPended + MaxLate[t] <= TickRange

-------------------------------------------------------------------------------
\* A task that sleeps in vTaskDelay or with a timeout sleeps not one tick longer
\* than it asked for, and wakes or gives up not one tick earlier, through the
\* overflow of the tick count, pended ticks and early wakings.
TimeIsExact ==
    \A t \in Sleepers :
        /\ t \in Asleep(clk) => clk.left[t] > 0
        /\ pc[t] = "giveUp" => clk.left[t] = 0
        /\ pc[t] = "blocked" /\ job[t].kind = "delay" /\ t \notin Asleep(clk)
              => clk.left[t] = 0
===============================================================================
