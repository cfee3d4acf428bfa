----------------------------- MODULE KernelTimers -----------------------------
(***************************************************************************)
(* The software timers of the kernel, timers.c: xTimerStart sends a        *)
(* command with the current tick count to the timer task (the daemon),     *)
(* which keeps the active timers in two lists, sleeps until the next one   *)
(* expires or a command comes, and changes the lists when it sees that the *)
(* tick count has overflowed.  The program has two timers: an auto-reload  *)
(* one for the updates of Greenhouse and a one-shot one, CO2_WAIT.         *)
(*                                                                         *)
(* A timer's list item keeps its value as long as it is in a list.         *)
(***************************************************************************)
EXTENDS KernelClock

CONSTANTS
    Daemon,         \* prvTimerTask
    Orderers,       \* the tasks that start timers
    Timers, AutoReload,
    Period,         \* xTimerPeriodInTicks
    MaxCommands     \* bound: the length of xTimerQueue

ASSUME TimersAssumption ==
    /\ Daemon \in Tasks /\ Orderers \subseteq Tasks \ {Daemon}
    /\ AutoReload \subseteq Timers
    /\ Period \in [Timers -> 1..(TickRange - 1)]
    /\ MaxCommands \in Nat \ {0}

VARIABLES
    current, overflown,     \* pxCurrentTimerList, pxOverflowTimerList
    expiry,                 \* the values of the timers' list items
    active,                 \* tmrSTATUS_IS_ACTIVE
    xLastTime,
    commands,               \* xTimerQueue: [timer, value]
    reg,                    \* the local variables of the daemon
    order,                  \* the command that a task is about to send
    due, age,               \* history: the ticks until a timer is to expire,
                            \* and since its start was ordered
    early                   \* history: did a callback run too early?

timerVars == <<current, overflown, expiry, active, xLastTime, commands, reg>>
timersHistory == <<due, age, early>>

NoTimer == "none"
NoOrder == [timer |-> NoTimer, value |-> 0]
Registers == [next |-> 0, empty |-> TRUE, timer |-> NoTimer, expired |-> 0, now |-> 0,
              sampled |-> 0, then |-> "next", back |-> "next", message |-> NoOrder]

DaemonFirst == [Idle EXCEPT ![Daemon] = "next"]

TimersStart ==
    /\ current = {} /\ overflown = {} /\ active = {}
    /\ expiry = [m \in Timers |-> 0]
    /\ xLastTime = 0 /\ commands = <<>> /\ reg = Registers
    /\ order = [t \in Tasks |-> NoOrder]
    /\ due = [m \in Timers |-> 0] /\ age = [m \in Timers |-> 0] /\ early = FALSE

TimersInit == TasksInit /\ pc = DaemonFirst /\ ClockStart /\ TimersStart

Ordered == { order[t].timer : t \in Tasks } \cup {reg.message.timer} \cup
           { commands[i].timer : i \in 1..Len(commands) }

\* The history of a step that counts ticks.
Elapse ==
    LET ticks == (clk'.tick - clk.tick) % TickRange
    IN  /\ due' = [m \in Timers |-> IF m \in active THEN due[m] - ticks ELSE 0]
        /\ age' = [m \in Timers |-> IF m \in Ordered THEN age[m] + ticks ELSE 0]
        /\ UNCHANGED early

-------------------------------------------------------------------------------
\* xTimerStart in a task: the tick count is read before the command is sent.
\* Greenhouse starts a timer only while xTimerIsTimerActive denies that it runs.

ReadTickCount(t) ==
    /\ ClockAt(t, "idle") /\ suspended = NoTask
    /\ \E m \in Timers \ (Ordered \cup active) :
        order' = [order EXCEPT ![t] = [timer |-> m, value |-> clk.tick]]
    /\ Go(t, "order")
    /\ UNCHANGED <<suspended, xPendingReadyList, clockVars, timerVars, timersHistory>>

\* A daemon that waits for commands is unblocked.
SendCommand(t) ==
    /\ ClockAt(t, "order") /\ suspended = NoTask /\ Len(commands) < MaxCommands
    /\ commands' = Append(commands, order[t])
    /\ order' = [order EXCEPT ![t] = NoOrder]
    /\ clk' = Removed(clk, {Daemon} \cap Asleep(clk))
    /\ late' = [late EXCEPT ![t] = 0]
    /\ Go(t, "idle")
    /\ UNCHANGED <<suspended, xPendingReadyList, xPendedTicks, job, current, overflown,
                   expiry, active, xLastTime, reg, timersHistory>>

-------------------------------------------------------------------------------
\* The lists of the daemon.

HeadOf(timers) == CHOOSE m \in timers : \A n \in timers : expiry[m] <= expiry[n]

\* Variant of ProcessNow without the case of a command sent before the tick
\* count overflowed.
ProcessNowPlain(m, next, now, from) ==
    next <= now /\ (now - from) % TickRange >= Period[m]

\* What prvInsertTimerInActiveList returns: the timer has expired already.
ProcessNow(m, next, now, from) ==
    IF next <= now THEN (now - from) % TickRange >= Period[m]
                   ELSE now < from /\ next >= from

\* The list it is put into if not.
InsertInActiveList(m, next, now) ==
    /\ expiry' = [expiry EXCEPT ![m] = next]
    /\ IF next <= now THEN overflown' = overflown \cup {m} /\ UNCHANGED current
                      ELSE current' = current \cup {m} /\ UNCHANGED overflown

RemovedFromLists(m) ==
    /\ current' = current \ {m} /\ overflown' = overflown \ {m}
    /\ expiry' = [expiry EXCEPT ![m] = 0]

\* A callback runs: history only.
Callback(m) ==
    /\ early' = (early \/ due[m] > 0)
    /\ due' = [due EXCEPT ![m] = IF m \in AutoReload THEN @ + Period[m] ELSE 0]
    /\ UNCHANGED age

-------------------------------------------------------------------------------
\* The steps of the daemon, prvTimerTask.

unchangedTasks == UNCHANGED <<suspended, xPendingReadyList, clockVars, order>>

\* prvGetNextExpireTime, and vTaskSuspendAll: only the daemon touches its lists.
GetNextExpireTime ==
    /\ ClockAt(Daemon, "next") /\ suspended = NoTask
    /\ reg' = [Registers EXCEPT !.empty = (current = {}),
                !.next = IF current = {} THEN 0 ELSE expiry[HeadOf(current)]]
    /\ suspended' = Daemon
    /\ Go(Daemon, "sample")
    /\ UNCHANGED <<xPendingReadyList, clockVars, order, current, overflown, expiry,
                   active, xLastTime, commands, timersHistory>>

\* vQueueWaitForMessageRestricted: not if there is a command.
WaitForMessage ==
    IF commands # <<>> THEN UNCHANGED clk
    ELSE clk' = AddToDelayedList(clk, Daemon, (reg.next - clk.tick) % TickRange,
                                 reg.empty /\ overflown = {})

\* prvProcessTimerOrBlockTask, with the scheduler suspended.
SampleTimeNow ==
    /\ ClockAt(Daemon, "sample")
    /\ reg' = [Registers EXCEPT !.now = clk.tick, !.sampled = clk.tick,
                                !.back = "resumeSwitched"]
    /\ IF clk.tick < xLastTime
       THEN Go(Daemon, "switch") /\ UNCHANGED <<clk, xLastTime>>
       ELSE /\ xLastTime' = clk.tick
            /\ IF ~reg.empty /\ reg.next <= clk.tick
               THEN Go(Daemon, "resumeExpired") /\ UNCHANGED clk
               ELSE Go(Daemon, "resumeBlocked") /\ WaitForMessage
    /\ UNCHANGED <<suspended, xPendingReadyList, xPendedTicks, job, late, current,
                   overflown, expiry, active, commands, order, timersHistory>>

\* xTaskResumeAll on each of the three ways out of it.
ResumeDaemon ==
    /\ suspended = Daemon
    /\ \/ pc[Daemon] = "resumeSwitched" /\ Go(Daemon, "receive") /\ UNCHANGED late
       \/ pc[Daemon] = "resumeExpired" /\ Go(Daemon, "expire") /\ UNCHANGED late
       \/ /\ pc[Daemon] = "resumeBlocked" /\ Go(Daemon, "receive")
          /\ late' = [late EXCEPT ![Daemon] = 0]
    /\ ResumeScheduler /\ Elapse
    /\ UNCHANGED <<job, timerVars, order>>

\* prvProcessExpiredTimer up to the reloading or the callback.
ProcessExpiredTimer(m, now, then) ==
    /\ RemovedFromLists(m)
    /\ reg' = [reg EXCEPT !.timer = m, !.expired = expiry[m], !.now = now, !.then = then]
    /\ IF m \in AutoReload THEN Go(Daemon, "reload") /\ UNCHANGED active
       ELSE Go(Daemon, "callback") /\ active' = active \ {m}

Expire ==
    /\ ClockAt(Daemon, "expire")
    /\ ProcessExpiredTimer(HeadOf(current), reg.now, "receive")
    /\ unchangedTasks
    /\ UNCHANGED <<xLastTime, commands, timersHistory>>

\* One turn of the loop of prvReloadTimer: a period that is over already is
\* made up for at once.
ReloadTimer ==
    /\ ClockAt(Daemon, "reload")
    /\ LET m == reg.timer
           again == (reg.expired + Period[m]) % TickRange
       IN  IF ProcessNow(m, again, reg.now, reg.expired)
           THEN /\ reg' = [reg EXCEPT !.expired = again]
                /\ Callback(m)
                /\ UNCHANGED <<pc, current, overflown, expiry>>
           ELSE /\ InsertInActiveList(m, again, reg.now)
                /\ Go(Daemon, "callback")
                /\ UNCHANGED <<reg, timersHistory>>
    /\ unchangedTasks
    /\ UNCHANGED <<active, xLastTime, commands>>

RunCallback ==
    /\ ClockAt(Daemon, "callback")
    /\ Callback(reg.timer)
    /\ reg' = [reg EXCEPT !.timer = NoTimer, !.expired = 0]
    /\ Go(Daemon, reg.then)
    /\ unchangedTasks
    /\ UNCHANGED <<current, overflown, expiry, active, xLastTime, commands>>

\* prvSwitchTimerLists: whatever is left in the current list has expired.
SwitchTimerLists ==
    /\ ClockAt(Daemon, "switch")
    /\ IF current # {}
       THEN /\ ProcessExpiredTimer(HeadOf(current), portMAX_DELAY, "switch")
            /\ UNCHANGED xLastTime
       ELSE /\ current' = overflown /\ overflown' = {}
            /\ xLastTime' = reg.sampled
            /\ Go(Daemon, reg.back)
            /\ UNCHANGED <<expiry, active, reg>>
    /\ unchangedTasks
    /\ UNCHANGED <<commands, timersHistory>>

\* prvProcessReceivedCommands takes a command; its timer leaves its list before
\* the time is sampled.
ReceiveCommand ==
    /\ ClockAt(Daemon, "receive") /\ suspended = NoTask
    /\ IF commands = <<>>
       THEN Go(Daemon, "next") /\ UNCHANGED <<current, overflown, expiry, reg, commands>>
       ELSE /\ RemovedFromLists(Head(commands).timer)
            /\ reg' = [Registers EXCEPT !.message = Head(commands)]
            /\ commands' = Tail(commands)
            /\ Go(Daemon, "sampleStart")
    /\ unchangedTasks
    /\ UNCHANGED <<active, xLastTime, timersHistory>>

SampleForCommand ==
    /\ ClockAt(Daemon, "sampleStart") /\ suspended = NoTask
    /\ reg' = [reg EXCEPT !.now = clk.tick, !.sampled = clk.tick, !.back = "start"]
    /\ IF clk.tick < xLastTime
       THEN Go(Daemon, "switch") /\ UNCHANGED xLastTime
       ELSE Go(Daemon, "start") /\ xLastTime' = clk.tick
    /\ unchangedTasks
    /\ UNCHANGED <<current, overflown, expiry, active, commands, timersHistory>>

\* tmrCOMMAND_START
StartTimer ==
    /\ ClockAt(Daemon, "start") /\ suspended = NoTask
    /\ LET m == reg.message.timer
           first == (reg.message.value + Period[m]) % TickRange
           now == reg.sampled
           over == ProcessNow(m, first, now, reg.message.value)
       IN  /\ IF over
              THEN /\ Go(Daemon, IF m \in AutoReload THEN "reload" ELSE "callback")
                   /\ reg' = [Registers EXCEPT !.timer = m, !.expired = first,
                                               !.now = now, !.then = "receive"]
                   /\ UNCHANGED <<current, overflown, expiry>>
              ELSE /\ InsertInActiveList(m, first, now)
                   /\ Go(Daemon, "receive")
                   /\ reg' = Registers
           /\ active' = IF over /\ m \notin AutoReload THEN active \ {m}
                                                      ELSE active \cup {m}
           /\ due' = [due EXCEPT ![m] = Period[m] - age[m]]
           /\ age' = [age EXCEPT ![m] = 0]
    /\ unchangedTasks
    /\ UNCHANGED <<xLastTime, commands, early>>

-------------------------------------------------------------------------------
DaemonStep ==
    \/ GetNextExpireTime \/ SampleTimeNow \/ ResumeDaemon
    \/ Expire \/ ReloadTimer \/ RunCallback \/ SwitchTimerLists
    \/ ReceiveCommand \/ SampleForCommand \/ StartTimer

\* Where KernelClock has tasks that sleep, this has tasks that order.
TimersTick == IncrementTick /\ Elapse /\ UNCHANGED <<timerVars, order>>

TimersNext ==
    \/ TimersTick \/ DaemonStep
    \/ \E t \in Orderers : ReadTickCount(t) \/ SendCommand(t)

TimersSpec ==
    TimersInit /\ [][TimersNext]_<<suspended, xPendingReadyList, pc, clockVars, timerVars,
                                   order, timersHistory>>

\* The tick count does not come around while a timer runs and its expiry is handled late,
\* nor while a command is underway.
TimersParameters ==
    /\ NoTimer \notin Timers /\ Daemon \notin Sleepers
    /\ MaxPended + MaxLate[Daemon] < TickRange
    /\ \A m \in Timers : Period[m] + MaxLate[Daemon] < TickRange
    /\ \A t \in Orderers : MaxLate[t] + 2 * MaxLate[Daemon] < TickRange

-------------------------------------------------------------------------------
\* No callback runs before its timer has run for a whole period, and the daemon
\* never sleeps past the expiry of an active timer: not when the tick count
\* overflows between the order and the command, while it makes up for missed
\* periods, or with timers in both lists.
TimersFireOnTime ==
    /\ ~early
    /\ Daemon \in Asleep(clk) => \A m \in active : due[m] > 0

\* Time-outs and timers are exact although the tick count overflows and ticks
\* are kept back while the scheduler is suspended.
OnTime == TimeIsExact /\ TimersFireOnTime
===============================================================================
