------------------------------- MODULE MCKernel -------------------------------
(* The objects of the kernel, one at a time, the loops by which the program's *)
(* tasks take events from queues, and the client of the network's task.       *)
EXTENDS KernelQueue, KernelTimers, MutexTimeouts, LossCounter, Heap, PicoSync

CONSTANTS a, b

VARIABLES
    subject,        \* which of them it is
    ready, pxCurrentTCB, xYieldPending, pendSV, pended,
    list, eventList, ucNotifyState, ulNotifiedValue, uxDeletedTasksWaitingCleanUp, victim,
    allocated, frozen,
    tcp_pcb, ring, count, wr, rd, reading, got, sent, kept, torn,
    isMessageBuffer, pucBuffer, xHead, xTail, xTriggerLevelBytes, waitingTask, notified, at,
    sending, receiving, pvRxData, unread, nextByte

\* The scheduler has tasks of its own: three of one priority, of which one
\* takes a mutex within another, a higher one and the idle task.
SchedTasks == {"high", "middle", "low", "third", "IDLE"}
SchedPriority == [t \in SchedTasks |-> CASE t = "high" -> 2 [] t = "IDLE" -> 0 [] OTHER -> 1]
SchedNests ==
    [t \in SchedTasks |-> CASE t = "low" -> {<<"store", "log">>}
                            [] t = "high" -> {<<"log">>} [] OTHER -> {}]

Scheduler == INSTANCE KernelScheduler
    WITH Tasks <- SchedTasks, Priority <- SchedPriority, Nests <- SchedNests,
         IdleTask <- "IDLE", Created <- <<"high", "low", "middle", "third", "IDLE">>

\* These nests are like those of the program: an outer mutex has one taker.  Those of
\* MCNests are not: they go beyond what is proved of them.
ASSUME MCOuter == Scheduler!OuterUncontended /\ Scheduler!SchedulerParameters

\* For the life of tasks: one that is there from the start, one that is not, and
\* the idle task; both of the others may have either priority.
LifeTasks == {"low", "middle", "IDLE"}
LifePriority == [t \in LifeTasks |-> CASE t = "low" -> 1 [] t = "middle" -> 2 [] OTHER -> 0]

States == INSTANCE TaskStates
    WITH Tasks <- LifeTasks, Priority <- LifePriority, IdleTask <- "IDLE",
         Started <- {"low", "IDLE"}, NewPriorities <- {1, 2}, MaxNotified <- 1

ASSUME MCStates == States!StatesParameters

ASSUME MCTime == ClockParameters /\ TimersParameters

\* A ring of three bytes, segments up to more than it holds.
Net == INSTANCE IPStack
    WITH BUF_SIZE <- 3, Segments <- {2, 4}, ReadLengths <- {3}, Alphabet <- 3

ASSUME MCNet == Net!IPStackParameters

\* A buffer for three bytes of which one may be the length of a message.
Stream == INSTANCE StreamBuffer
    WITH xLength <- 4, LengthBytes <- 1, TriggerLevels <- {2}, Alphabet <- 2,
         SendCalls <- {[length |-> 1, waits |-> FALSE], [length |-> 2, waits |-> TRUE]},
         ReceiveCalls <- {[room |-> 1, waits |-> FALSE], [room |-> 2, waits |-> TRUE]}

ASSUME MCStream == Stream!StreamParameters

queueOnly == <<uxLength, storage, locks, xTasksWaitingToSend, xTasksWaitingToReceive,
               blocked, next, op, expired>>
timersOnly == <<timerVars, order, timersHistory>>
switching == <<ready, pxCurrentTCB, xYieldPending, pendSV, pended>>
lifeOnly == <<list, eventList, ucNotifyState, ulNotifiedValue, uxDeletedTasksWaitingCleanUp,
              victim, allocated, frozen>>
netOnly == <<tcp_pcb, ring, count, wr, rd, reading, got, sent, kept, torn>>
streamOnly == <<isMessageBuffer, pucBuffer, xHead, xTail, xTriggerLevelBytes, waitingTask,
                notified, at, sending, receiving, pvRxData, unread, nextByte>>
tasksOnly == <<suspended, xPendingReadyList, pc>>

\* Those that are not the subject stay as they are at the start.
Init ==
    /\ subject \in {"queue", "clock", "timers", "mutexes", "scheduler", "losses",
                   "heap", "events", "locks", "states", "net", "streams"}
    /\ IF subject = "scheduler" THEN Scheduler!SchedulerInit
       ELSE IF subject = "states"
            THEN States!StatesInit /\ NoMutexUsed /\ Scheduler!ReadyStart /\ pended = FALSE
       ELSE /\ TasksInit /\ pc = IF subject = "timers" THEN DaemonFirst ELSE Idle
            /\ MutexStart /\ Scheduler!SwitchStart
    /\ subject # "states" => States!StatesStart
    /\ QueueStart /\ (subject # "queue" => uxLength = 1)
    /\ ClockStart /\ TimersStart /\ HeapInit
    /\ EventInit /\ LockStart /\ WaitStart
    /\ Net!IPStackInit
    /\ Stream!StreamInit /\ (subject # "streams" => ~isMessageBuffer)
    /\ LossInit /\ (subject # "losses" => reader = "Storage")

QueueTurn ==
    /\ subject = "queue" /\ QueueNext
    /\ UNCHANGED <<subject, clockVars, timersOnly, mutexVars, lossVars,
                   switching, heapVars, picoVars, lifeOnly, netOnly, streamOnly, waitVars>>

ClockTurn ==
    /\ subject = "clock" /\ ClockNext
    /\ UNCHANGED <<subject, queueOnly, timersOnly, mutexVars, lossVars,
                   switching, heapVars, picoVars, lifeOnly, netOnly, streamOnly, waitVars>>

TimersTurn ==
    /\ subject = "timers" /\ TimersNext
    /\ UNCHANGED <<subject, queueOnly, mutexVars, lossVars, switching,
                   heapVars, picoVars, lifeOnly, netOnly, streamOnly, waitVars>>

MutexTurn ==
    /\ subject = "mutexes" /\ TimedNext
    /\ UNCHANGED <<subject, queueOnly, clockVars, timersOnly, lossVars,
                   switching, heapVars, picoVars, lifeOnly, netOnly, streamOnly>>

SchedulerTurn ==
    /\ subject = "scheduler" /\ Scheduler!SchedulerNext
    /\ UNCHANGED <<subject, queueOnly, clockVars, timersOnly, lossVars,
                   heapVars, picoVars, lifeOnly, netOnly, streamOnly, waitVars>>

LossTurn ==
    /\ subject = "losses" /\ LossNext
    /\ UNCHANGED <<subject, tasksOnly, queueOnly, clockVars, timersOnly, mutexVars,
                   switching, heapVars, picoVars, lifeOnly, netOnly,
                   streamOnly, waitVars>>

HeapTurn ==
    /\ subject = "heap" /\ HeapNext
    /\ UNCHANGED <<subject, tasksOnly, queueOnly, clockVars, timersOnly, mutexVars,
                   lossVars, switching, picoVars, lifeOnly, netOnly,
                   streamOnly, waitVars>>

EventTurn ==
    /\ subject = "events" /\ EventNext
    /\ UNCHANGED <<subject, tasksOnly, queueOnly, clockVars, timersOnly, mutexVars,
                   lossVars, switching, heapVars, lockVars, lifeOnly, netOnly,
                   streamOnly, waitVars>>

LockTurn ==
    /\ subject = "locks" /\ LockNext
    /\ UNCHANGED <<subject, tasksOnly, queueOnly, clockVars, timersOnly, mutexVars,
                   lossVars, switching, heapVars, lifeOnly, netOnly,
                   streamOnly, waitVars>>

StatesTurn ==
    /\ subject = "states" /\ States!StatesNext
    /\ UNCHANGED <<subject, queueOnly, clockVars, timersOnly, xMutexHolder, waiting, held, want,
                   lossVars, ready, pended, heapVars, picoVars, netOnly,
                   streamOnly, waitVars>>

NetTurn ==
    /\ subject = "net" /\ Net!IPStackNext
    /\ UNCHANGED <<subject, tasksOnly, queueOnly, clockVars, timersOnly, mutexVars, lossVars,
                   switching, heapVars, picoVars, lifeOnly,
                   streamOnly, waitVars>>

StreamTurn ==
    /\ subject = "streams" /\ Stream!StreamNext
    /\ UNCHANGED <<subject, tasksOnly, queueOnly, clockVars, timersOnly, mutexVars, lossVars,
                   switching, heapVars, picoVars, lifeOnly, netOnly, waitVars>>

Next ==
    \/ QueueTurn \/ ClockTurn \/ TimersTurn \/ MutexTurn \/ SchedulerTurn
    \/ LossTurn \/ HeapTurn \/ EventTurn \/ LockTurn \/ StatesTurn
    \/ NetTurn \/ StreamTurn

vars == <<subject, tasksOnly, queueOnly, clockVars, timersOnly, mutexVars, lossVars,
          switching, heapVars, picoVars, lifeOnly, netOnly,
                   streamOnly, waitVars>>

Spec == Init /\ [][Next]_vars

\* Two states of one subject are the same if what the subject changes is: the rest
\* stays as it was at the start, of which there is one for each subject.
View ==
    <<subject,
      CASE subject = "queue" -> <<tasksOnly, queueOnly>>
        [] subject = "clock" -> <<tasksOnly, clockVars>>
        [] subject = "timers" -> <<tasksOnly, clockVars, timersOnly>>
        [] subject = "mutexes" -> <<tasksOnly, mutexVars, waitVars>>
        [] subject = "scheduler" -> <<tasksOnly, mutexVars, switching>>
        [] subject = "losses" -> lossVars
        [] subject = "heap" -> heapVars
        [] subject = "events" -> eventVars
        [] subject = "locks" -> picoVars
        [] subject = "states" ->
              <<tasksOnly, uxPriority, pxCurrentTCB, xYieldPending, pendSV, lifeOnly>>
        [] subject = "net" -> netOnly
        [] subject = "streams" -> streamOnly>>

\* The locks alone.
PicoSpec == Init /\ subject = "locks" /\ [][LockTurn]_vars

-------------------------------------------------------------------------------
\* Nobody sleeps although what it waits for is there: an item or room of a queue,
\* bits of an event group, a lock of the SDK, a notification, bytes or space of a
\* stream buffer.
NobodyOverslept ==
    CASE subject = "queue" -> NoLostWakeup
      [] subject = "events" -> NobodyWaitsForSetBits
      [] subject = "locks" -> NobodyWaitsForSetBits /\ NotificationReaches
      [] subject = "states" -> States!NobodySleepsNotified
      [] subject = "streams" -> Stream!NobodySleepsInVain
      [] OTHER -> TRUE

\* HolderInherits of KernelMutex, whether priorities are obeyed by definition or
\* by the scheduler.
NoInversion ==
    CASE subject = "scheduler" -> Scheduler!HolderInherits
      [] subject = "mutexes" -> HolderInherits /\ PriorityIsLent
      [] OTHER -> TRUE

\* The running task is a ready one of the highest priority: of KernelScheduler,
\* whose tasks block on mutexes, and of TaskStates.
HighestRuns ==
    CASE subject = "scheduler" -> Scheduler!HighestRuns
      [] subject = "states" -> States!HighestRuns
      [] OTHER -> TRUE

\* Of TaskStates: the lists agree with each other and with the memory in use.
ListsAgree == subject = "states" => States!ListsAgree

\* Nobody reads anything but what was sent, in order, and of messages nothing but
\* whole ones: of IPStack and of StreamBuffer.
StreamIsWhole ==
    CASE subject = "net" -> Net!StreamIsWhole
      [] subject = "streams" -> Stream!StreamIsWhole
      [] OTHER -> TRUE

\* Of KernelScheduler: ready tasks of one priority take turns.
PeersTakeTurns == Scheduler!PeersTakeTurns

-------------------------------------------------------------------------------
\* The instance: three tasks, the highest of which is the timer task.

MCPriority == [t \in Tasks |-> CASE t = "high" -> 3 [] t = "middle" -> 2 [] OTHER -> 1]

ACall(t, kind, wait, x, n) ==
    [task |-> t, kind |-> kind, wait |-> wait, item |-> x, length |-> n]

\* A queue of two with every kind of waiting, and a mailbox or semaphore.
MCCalls ==
    { ACall("high", "receive", "none", NoItem, 2),
      ACall("high", "receive", "forever", NoItem, 2),
      ACall("middle", "send", "forever", b, 2),
      ACall("low", "receive", "finite", NoItem, 2), ACall("low", "send", "finite", b, 2),
      ACall("high", "peek", "none", NoItem, 2),
      ACall("high", "peek", "finite", NoItem, 1), ACall("middle", "overwrite", "none", b, 1),
      ACall("middle", "send", "none", a, 1), ACall("low", "receive", "none", NoItem, 1),
      ACall("low", "receive", "forever", NoItem, 1) }

MCPeriod == [m \in Timers |-> IF m = "update" THEN 2 ELSE 5]

\* The callbacks of the timer task may wait for the log.
MCMaxLate == [t \in Tasks |-> IF t = "high" THEN 2 ELSE 1]

AnEventCall(t, kind, bits, set, all, clear, wait) ==
    [task |-> t, kind |-> kind, bits |-> bits, set |-> set, all |-> all,
     clear |-> clear, wait |-> wait]

\* A rendezvous on two bits, and all kinds of waits on two others.
MCEventCalls ==
    { AnEventCall("high", "sync", {0, 8}, {0}, TRUE, TRUE, "finite"),
      AnEventCall("middle", "sync", {0, 8}, {8}, TRUE, TRUE, "forever"),
      AnEventCall("high", "wait", {16, 17}, {}, TRUE, TRUE, "finite"),
      AnEventCall("low", "wait", {16, 17}, {}, FALSE, TRUE, "forever"),
      AnEventCall("low", "wait", {16, 17}, {}, TRUE, FALSE, "finite"),
      AnEventCall("middle", "wait", {16}, {}, FALSE, FALSE, "none"),
      AnEventCall("middle", "set", {}, {16, 17}, FALSE, FALSE, "none"),
      AnEventCall("low", "clear", {}, {16}, FALSE, FALSE, "none") }

\* Two of them meet, one for as long as it takes, by the bits 0 and 8.
ASSUME MCRendezvous == Rendezvous([t \in Companions |-> IF t = "high" THEN 0 ELSE 8])

\* Two locks that share an event bit, for two tasks; of the second interrupts
\* give permits.
MCSeeks == [t \in Tasks |-> IF t = "low" THEN {} ELSE {8, 16}]
MCPatience == [t \in Tasks |-> IF t = "middle" THEN "finite" ELSE "forever"]

\* The lowest task waits without a timeout, as Fmutex does.
MCBlockTimes ==
    [t \in Tasks |-> CASE t = "high" -> {"none", "finite"}
                       [] t = "middle" -> {"finite", "forever"}
                       [] OTHER -> {"forever"}]

\* Storage::store logs while it holds its mutex.
MCNests ==
    [t \in Tasks |-> CASE t = "high" -> {<<"log">>, <<"i2c">>}
                       [] t = "middle" -> {<<"i2c">>, <<"store", "log">>}
                       [] OTHER -> {<<"log">>, <<"store", "log">>}]
===============================================================================
