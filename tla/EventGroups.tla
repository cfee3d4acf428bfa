----------------------------- MODULE EventGroups ------------------------------
(***************************************************************************)
(* An event group of the kernel, event_groups.c.  Everything from          *)
(* vTaskSuspendAll to xTaskResumeAll is one step, since interrupts never   *)
(* touch the group: what they set or clear they leave to the timer task.   *)
(* A task that was woken, or whose wait ran out, goes on later, and others *)
(* set, clear and wait in between.                                         *)
(***************************************************************************)
EXTENDS KernelTasks, SequencesExt

CONSTANTS
    Bits,
    ISRBits,            \* those that interrupts set and clear
    EventCalls,         \* the calls that the tasks make
    TimerQueueLength,   \* how many calls interrupts may leave to the timer task
    MaxMeetings         \* bounds how often a task comes to a rendezvous

EventKinds == {"wait", "sync", "set", "clear"}

ASSUME EventAssumption ==
    /\ TimerQueueLength \in Nat /\ MaxMeetings \in Nat /\ ISRBits \subseteq Bits
    /\ EventCalls \subseteq [task : Tasks, kind : EventKinds, bits : SUBSET Bits,
                             set : SUBSET Bits, all : BOOLEAN, clear : BOOLEAN,
                             wait : {"none", "finite", "forever"}]
    /\ \A c \in EventCalls : c.kind \in {"wait", "sync"} => c.bits # {}

VARIABLES
    uxEventBits,
    xTasksWaitingForBits,   \* of every task in the list: [bits, all, clear]
    eventItem,              \* of every task that bits woke: the bits stored in its list item
    pendedBits,                 \* the calls left to the timer task: [kind, bits]
    calling,                \* the call of each task, while it waits
    entered, left           \* history: how often a task began, and passed, a rendezvous

groupVars == <<uxEventBits, xTasksWaitingForBits, eventItem, pendedBits>>
eventVars == <<groupVars, calling, entered, left>>

NoCall == [kind |-> "none"]

GroupInit ==
    /\ uxEventBits = {} /\ pendedBits = <<>>
    /\ xTasksWaitingForBits = [t \in {} |-> NoCall]
    /\ eventItem = [t \in {} |-> {}]

EventInit ==
    /\ GroupInit
    /\ calling = [t \in Tasks |-> NoCall]
    /\ entered = [t \in Tasks |-> 0] /\ left = [t \in Tasks |-> 0]

-------------------------------------------------------------------------------
\* prvTestWaitCondition
TestWaitCondition(bits, want) ==
    IF want.all THEN want.bits \subseteq bits ELSE want.bits \cap bits # {}

Waiting == DOMAIN xTasksWaitingForBits

\* Variant of Woken that stops at the first match.
WokenFirst(bits) ==
    LET met == { t \in Waiting : TestWaitCondition(bits, xTasksWaitingForBits[t]) }
    IN  IF met = {} THEN {} ELSE {CHOOSE t \in met : TRUE}

\* The tasks whose bits are all there, or one of them.
Woken(bits) ==
    { t \in Waiting : TestWaitCondition(bits, xTasksWaitingForBits[t]) }

\* What they take with them.
Taken(tasks) ==
    UNION { xTasksWaitingForBits[t].bits : t \in { u \in tasks : xTasksWaitingForBits[u].clear } }

\* The list without some tasks, and with one.
Unlisted(tasks) == [t \in Waiting \ tasks |-> xTasksWaitingForBits[t]]
Listed(list, t, want) ==
    [u \in DOMAIN list \cup {t} |-> IF u = t THEN want ELSE list[u]]

\* Variant of StoredItems that keeps the bits from before the call.
StoredBefore(tasks, bits) ==
    [t \in DOMAIN eventItem \cup tasks |-> IF t \in tasks THEN uxEventBits ELSE eventItem[t]]

\* The items once bits have woken some tasks.
StoredItems(tasks, bits) ==
    [t \in DOMAIN eventItem \cup tasks |-> IF t \in tasks THEN bits ELSE eventItem[t]]

\* xEventGroupSetBits: bits are only taken when the whole list has been looked at.
SetBits(set) ==
    LET bits == uxEventBits \cup set
    IN  /\ uxEventBits' = bits \ Taken(Woken(bits))
        /\ xTasksWaitingForBits' = Unlisted(Woken(bits))
        /\ eventItem' = StoredItems(Woken(bits), bits)

\* xEventGroupClearBits
ClearBits(clear) ==
    /\ uxEventBits' = uxEventBits \ clear
    /\ UNCHANGED <<xTasksWaitingForBits, eventItem>>

-------------------------------------------------------------------------------
\* The calls of tasks.

\* The call returns: whoever was not too late has passed the rendezvous.
Returns(t, c, timedOut) ==
    left' = IF c.kind = "sync" /\ ~timedOut THEN [left EXCEPT ![t] = @ + 1] ELSE left

Want(c) == [bits |-> c.bits, all |-> c.kind = "sync" \/ c.all,
            clear |-> c.kind = "sync" \/ c.clear]

WaitsForBits(t, c) ==
    /\ calling' = [calling EXCEPT ![t] = c]
    /\ UNCHANGED left

\* xEventGroupWaitBits until it returns or blocks.
WaitBits(t, c) ==
    LET met == TestWaitCondition(uxEventBits, Want(c))
    IN  /\ c.kind = "wait"
        /\ uxEventBits' = IF met /\ c.clear THEN uxEventBits \ c.bits ELSE uxEventBits
        /\ IF met \/ c.wait = "none"
           THEN /\ Returns(t, c, ~met)
                /\ UNCHANGED <<xTasksWaitingForBits, calling>>
           ELSE /\ xTasksWaitingForBits' = Listed(xTasksWaitingForBits, t, Want(c))
                /\ WaitsForBits(t, c)
        /\ UNCHANGED <<eventItem, pendedBits, entered>>

\* Variant of SyncMet that looks at what the tasks it woke have left.
SyncMetAfter(c) == c.bits \subseteq (uxEventBits \cup c.set) \ Taken(Woken(uxEventBits \cup c.set))

\* Whether the task is the last one to arrive.
SyncMet(c) == c.bits \subseteq uxEventBits \cup c.set

\* xEventGroupSync until it returns or blocks.
Sync(t, c) ==
    LET bits == uxEventBits \cup c.set
        rest == bits \ Taken(Woken(bits))
    IN  /\ c.kind = "sync" /\ entered[t] < MaxMeetings
        /\ entered' = [entered EXCEPT ![t] = @ + 1]
        /\ eventItem' = StoredItems(Woken(bits), bits)
        /\ IF SyncMet(c)
           THEN /\ uxEventBits' = rest \ c.bits
                /\ xTasksWaitingForBits' = Unlisted(Woken(bits))
                /\ Returns(t, c, FALSE) /\ UNCHANGED calling
           ELSE /\ uxEventBits' = rest
                /\ IF c.wait = "none"
                   THEN /\ xTasksWaitingForBits' = Unlisted(Woken(bits))
                        /\ Returns(t, c, TRUE) /\ UNCHANGED calling
                   ELSE /\ xTasksWaitingForBits' = Listed(Unlisted(Woken(bits)), t, Want(c))
                        /\ WaitsForBits(t, c)
        /\ UNCHANGED pendedBits

SetOrClear(t, c) ==
    /\ \/ c.kind = "set" /\ SetBits(c.set)
       \/ c.kind = "clear" /\ ClearBits(c.set)
    /\ UNCHANGED <<pendedBits, calling, entered, left>>

\* The tick ends the wait; the task has yet to notice.
TimeUp(t) ==
    /\ t \in Waiting /\ calling[t].wait = "finite"
    /\ xTasksWaitingForBits' = Unlisted({t})
    /\ UNCHANGED <<uxEventBits, eventItem, pendedBits, calling, entered, left>>

\* The task runs again: it was woken, or looks for a last time.
GoOn(t) ==
    LET c == calling[t]
        met == TestWaitCondition(uxEventBits, Want(c))
    IN  /\ c # NoCall /\ t \notin Waiting
        /\ IF t \in DOMAIN eventItem
           THEN Returns(t, c, FALSE) /\ UNCHANGED uxEventBits
           ELSE /\ Returns(t, c, TRUE)
                /\ uxEventBits' = IF met /\ Want(c).clear THEN uxEventBits \ c.bits
                                  ELSE uxEventBits
        /\ eventItem' = [u \in DOMAIN eventItem \ {t} |-> eventItem[u]]
        /\ calling' = [calling EXCEPT ![t] = NoCall]
        /\ UNCHANGED <<xTasksWaitingForBits, pendedBits, entered>>

-------------------------------------------------------------------------------
\* xEventGroupSetBitsFromISR and xEventGroupClearBitsFromISR: refused when the
\* queue of the timer task is full.
PendFromISR(kind, bits) ==
    /\ Len(pendedBits) < TimerQueueLength
    /\ pendedBits' = Append(pendedBits, [kind |-> kind, bits |-> bits])
    /\ UNCHANGED <<uxEventBits, xTasksWaitingForBits, eventItem, calling, entered, left>>

\* The timer task executes them.
RunPended ==
    /\ pendedBits # <<>>
    /\ pendedBits' = Tail(pendedBits)
    /\ LET f == Head(pendedBits)
       IN  \/ f.kind = "set" /\ SetBits(f.bits)
           \/ f.kind = "clear" /\ ClearBits(f.bits)

EventCall(t) ==
    /\ calling[t] = NoCall
    /\ \E c \in EventCalls :
          c.task = t /\ (WaitBits(t, c) \/ Sync(t, c) \/ SetOrClear(t, c))

EventNext ==
    \/ \E t \in Tasks : EventCall(t) \/ TimeUp(t) \/ GoOn(t)
    \/ \E kind \in {"set", "clear"}, bit \in ISRBits : PendFromISR(kind, {bit})
    \/ RunPended /\ UNCHANGED <<calling, entered, left>>

EventSpec == EventInit /\ [][EventNext]_eventVars

-------------------------------------------------------------------------------
\* Nobody waits for bits that are set, whatever is set, taken and cleared by
\* tasks, by interrupts and by the waits that run out.
NobodyWaitsForSetBits ==
    \A t \in Waiting : ~TestWaitCondition(uxEventBits, xTasksWaitingForBits[t])

\* A task that bits woke finds in its list item the bits that it waited for,
\* though others take and clear them before it runs.
WokenForItsBits ==
    \A t \in DOMAIN eventItem : TestWaitCondition(eventItem[t], Want(calling[t]))

\* Nobody passes a rendezvous before everybody has come to it, and then nobody
\* stays behind.
Companions == { t \in Tasks : \E c \in EventCalls : c.task = t /\ c.kind = "sync" }
Meeting(t) == t \in Waiting /\ calling[t].kind = "sync"
MeetTogether ==
    \A t, u \in Companions : /\ left[t] <= entered[u]
                             /\ left[t] = entered[u] => ~Meeting(u)

\* How the tasks must use the group for that: each comes with a bit of its own, that
\* nobody else sets, takes or clears.
Meet(Own) == { Own[u] : u \in Companions }
Rendezvous(Own) ==
    /\ Own \in [Companions -> Bits]
    /\ \A t, u \in Companions : t # u => Own[t] # Own[u]
    /\ \A c \in EventCalls :
         /\ c.kind = "sync" => c.set = {Own[c.task]} /\ c.bits = Meet(Own)
         /\ c.kind \in {"set", "clear"} => c.set \cap Meet(Own) = {}
         /\ c.kind = "wait" /\ c.clear => c.bits \cap Meet(Own) = {}
    /\ ISRBits \cap Meet(Own) = {}
===============================================================================
