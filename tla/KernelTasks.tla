----------------------------- MODULE KernelTasks ------------------------------
(***************************************************************************)
(* What the models of the kernel's parts share: the tasks, their           *)
(* priorities, where each of them is, and who suspended the scheduler.     *)
(***************************************************************************)
EXTENDS Integers, Sequences, FiniteSets

CONSTANTS
    Tasks, NoTask,
    Priority        \* uxBasePriority of each task

ASSUME TasksAssumption ==
    /\ IsFiniteSet(Tasks) /\ NoTask \notin Tasks
    /\ Priority \in [Tasks -> Nat]

VARIABLES
    suspended,          \* the task that suspended the scheduler, or NoTask
    xPendingReadyList,  \* the tasks unblocked while it is suspended
    pc

TasksInit == suspended = NoTask /\ xPendingReadyList = {}

Idle == [t \in Tasks |-> "idle"]

Go(t, place) == pc' = [pc EXCEPT ![t] = place]

-------------------------------------------------------------------------------
\* The event lists.

\* Where vListInsert stops: behind the items before the first of a lower priority.
InsertionPlace(list, t, prio) ==
    CHOOSE i \in 1..(Len(list) + 1) :
        /\ \A j \in 1..(i - 1) : prio[list[j]] >= prio[t]
        /\ i <= Len(list) => prio[list[i]] < prio[t]

\* vListInsert
vListInsert(list, t, prio) ==
    LET place == InsertionPlace(list, t, prio)
    IN  [i \in 1..(Len(list) + 1) |->
            IF i < place THEN list[i] ELSE IF i = place THEN t ELSE list[i - 1]]

\* The tasks of a list, each of which is in it once.
TasksIn(list) == { list[i] : i \in 1..Len(list) }

\* listREMOVE_ITEM
Without(list, t) ==
    LET place == CHOOSE i \in 1..Len(list) : list[i] = t
    IN  IF t \notin TasksIn(list) THEN list
        ELSE [i \in 1..(Len(list) - 1) |-> IF i < place THEN list[i] ELSE list[i + 1]]
===============================================================================
