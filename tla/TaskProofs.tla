------------------------------ MODULE TaskProofs -------------------------------
(***************************************************************************)
(* Proofs about the life of tasks, tasks.c: for any tasks and priorities,  *)
(* and any calls and interrupts in any order; and about the time: how long *)
(* tasks sleep, and when the timers of timers.c expire.                    *)
(***************************************************************************)
EXTENDS TaskStates, KernelTimers, FiniteSetTheorems, WellFoundedInduction, TLAPS

Places == {"none", "ready", "delayed", "suspended", "removed", "termination"}

LifeTypes ==
    /\ suspended \in Tasks \cup {NoTask} /\ pxCurrentTCB \in Tasks
    /\ xYieldPending \in BOOLEAN /\ pendSV \in BOOLEAN
    /\ pc \in [Tasks -> {"idle", "freeing", "take", "wait", "aborting"}]
    /\ list \in [Tasks -> Places]
    /\ eventList \in [Tasks -> {"none", "object", "pending"}]
    /\ uxPriority \in [Tasks -> Nat]
    /\ ucNotifyState \in [Tasks -> {"not waiting", "waiting", "received"}]
    /\ victim \in [Tasks -> Tasks \cup {NoTask}]
    /\ allocated \subseteq Tasks /\ pxCurrentTCB \in allocated
    /\ uxDeletedTasksWaitingCleanUp \in Nat

\* Who suspended the scheduler runs; no task runs that is not ready, and as long
\* as nobody is to be told to yield none that is ready is above the one that runs.
TheHighest ==
    /\ suspended # NoTask => pxCurrentTCB = suspended /\ list[suspended] = "ready"
    /\ ~pendSV => list[pxCurrentTCB] = "ready"
    /\ ~pendSV /\ (suspended = NoTask \/ ~xYieldPending) =>
          \A t \in Tasks : list[t] = "ready" => ~Higher(t)

\* What is said of each task: its memory is in use while it is in a list; its event
\* list item is in one only while it waits; it waits for a notification as long as
\* it sleeps in one of the calls for it.
TaskOK(t) ==
    /\ list[t] # "none" => t \in allocated
    /\ list[t] \in {"none", "termination"} => eventList[t] = "none"
    /\ list[t] = "termination" => pc[t] = "idle"
    /\ eventList[t] = "object" =>
          list[t] \in {"delayed", "suspended", "removed"} /\ pc[t] \notin {"take", "wait"}
    /\ eventList[t] = "pending" => suspended # NoTask
    /\ ucNotifyState[t] = "waiting" => pc[t] \in {"take", "wait"}
    /\ /\ t \notin frozen /\ pc[t] \in {"take", "wait"}
       /\ list[t] \in {"delayed", "suspended"} /\ eventList[t] = "none"
       => ucNotifyState[t] = "waiting"

\* What is said of the task that it is about to free, or to wake.
VictimOK(t) ==
    list[t] # "none" =>
        /\ pc[t] = "freeing" => victim[t] \in allocated /\ list[victim[t]] = "none"
        /\ pc[t] = "aborting" =>
              suspended = t /\ victim[t] \in Tasks /\ list[victim[t]] = "removed"

\* No two tasks free the same memory.
FreedOnce ==
    \A t, u \in Tasks :
        /\ list[t] # "none" /\ list[u] # "none" /\ pc[t] = "freeing" /\ pc[u] = "freeing"
        /\ victim[t] = victim[u]
        => t = u

Counted == uxDeletedTasksWaitingCleanUp = Cardinality({ t \in Tasks : list[t] = "termination" })

LifeInv ==
    LifeTypes /\ TheHighest /\ (\A t \in Tasks : TaskOK(t) /\ VictimOK(t)) /\ FreedOnce /\ Counted
-------------------------------------------------------------------------------
\* Whoever is to be freed by the idle task is so before and after.
LEMMA CountedSame ==
    ASSUME Counted, UNCHANGED uxDeletedTasksWaitingCleanUp,
           \A t \in Tasks : list'[t] = "termination" <=> list[t] = "termination"
    PROVE  Counted'
<1>1. { t \in Tasks : list'[t] = "termination" } = { t \in Tasks : list[t] = "termination" }
  OBVIOUS
<1> QED
  BY <1>1 DEF Counted

\* A task that deletes itself is one more, one that the idle task takes one less.
LEMMA CountedMore ==
    ASSUME LifeTypes, Counted, NEW u \in Tasks, list[u] # "termination", list'[u] = "termination",
           \A t \in Tasks : t # u => list'[t] = list[t],
           uxDeletedTasksWaitingCleanUp' = uxDeletedTasksWaitingCleanUp + 1
    PROVE  Counted'
<1> DEFINE S == { t \in Tasks : list[t] = "termination" }
           S2 == { t \in Tasks : list'[t] = "termination" }
<1>1. S2 = S \cup {u} /\ u \notin S
  OBVIOUS
<1>2. IsFiniteSet(S)
  BY TasksAssumption, FS_Subset
<1> HIDE DEF S, S2
<1>3. Cardinality(S2) = Cardinality(S) + 1
  BY <1>1, <1>2, FS_AddElement
<1> QED
  BY <1>3 DEF Counted, S, S2

LEMMA CountedLess ==
    ASSUME LifeTypes, Counted, NEW u \in Tasks, list[u] = "termination", list'[u] # "termination",
           \A t \in Tasks : t # u => list'[t] = list[t],
           uxDeletedTasksWaitingCleanUp' = uxDeletedTasksWaitingCleanUp - 1
    PROVE  Counted'
<1> DEFINE S == { t \in Tasks : list[t] = "termination" }
           S2 == { t \in Tasks : list'[t] = "termination" }
<1>1. S2 = S \ {u} /\ u \in S
  OBVIOUS
<1>2. IsFiniteSet(S)
  BY TasksAssumption, FS_Subset
<1> HIDE DEF S, S2
<1>3. Cardinality(S2) = Cardinality(S) - 1
  BY <1>1, <1>2, FS_RemoveElement
<1> QED
  BY <1>3 DEF Counted, S, S2

\* In its own code no task is in the middle of waking another one; if the scheduler
\* is not suspended, none is at all.
LEMMA NobodyAborts ==
    ASSUME LifeInv, \/ suspended = NoTask
                    \/ suspended = pxCurrentTCB /\ pc[pxCurrentTCB] = "idle"
    PROVE  \A v \in Tasks : list[v] # "none" => pc[v] # "aborting"
<1> SUFFICES ASSUME NEW v \in Tasks, list[v] # "none", pc[v] = "aborting" PROVE FALSE
  OBVIOUS
<1>1. VictimOK(v)
  BY DEF LifeInv
<1>2. suspended = v
  BY <1>1 DEF VictimOK
<1> QED
  BY <1>2, TasksAssumption DEF LifeInv, LifeTypes

\* Where nobody wakes anybody, what a task is about to free stays as it is.
LEMMA VictimKept ==
    ASSUME LifeTypes, NEW v \in Tasks, VictimOK(v),
           list[v] # "none" => pc[v] # "aborting",
           list'[v] # "none" => list[v] # "none", pc'[v] = pc[v], victim'[v] = victim[v],
           \A w \in Tasks : w \in allocated /\ list[w] = "none" =>
                               w \in allocated' /\ list'[w] = "none"
    PROVE  VictimOK(v)'
  BY DEF VictimOK, LifeTypes

\* Whoever is about to free memory was before.
LEMMA FreedKept ==
    ASSUME FreedOnce,
           \A v \in Tasks : list'[v] # "none" /\ pc'[v] = "freeing" =>
               list[v] # "none" /\ pc[v] = "freeing" /\ victim'[v] = victim[v]
    PROVE  FreedOnce'
  BY DEF FreedOnce

\* A new task: where it is above the running one the latter is told to yield.
LEMMA CreateStep ==
    ASSUME StatesParameters, LifeInv, NEW t \in Tasks, NEW u \in Tasks, Create(t, u)
    PROVE  LifeInv'
<1> USE DEF LifeInv
<1>1. /\ pxCurrentTCB = t /\ ~pendSV /\ pc[t] = "idle" /\ suspended \in {NoTask, t}
      /\ u \notin allocated
  BY DEF Create, Free, Runs, Put, PutEvent, YieldIf, StatesParameters
<1>2. /\ list'[u] = "ready"
      /\ eventList'[u] = "none"
      /\ uxPriority'[u] = Priority[u]
      /\ ucNotifyState'[u] = "not waiting"
      /\ pc'[u] = "idle"
      /\ victim'[u] = NoTask
      /\ \A v \in Tasks : v # u =>
            /\ list'[v] = list[v]
            /\ eventList'[v] = eventList[v]
            /\ uxPriority'[v] = uxPriority[v]
            /\ ucNotifyState'[v] = ucNotifyState[v]
            /\ pc'[v] = pc[v]
            /\ victim'[v] = victim[v]
      /\ allocated' = allocated \cup {u}
      /\ pendSV' = (pendSV \/ Priority[u] > uxPriority[t])
      /\ UNCHANGED <<suspended, uxDeletedTasksWaitingCleanUp, pxCurrentTCB, xYieldPending,
                     frozen>>
  BY DEF Create, Free, Runs, Put, PutEvent, YieldIf, LifeTypes, StatesParameters
<1>3. /\ list[t] = "ready" /\ TaskOK(t) /\ VictimOK(t)
      /\ TaskOK(u) /\ VictimOK(u)
  BY <1>1 DEF TheHighest, LifeTypes
<1>4. \A v \in Tasks : list[v] # "none" => pc[v] # "aborting"
  BY <1>1, NobodyAborts
<1>5. \A w \in Tasks : w \in allocated /\ list[w] = "none" =>
                           w \in allocated' /\ list'[w] = "none"
  BY <1>1, <1>2, <1>3
<1>6. LifeTypes'
  BY TasksAssumption
     DEF Create, Free, Runs, Put, PutEvent, YieldIf, LifeTypes, Places, StatesParameters
<1>7. TheHighest'
  <2>1. suspended' # NoTask => pxCurrentTCB' = suspended' /\ list'[suspended'] = "ready"
    BY <1>1, <1>2, <1>3, TasksAssumption DEF LifeTypes, TheHighest, TaskOK
  <2>2. ~pendSV' => list'[pxCurrentTCB'] = "ready"
    BY <1>1, <1>2, <1>3, TasksAssumption DEF LifeTypes, TheHighest, TaskOK
  <2>3. ASSUME ~pendSV', suspended' = NoTask \/ ~xYieldPending', NEW v \in Tasks, list'[v] = "ready"
        PROVE  ~Higher(v)'
    <3>1. t \in Tasks /\ uxPriority[t] \in Nat /\ t # u /\ ~(Priority[u] > uxPriority[t])
      BY <1>1, <1>2, <1>3, <2>3 DEF LifeTypes, TaskOK
    <3>2. uxPriority'[t] = uxPriority[t] /\ pxCurrentTCB' = t
      BY <1>1, <1>2, <3>1
    <3>3. CASE v = u
      BY <1>2, <3>1, <3>2, <3>3 DEF Higher
    <3>4. CASE v # u
      <4>1. ~Higher(v)
        BY <1>1, <1>2, <2>3, <3>4 DEF TheHighest
      <4> QED
        BY <1>1, <1>2, <3>2, <3>4, <4>1 DEF Higher
    <3> QED
      BY <3>3, <3>4
  <2> QED
    BY <2>1, <2>2, <2>3 DEF TheHighest
<1>8. ASSUME NEW v \in Tasks PROVE TaskOK(v)'
  <2>1. CASE v = u
    BY <1>1, <1>2, <1>3, <2>1 DEF TaskOK
  <2>2. CASE v \notin {u}
    <3>1. TaskOK(v)
      OBVIOUS
    <3> QED
      BY <1>1, <1>2, <2>2, <3>1 DEF TaskOK
  <2> QED
    BY <2>1, <2>2
<1>9. ASSUME NEW v \in Tasks PROVE VictimOK(v)'
  <2>1. CASE v = u
    BY <1>1, <1>2, <1>3, <1>4, <1>5, <2>1 DEF VictimOK, LifeTypes
  <2>2. CASE v \notin {u}
    <3>1. VictimOK(v)
      OBVIOUS
    <3> QED
      BY <1>1, <1>2, <1>4, <1>5, <2>2, <3>1, VictimKept
  <2> QED
    BY <2>1, <2>2
<1>10. FreedOnce'
  <2>1. \A v \in Tasks : list'[v] # "none" /\ pc'[v] = "freeing" =>
            list[v] # "none" /\ pc[v] = "freeing" /\ victim'[v] = victim[v]
    BY <1>1, <1>2, <1>3
  <2> QED
    BY <2>1, FreedKept
<1>11. Counted'
  <2>1. \A v \in Tasks : list'[v] = "termination" <=> list[v] = "termination"
    BY <1>1, <1>2, <1>3 DEF TaskOK
  <2> QED
    BY <1>2, <2>1, CountedSame
<1> QED
  BY <1>6, <1>7, <1>8, <1>9, <1>10, <1>11

\* A task that deletes another one is the only one about to free it, and it does not
\* run.
LEMMA DeleteOtherStep ==
    ASSUME StatesParameters, LifeInv, NEW t \in Tasks, NEW u \in Tasks, DeleteOther(t, u)
    PROVE  LifeInv'
<1> USE DEF LifeInv
<1>1. /\ pxCurrentTCB = t /\ ~pendSV /\ pc[t] = "idle" /\ suspended \in {NoTask, t}
      /\ list[u] \notin {"none", "termination"}
      /\ u \notin {t, IdleTask}
  BY DEF DeleteOther, Free, Runs, Exists, Put, PutEvent, Go, StatesParameters
<1>2. /\ list'[u] = "none"
      /\ eventList'[u] = "none"
      /\ victim'[t] = u
      /\ pc'[t] = "freeing"
      /\ \A v \in Tasks : v # u => list'[v] = list[v] /\ eventList'[v] = eventList[v]
      /\ \A v \in Tasks : v # t => victim'[v] = victim[v] /\ pc'[v] = pc[v]
      /\ frozen' = frozen \ {u}
      /\ UNCHANGED <<uxPriority, ucNotifyState, suspended, uxDeletedTasksWaitingCleanUp,
                     pxCurrentTCB, xYieldPending, pendSV, allocated>>
  BY DEF DeleteOther, Free, Runs, Exists, Put, PutEvent, Go, LifeTypes, StatesParameters
<1>3. /\ list[t] = "ready" /\ TaskOK(t) /\ VictimOK(t)
      /\ TaskOK(u) /\ VictimOK(u)
  BY <1>1 DEF TheHighest, LifeTypes
<1>4. \A v \in Tasks : list[v] # "none" => pc[v] # "aborting"
  BY <1>1, NobodyAborts
<1>5. \A w \in Tasks : w \in allocated /\ list[w] = "none" =>
                           w \in allocated' /\ list'[w] = "none"
  BY <1>1, <1>2, <1>3
<1>6. LifeTypes'
  BY TasksAssumption
     DEF DeleteOther, Free, Runs, Exists, Put, PutEvent, Go, LifeTypes, Places,
         StatesParameters
<1>7. TheHighest'
  BY <1>1, <1>2, <1>3, TasksAssumption DEF LifeTypes, TheHighest, Higher, StatesParameters
<1>8. ASSUME NEW v \in Tasks PROVE TaskOK(v)'
  <2>1. CASE v = t
    BY <1>1, <1>2, <1>3, <2>1 DEF TaskOK
  <2>2. CASE v = u
    BY <1>1, <1>2, <1>3, <2>2 DEF TaskOK
  <2>3. CASE v \notin {t, u}
    <3>1. TaskOK(v)
      OBVIOUS
    <3> QED
      BY <1>1, <1>2, <2>3, <3>1 DEF TaskOK
  <2> QED
    BY <2>1, <2>2, <2>3
<1>9. ASSUME NEW v \in Tasks PROVE VictimOK(v)'
  <2>1. CASE v = t
    BY <1>1, <1>2, <1>3, <1>4, <1>5, <2>1 DEF VictimOK, TaskOK, LifeTypes
  <2>2. CASE v = u
    BY <1>1, <1>2, <1>3, <1>4, <1>5, <2>2 DEF VictimOK, LifeTypes
  <2>3. CASE v \notin {t, u}
    <3>1. VictimOK(v)
      OBVIOUS
    <3> QED
      BY <1>1, <1>2, <1>4, <1>5, <2>3, <3>1, VictimKept
  <2> QED
    BY <2>1, <2>2, <2>3
<1>10. FreedOnce'
  <2>1. \A v \in Tasks : v # t /\ pc[v] = "freeing" /\ list'[v] # "none" =>
             pc'[v] = pc[v] /\ victim'[v] = victim[v] /\ victim[v] # u /\ list[v] # "none"
    BY <1>1, <1>2, <1>3 DEF VictimOK
  <2>2. \A v \in Tasks : v # t /\ pc'[v] = "freeing" => pc[v] = "freeing"
    BY <1>2
  <2> QED
    BY <1>1, <1>2, <2>1, <2>2 DEF FreedOnce
<1>11. Counted'
  <2>1. \A v \in Tasks : list'[v] = "termination" <=> list[v] = "termination"
    BY <1>1, <1>2, <1>3
  <2> QED
    BY <1>2, <2>1, CountedSame
<1> QED
  BY <1>6, <1>7, <1>8, <1>9, <1>10, <1>11

\* A task that deletes itself keeps its memory until the idle task takes it.
LEMMA DeleteSelfStep ==
    ASSUME StatesParameters, LifeInv, NEW t \in Tasks, DeleteSelf(t)
    PROVE  LifeInv'
<1> USE DEF LifeInv
<1>1. /\ pxCurrentTCB = t /\ ~pendSV /\ pc[t] = "idle" /\ suspended \in {NoTask, t}
      /\ suspended = NoTask
      /\ t # IdleTask
  BY DEF DeleteSelf, MayBlock, Free, Runs, Put, YieldIf, StatesParameters
<1>2. /\ list'[t] = "termination"
      /\ \A v \in Tasks : v # t => list'[v] = list[v]
      /\ uxDeletedTasksWaitingCleanUp' = uxDeletedTasksWaitingCleanUp + 1
      /\ pendSV' = TRUE
      /\ UNCHANGED <<eventList, uxPriority, ucNotifyState, victim, pc, suspended,
                     pxCurrentTCB, xYieldPending, allocated, frozen>>
  BY DEF DeleteSelf, MayBlock, Free, Runs, Put, YieldIf, LifeTypes, StatesParameters
<1>3. /\ list[t] = "ready" /\ TaskOK(t) /\ VictimOK(t)
  BY <1>1 DEF TheHighest, LifeTypes
<1>4. \A v \in Tasks : list[v] # "none" => pc[v] # "aborting"
  BY <1>1, NobodyAborts
<1>5. \A w \in Tasks : w \in allocated /\ list[w] = "none" =>
                           w \in allocated' /\ list'[w] = "none"
  BY <1>1, <1>2, <1>3
<1>6. LifeTypes'
  <2>1. uxDeletedTasksWaitingCleanUp' \in Nat
    <3>1. uxDeletedTasksWaitingCleanUp \in Nat
      BY DEF LifeTypes
    <3> QED
      BY <1>2, <3>1
  <2>2. list' \in [Tasks -> Places]
    BY DEF DeleteSelf, Put, LifeTypes, Places
  <2> QED
    BY <1>1, <1>2, <2>1, <2>2 DEF LifeTypes
<1>7. TheHighest'
  BY <1>1, <1>2, <1>3, TasksAssumption DEF LifeTypes, TheHighest, Higher, StatesParameters
<1>8. ASSUME NEW v \in Tasks PROVE TaskOK(v)'
  <2>1. CASE v = t
    BY <1>1, <1>2, <1>3, <2>1 DEF TaskOK, LifeTypes
  <2>2. CASE v \notin {t}
    <3>1. TaskOK(v)
      OBVIOUS
    <3> QED
      BY <1>1, <1>2, <2>2, <3>1 DEF TaskOK
  <2> QED
    BY <2>1, <2>2
<1>9. ASSUME NEW v \in Tasks PROVE VictimOK(v)'
  <2>1. CASE v = t
    BY <1>1, <1>2, <1>3, <1>4, <1>5, <2>1 DEF VictimOK, LifeTypes
  <2>2. CASE v \notin {t}
    <3>1. VictimOK(v)
      OBVIOUS
    <3> QED
      BY <1>1, <1>2, <1>4, <1>5, <2>2, <3>1, VictimKept
  <2> QED
    BY <2>1, <2>2
<1>10. FreedOnce'
  <2>1. \A v \in Tasks : list'[v] # "none" /\ pc'[v] = "freeing" =>
            list[v] # "none" /\ pc[v] = "freeing" /\ victim'[v] = victim[v]
    BY <1>1, <1>2, <1>3
  <2> QED
    BY <2>1, FreedKept
<1>11. Counted'
  BY <1>1, <1>2, <1>3, CountedMore DEF LifeTypes, TaskOK
<1> QED
  BY <1>6, <1>7, <1>8, <1>9, <1>10, <1>11

\* The idle task takes one that no list holds any more, and that nobody else frees.
LEMMA CheckTasksWaitingTerminationStep ==
    ASSUME StatesParameters, LifeInv, CheckTasksWaitingTermination
    PROVE  LifeInv'
<1> USE DEF LifeInv
<1> DEFINE idle == IdleTask
<1>1. PICK u \in Tasks : /\ list[u] = "termination"
                         /\ Put(u, "none") /\ victim' = [victim EXCEPT ![idle] = u]
  BY DEF CheckTasksWaitingTermination
<1>2. /\ idle \in Tasks /\ pxCurrentTCB = idle /\ ~pendSV /\ pc[idle] = "idle"
      /\ suspended \in {NoTask, idle}
      /\ uxDeletedTasksWaitingCleanUp > 0
      /\ list[idle] = "ready"
  BY DEF CheckTasksWaitingTermination, Free, Runs, StatesParameters, TheHighest
<1> HIDE DEF idle
<1>3. u # idle /\ TaskOK(idle) /\ TaskOK(u)
  BY <1>1, <1>2
<1>4. /\ list'[u] = "none" /\ victim'[idle] = u /\ pc'[idle] = "freeing"
      /\ \A v \in Tasks : v # u => list'[v] = list[v]
      /\ \A v \in Tasks : v # idle => victim'[v] = victim[v] /\ pc'[v] = pc[v]
      /\ uxDeletedTasksWaitingCleanUp' = uxDeletedTasksWaitingCleanUp - 1
      /\ UNCHANGED <<eventList, uxPriority, ucNotifyState, suspended, pxCurrentTCB,
                     xYieldPending, pendSV, allocated, frozen>>
  BY <1>1, <1>2 DEF CheckTasksWaitingTermination, Put, Go, LifeTypes, idle
<1>5. LifeTypes'
  <2>1. uxDeletedTasksWaitingCleanUp \in Nat
    BY DEF LifeTypes
  <2>2. uxDeletedTasksWaitingCleanUp' \in Nat
    BY <1>2, <1>4, <2>1
  <2>3. /\ list' \in [Tasks -> Places] /\ victim' \in [Tasks -> Tasks \cup {NoTask}]
        /\ pc' \in [Tasks -> {"idle", "freeing", "take", "wait", "aborting"}]
    BY <1>1, <1>2 DEF CheckTasksWaitingTermination, Put, Go, LifeTypes, Places, idle
  <2> QED
    BY <1>4, <2>2, <2>3 DEF LifeTypes
<1>6. TheHighest'
  BY <1>1, <1>2, <1>3, <1>4, TasksAssumption DEF LifeTypes, TheHighest, Higher
<1>7. ASSUME NEW v \in Tasks PROVE TaskOK(v)'
  <2>1. TaskOK(v)
    OBVIOUS
  <2> QED
    BY <1>1, <1>2, <1>3, <1>4, <2>1 DEF TaskOK
<1>8. ASSUME NEW v \in Tasks PROVE VictimOK(v)'
  <2>1. CASE v = idle
    BY <1>1, <1>2, <1>3, <1>4, <2>1 DEF VictimOK, TaskOK
  <2>2. CASE v # idle
    <3>1. VictimOK(v)
      OBVIOUS
    <3>2. list[v] # "none" => pc[v] # "aborting"
      BY <1>2, NobodyAborts
    <3> QED
      BY <1>1, <1>4, <2>2, <3>1, <3>2, VictimKept
  <2> QED
    BY <2>1, <2>2
<1>9. FreedOnce'
  <2>1. ASSUME NEW v \in Tasks, v # idle, pc'[v] = "freeing", list'[v] # "none"
        PROVE  pc[v] = "freeing" /\ victim'[v] = victim[v] /\ victim[v] # u /\ list[v] # "none"
    <3>1. VictimOK(v)
      OBVIOUS
    <3> QED
      BY <1>1, <1>4, <2>1, <3>1 DEF VictimOK
  <2> QED
    BY <1>4, <2>1 DEF FreedOnce
<1>10. Counted'
  BY <1>1, <1>4, CountedLess
<1> QED
  BY <1>5, <1>6, <1>7, <1>8, <1>9, <1>10

\* What is freed is not the running task and is in no list.
LEMMA DeleteTCBStep ==
    ASSUME StatesParameters, LifeInv, NEW t \in Tasks, DeleteTCB(t)
    PROVE  LifeInv'
<1> USE DEF LifeInv
<1>1. /\ pxCurrentTCB = t /\ ~pendSV
      /\ pc[t] = "freeing"
  BY DEF DeleteTCB, Runs, Go, StatesParameters
<1>2. /\ victim'[t] = NoTask
      /\ pc'[t] = "idle"
      /\ \A v \in Tasks : v # t => victim'[v] = victim[v] /\ pc'[v] = pc[v]
      /\ allocated' = allocated \ {victim[t]}
      /\ UNCHANGED <<list, eventList, uxPriority, ucNotifyState, suspended,
                     uxDeletedTasksWaitingCleanUp, pxCurrentTCB, xYieldPending, pendSV,
                     frozen>>
  BY DEF DeleteTCB, Runs, Go, LifeTypes, StatesParameters
<1>3. /\ list[t] = "ready" /\ TaskOK(t) /\ VictimOK(t)
  BY <1>1 DEF TheHighest, LifeTypes
<1>4. LifeTypes'
  <2>1. victim[t] \in Tasks \cup {NoTask} /\ victim[t] # t
    BY <1>1, <1>3, TasksAssumption DEF LifeTypes, VictimOK
  <2>2. allocated' \subseteq Tasks /\ pxCurrentTCB' \in allocated'
    BY <1>1, <1>2, <1>3, <2>1 DEF LifeTypes
  <2> QED
    BY <1>2, <2>2 DEF DeleteTCB, Go, LifeTypes
<1>5. TheHighest'
  BY <1>1, <1>2, <1>3, TasksAssumption DEF LifeTypes, TheHighest, Higher, StatesParameters
<1>6. ASSUME NEW v \in Tasks PROVE TaskOK(v)'
  <2>1. CASE v = t
    BY <1>1, <1>2, <1>3, <2>1 DEF TaskOK, VictimOK
  <2>2. CASE v \notin {t}
    <3>1. TaskOK(v)
      OBVIOUS
    <3> QED
      BY <1>1, <1>2, <1>3, <2>2, <3>1 DEF TaskOK, VictimOK
  <2> QED
    BY <2>1, <2>2
<1>7. ASSUME NEW v \in Tasks PROVE VictimOK(v)'
  <2>1. CASE v = t
    BY <1>1, <1>2, <1>3, <2>1 DEF VictimOK, LifeTypes
  <2>2. CASE v \notin {t}
    <3>1. VictimOK(v)
      OBVIOUS
    <3> QED
      BY <1>1, <1>2, <1>3, <2>2, <3>1 DEF VictimOK, FreedOnce
  <2> QED
    BY <2>1, <2>2
<1>8. FreedOnce'
  <2>1. \A v \in Tasks : list'[v] # "none" /\ pc'[v] = "freeing" =>
            list[v] # "none" /\ pc[v] = "freeing" /\ victim'[v] = victim[v]
    BY <1>1, <1>2, <1>3
  <2> QED
    BY <2>1, FreedKept
<1>9. Counted'
  <2>1. \A v \in Tasks : list'[v] = "termination" <=> list[v] = "termination"
    BY <1>1, <1>2, <1>3
  <2> QED
    BY <1>2, <2>1, CountedSame
<1> QED
  BY <1>4, <1>5, <1>6, <1>7, <1>8, <1>9

\* A suspended task is the running one only if that is told to yield.
LEMMA SuspendStep ==
    ASSUME StatesParameters, LifeInv, NEW t \in Tasks, NEW u \in Tasks, Suspend(t, u)
    PROVE  LifeInv'
<1> USE DEF LifeInv
<1>1. /\ pxCurrentTCB = t /\ ~pendSV /\ pc[t] = "idle" /\ suspended \in {NoTask, t}
      /\ list[u] \notin {"none", "termination"}
      /\ u # IdleTask
      /\ u = t => suspended = NoTask
  BY DEF Suspend, Free, Runs, Exists, Put, PutEvent, YieldIf, StatesParameters
<1>2. /\ list'[u] = "suspended"
      /\ eventList'[u] = "none"
      /\ ucNotifyState'[u] = (IF ucNotifyState[u] = "waiting" THEN "not waiting"
                              ELSE ucNotifyState[u])
      /\ \A v \in Tasks : v # u =>
            /\ list'[v] = list[v]
            /\ eventList'[v] = eventList[v]
            /\ ucNotifyState'[v] = ucNotifyState[v]
      /\ frozen' = frozen \cup {u}
      /\ pendSV' = (pendSV \/ u = t)
      /\ UNCHANGED <<uxPriority, victim, pc, suspended, uxDeletedTasksWaitingCleanUp,
                     pxCurrentTCB, xYieldPending, allocated>>
  BY DEF Suspend, Free, Runs, Exists, Put, PutEvent, YieldIf, LifeTypes, StatesParameters
<1>3. /\ list[t] = "ready" /\ TaskOK(t) /\ VictimOK(t)
      /\ TaskOK(u) /\ VictimOK(u)
  BY <1>1 DEF TheHighest, LifeTypes
<1>4. \A v \in Tasks : list[v] # "none" => pc[v] # "aborting"
  BY <1>1, NobodyAborts
<1>5. \A w \in Tasks : w \in allocated /\ list[w] = "none" =>
                           w \in allocated' /\ list'[w] = "none"
  BY <1>1, <1>2, <1>3
<1>6. LifeTypes'
  BY TasksAssumption
     DEF Suspend, Free, Runs, Exists, Put, PutEvent, YieldIf, LifeTypes, Places,
         StatesParameters
<1>7. TheHighest'
  BY <1>1, <1>2, <1>3, TasksAssumption DEF LifeTypes, TheHighest, Higher, StatesParameters
<1>8. ASSUME NEW v \in Tasks PROVE TaskOK(v)'
  <2>1. CASE v = u
    BY <1>1, <1>2, <1>3, <2>1 DEF TaskOK
  <2>2. CASE v \notin {u}
    <3>1. TaskOK(v)
      OBVIOUS
    <3> QED
      BY <1>1, <1>2, <2>2, <3>1 DEF TaskOK
  <2> QED
    BY <2>1, <2>2
<1>9. ASSUME NEW v \in Tasks PROVE VictimOK(v)'
  <2>1. CASE v = u
    BY <1>1, <1>2, <1>3, <1>4, <1>5, <2>1 DEF VictimOK, LifeTypes
  <2>2. CASE v \notin {u}
    <3>1. VictimOK(v)
      OBVIOUS
    <3> QED
      BY <1>1, <1>2, <1>4, <1>5, <2>2, <3>1, VictimKept
  <2> QED
    BY <2>1, <2>2
<1>10. FreedOnce'
  <2>1. \A v \in Tasks : list'[v] # "none" /\ pc'[v] = "freeing" =>
            list[v] # "none" /\ pc[v] = "freeing" /\ victim'[v] = victim[v]
    BY <1>1, <1>2, <1>3
  <2> QED
    BY <2>1, FreedKept
<1>11. Counted'
  <2>1. \A v \in Tasks : list'[v] = "termination" <=> list[v] = "termination"
    BY <1>1, <1>2, <1>3
  <2> QED
    BY <1>2, <2>1, CountedSame
<1> QED
  BY <1>6, <1>7, <1>8, <1>9, <1>10, <1>11

\* A task resumed by another one.
LEMMA ResumeStep ==
    ASSUME StatesParameters, LifeInv, NEW t \in Tasks, NEW u \in Tasks, Resume(t, u)
    PROVE  LifeInv'
<1> USE DEF LifeInv
<1>1. /\ pxCurrentTCB = t /\ ~pendSV /\ pc[t] = "idle" /\ suspended \in {NoTask, t}
      /\ u # t
      /\ list[u] = "suspended" /\ eventList[u] = "none" /\ u \in frozen
  BY DEF Resume, Free, Runs, IsTaskSuspended, Put, YieldIf, StatesParameters
<1>2. /\ list'[u] = "ready"
      /\ \A v \in Tasks : v # u => list'[v] = list[v]
      /\ frozen' = frozen \ {u}
      /\ pendSV' = (pendSV \/ Higher(u))
      /\ UNCHANGED <<eventList, uxPriority, ucNotifyState, victim, pc, suspended,
                     uxDeletedTasksWaitingCleanUp, pxCurrentTCB, xYieldPending, allocated>>
  BY DEF Resume, Free, Runs, IsTaskSuspended, Put, YieldIf, LifeTypes, StatesParameters
<1>3. /\ list[t] = "ready" /\ TaskOK(t) /\ VictimOK(t)
      /\ TaskOK(u) /\ VictimOK(u)
  BY <1>1 DEF TheHighest, LifeTypes
<1>4. \A v \in Tasks : list[v] # "none" => pc[v] # "aborting"
  BY <1>1, NobodyAborts
<1>5. \A w \in Tasks : w \in allocated /\ list[w] = "none" =>
                           w \in allocated' /\ list'[w] = "none"
  BY <1>1, <1>2, <1>3
<1>6. LifeTypes'
  BY TasksAssumption
     DEF Resume, Free, Runs, IsTaskSuspended, Put, YieldIf, LifeTypes, Places, StatesParameters
<1>7. TheHighest'
  BY <1>1, <1>2, <1>3, TasksAssumption DEF LifeTypes, TheHighest, Higher, StatesParameters
<1>8. ASSUME NEW v \in Tasks PROVE TaskOK(v)'
  <2>1. CASE v = u
    BY <1>1, <1>2, <1>3, <2>1 DEF TaskOK
  <2>2. CASE v \notin {u}
    <3>1. TaskOK(v)
      OBVIOUS
    <3> QED
      BY <1>1, <1>2, <2>2, <3>1 DEF TaskOK
  <2> QED
    BY <2>1, <2>2
<1>9. ASSUME NEW v \in Tasks PROVE VictimOK(v)'
  <2>1. CASE v = u
    BY <1>1, <1>2, <1>3, <1>4, <1>5, <2>1 DEF VictimOK, LifeTypes
  <2>2. CASE v \notin {u}
    <3>1. VictimOK(v)
      OBVIOUS
    <3> QED
      BY <1>1, <1>2, <1>4, <1>5, <2>2, <3>1, VictimKept
  <2> QED
    BY <2>1, <2>2
<1>10. FreedOnce'
  <2>1. \A v \in Tasks : list'[v] # "none" /\ pc'[v] = "freeing" =>
            list[v] # "none" /\ pc[v] = "freeing" /\ victim'[v] = victim[v]
    BY <1>1, <1>2, <1>3
  <2> QED
    BY <2>1, FreedKept
<1>11. Counted'
  <2>1. \A v \in Tasks : list'[v] = "termination" <=> list[v] = "termination"
    BY <1>1, <1>2, <1>3
  <2> QED
    BY <1>2, <2>1, CountedSame
<1> QED
  BY <1>6, <1>7, <1>8, <1>9, <1>10, <1>11

\* Another priority: whoever is raised above the running task makes it yield, and so
\* does the running task that lowers itself.
LEMMA PrioritySetStep ==
    ASSUME StatesParameters, LifeInv, NEW t \in Tasks, NEW u \in Tasks,
           NEW p \in NewPriorities, PrioritySet(t, u, p)
    PROVE  LifeInv'
<1> USE DEF LifeInv
<1>1. /\ pxCurrentTCB = t /\ ~pendSV /\ pc[t] = "idle" /\ suspended \in {NoTask, t}
      /\ list[u] \notin {"none", "termination"}
  BY DEF PrioritySet, Free, Runs, Exists, YieldIf, StatesParameters
<1>2. /\ uxPriority'[u] = p
      /\ \A v \in Tasks : v # u => uxPriority'[v] = uxPriority[v]
      /\ pendSV' = (pendSV \/ NeedsYield(t, u, p))
      /\ UNCHANGED <<list, eventList, ucNotifyState, victim, pc, suspended,
                     uxDeletedTasksWaitingCleanUp, pxCurrentTCB, xYieldPending, allocated,
                     frozen>>
  BY DEF PrioritySet, Free, Runs, Exists, YieldIf, LifeTypes, StatesParameters
<1>3. /\ list[t] = "ready" /\ TaskOK(t) /\ VictimOK(t)
      /\ TaskOK(u) /\ VictimOK(u)
  BY <1>1 DEF TheHighest, LifeTypes
<1>4. \A v \in Tasks : list[v] # "none" => pc[v] # "aborting"
  BY <1>1, NobodyAborts
<1>5. \A w \in Tasks : w \in allocated /\ list[w] = "none" =>
                           w \in allocated' /\ list'[w] = "none"
  BY <1>1, <1>2, <1>3
<1>6. LifeTypes'
  BY TasksAssumption
     DEF PrioritySet, Free, Runs, Exists, YieldIf, LifeTypes, Places, StatesParameters
<1>7. TheHighest'
  <2>1. suspended' # NoTask => pxCurrentTCB' = suspended' /\ list'[suspended'] = "ready"
    BY <1>1, <1>2, <1>3, TasksAssumption DEF LifeTypes, TheHighest, TaskOK
  <2>2. ~pendSV' => list'[pxCurrentTCB'] = "ready"
    BY <1>1, <1>2, <1>3, TasksAssumption DEF LifeTypes, TheHighest, TaskOK
  <2>3. ASSUME ~pendSV', suspended' = NoTask \/ ~xYieldPending', NEW v \in Tasks, list'[v] = "ready"
        PROVE  ~Higher(v)'
    <3>1. ~pendSV /\ ~NeedsYield(t, u, p) /\ pxCurrentTCB' = t /\ list[v] = "ready"
          /\ uxPriority[v] <= uxPriority[t]
      <4>1. ~pendSV /\ ~NeedsYield(t, u, p) /\ pxCurrentTCB' = t /\ list[v] = "ready"
        BY <1>1, <1>2, <2>3
      <4>2. suspended = NoTask \/ ~xYieldPending
        BY <1>2, <2>3
      <4>3. ~Higher(v)
        BY <4>1, <4>2 DEF TheHighest
      <4>4. uxPriority[v] \in Nat /\ uxPriority[t] \in Nat
        BY DEF LifeTypes
      <4> QED
        BY <1>1, <4>1, <4>3, <4>4 DEF Higher
    <3>2. /\ p \in Nat /\ \A w \in Tasks : uxPriority[w] \in Nat
      BY DEF LifeTypes, StatesParameters
    <3>3. uxPriority'[v] <= uxPriority'[t]
      BY <1>2, <3>1, <3>2 DEF NeedsYield
    <3> QED
      BY <1>1, <1>2, <3>1, <3>2, <3>3 DEF Higher
  <2> QED
    BY <2>1, <2>2, <2>3 DEF TheHighest
<1>8. ASSUME NEW v \in Tasks PROVE TaskOK(v)'
  <2>1. CASE v = u
    BY <1>1, <1>2, <1>3, <2>1 DEF TaskOK
  <2>2. CASE v \notin {u}
    <3>1. TaskOK(v)
      OBVIOUS
    <3> QED
      BY <1>1, <1>2, <2>2, <3>1 DEF TaskOK
  <2> QED
    BY <2>1, <2>2
<1>9. ASSUME NEW v \in Tasks PROVE VictimOK(v)'
  <2>1. CASE v = u
    BY <1>1, <1>2, <1>3, <1>4, <1>5, <2>1 DEF VictimOK, LifeTypes
  <2>2. CASE v \notin {u}
    <3>1. VictimOK(v)
      OBVIOUS
    <3> QED
      BY <1>1, <1>2, <1>4, <1>5, <2>2, <3>1, VictimKept
  <2> QED
    BY <2>1, <2>2
<1>10. FreedOnce'
  <2>1. \A v \in Tasks : list'[v] # "none" /\ pc'[v] = "freeing" =>
            list[v] # "none" /\ pc[v] = "freeing" /\ victim'[v] = victim[v]
    BY <1>1, <1>2, <1>3
  <2> QED
    BY <2>1, FreedKept
<1>11. Counted'
  <2>1. \A v \in Tasks : list'[v] = "termination" <=> list[v] = "termination"
    BY <1>1, <1>2, <1>3
  <2> QED
    BY <1>2, <2>1, CountedSame
<1> QED
  BY <1>6, <1>7, <1>8, <1>9, <1>10, <1>11

\* A task that blocks gives the processor up.
LEMMA BlockStep ==
    ASSUME StatesParameters, LifeInv, NEW t \in Tasks, NEW where \in {"none", "object"},
           NEW wait \in {"finite", "forever"}, Block(t, where, wait)
    PROVE  LifeInv'
<1> USE DEF LifeInv
<1>1. /\ pxCurrentTCB = t /\ ~pendSV /\ pc[t] = "idle" /\ suspended \in {NoTask, t}
      /\ suspended = NoTask
      /\ t # IdleTask
  BY DEF Block, Blocked, MayBlock, Free, Runs, Put, PutEvent, YieldIf, StatesParameters
<1>2. /\ list'[t] = (IF wait = "forever" THEN "suspended" ELSE "delayed")
      /\ eventList'[t] = where
      /\ \A v \in Tasks : v # t => list'[v] = list[v] /\ eventList'[v] = eventList[v]
      /\ pendSV' = TRUE
      /\ UNCHANGED <<uxPriority, ucNotifyState, victim, pc, suspended,
                     uxDeletedTasksWaitingCleanUp, pxCurrentTCB, xYieldPending, allocated,
                     frozen>>
  BY
     DEF Block, Blocked, MayBlock, Free, Runs, Put, PutEvent, YieldIf, LifeTypes,
         StatesParameters
<1>3. /\ list[t] = "ready" /\ TaskOK(t) /\ VictimOK(t)
  BY <1>1 DEF TheHighest, LifeTypes
<1>4. \A v \in Tasks : list[v] # "none" => pc[v] # "aborting"
  BY <1>1, NobodyAborts
<1>5. \A w \in Tasks : w \in allocated /\ list[w] = "none" =>
                           w \in allocated' /\ list'[w] = "none"
  BY <1>1, <1>2, <1>3
<1>6. LifeTypes'
  BY TasksAssumption
     DEF Block, Blocked, MayBlock, Free, Runs, Put, PutEvent, YieldIf, LifeTypes, Places,
         StatesParameters
<1>7. TheHighest'
  BY <1>1, <1>2, <1>3, TasksAssumption DEF LifeTypes, TheHighest, Higher, StatesParameters
<1>8. ASSUME NEW v \in Tasks PROVE TaskOK(v)'
  <2>1. CASE v = t
    BY <1>1, <1>2, <1>3, <2>1 DEF TaskOK
  <2>2. CASE v \notin {t}
    <3>1. TaskOK(v)
      OBVIOUS
    <3> QED
      BY <1>1, <1>2, <2>2, <3>1 DEF TaskOK
  <2> QED
    BY <2>1, <2>2
<1>9. ASSUME NEW v \in Tasks PROVE VictimOK(v)'
  <2>1. CASE v = t
    BY <1>1, <1>2, <1>3, <1>4, <1>5, <2>1 DEF VictimOK, LifeTypes
  <2>2. CASE v \notin {t}
    <3>1. VictimOK(v)
      OBVIOUS
    <3> QED
      BY <1>1, <1>2, <1>4, <1>5, <2>2, <3>1, VictimKept
  <2> QED
    BY <2>1, <2>2
<1>10. FreedOnce'
  <2>1. \A v \in Tasks : list'[v] # "none" /\ pc'[v] = "freeing" =>
            list[v] # "none" /\ pc[v] = "freeing" /\ victim'[v] = victim[v]
    BY <1>1, <1>2, <1>3
  <2> QED
    BY <2>1, FreedKept
<1>11. Counted'
  <2>1. \A v \in Tasks : list'[v] = "termination" <=> list[v] = "termination"
    BY <1>1, <1>2, <1>3
  <2> QED
    BY <1>2, <2>1, CountedSame
<1> QED
  BY <1>6, <1>7, <1>8, <1>9, <1>10, <1>11

\* A notification that is taken.
LEMMA NotifyTakenStep ==
    ASSUME StatesParameters, LifeInv, NEW t \in Tasks, NotifyTaken(t)
    PROVE  LifeInv'
<1> USE DEF LifeInv
<1>1. /\ pxCurrentTCB = t /\ ~pendSV
      /\ pc[t] \in {"take", "wait"}
  BY DEF NotifyTaken, Runs, Go, StatesParameters
<1>2. /\ ucNotifyState'[t] = "not waiting"
      /\ pc'[t] = "idle"
      /\ \A v \in Tasks : v # t => ucNotifyState'[v] = ucNotifyState[v] /\ pc'[v] = pc[v]
      /\ UNCHANGED <<list, eventList, uxPriority, victim, suspended,
                     uxDeletedTasksWaitingCleanUp, pxCurrentTCB, xYieldPending, pendSV,
                     allocated, frozen>>
  BY DEF NotifyTaken, Runs, Go, LifeTypes, StatesParameters
<1>3. /\ list[t] = "ready" /\ TaskOK(t) /\ VictimOK(t)
  BY <1>1 DEF TheHighest, LifeTypes
<1>4. LifeTypes'
  BY TasksAssumption DEF NotifyTaken, Runs, Go, LifeTypes, Places, StatesParameters
<1>5. TheHighest'
  BY <1>1, <1>2, <1>3, TasksAssumption DEF LifeTypes, TheHighest, Higher, StatesParameters
<1>6. ASSUME NEW v \in Tasks PROVE TaskOK(v)'
  <2>1. CASE v = t
    BY <1>1, <1>2, <1>3, <2>1 DEF TaskOK
  <2>2. CASE v \notin {t}
    <3>1. TaskOK(v)
      OBVIOUS
    <3> QED
      BY <1>1, <1>2, <2>2, <3>1 DEF TaskOK
  <2> QED
    BY <2>1, <2>2
<1>7. ASSUME NEW v \in Tasks PROVE VictimOK(v)'
  <2>1. CASE v = t
    BY <1>1, <1>2, <1>3, <2>1 DEF VictimOK, LifeTypes
  <2>2. CASE v \notin {t}
    <3>1. VictimOK(v)
      OBVIOUS
    <3> QED
      BY <1>1, <1>2, <2>2, <3>1 DEF VictimOK, LifeTypes
  <2> QED
    BY <2>1, <2>2
<1>8. FreedOnce'
  <2>1. \A v \in Tasks : list'[v] # "none" /\ pc'[v] = "freeing" =>
            list[v] # "none" /\ pc[v] = "freeing" /\ victim'[v] = victim[v]
    BY <1>1, <1>2, <1>3
  <2> QED
    BY <2>1, FreedKept
<1>9. Counted'
  <2>1. \A v \in Tasks : list'[v] = "termination" <=> list[v] = "termination"
    BY <1>1, <1>2, <1>3
  <2> QED
    BY <1>2, <2>1, CountedSame
<1> QED
  BY <1>4, <1>5, <1>6, <1>7, <1>8, <1>9

\* A wait that ends.
LEMMA TickStep ==
    ASSUME StatesParameters, LifeInv, NEW u \in Tasks, Tick(u)
    PROVE  LifeInv'
<1> USE DEF LifeInv
<1>1. /\ suspended = NoTask
      /\ list[u] = "delayed"
  BY DEF Tick, Put, PutEvent, YieldIf, StatesParameters
<1>2. /\ list'[u] = "ready"
      /\ eventList'[u] = "none"
      /\ \A v \in Tasks : v # u => list'[v] = list[v] /\ eventList'[v] = eventList[v]
      /\ pendSV' = (pendSV \/ Higher(u))
      /\ UNCHANGED <<uxPriority, ucNotifyState, victim, pc, suspended,
                     uxDeletedTasksWaitingCleanUp, pxCurrentTCB, xYieldPending, allocated,
                     frozen>>
  BY DEF Tick, Put, PutEvent, YieldIf, LifeTypes, StatesParameters
<1>3. /\ TaskOK(u) /\ VictimOK(u)
  BY <1>1 DEF TheHighest, LifeTypes
<1>4. \A v \in Tasks : list[v] # "none" => pc[v] # "aborting"
  BY <1>1, NobodyAborts
<1>5. \A w \in Tasks : w \in allocated /\ list[w] = "none" =>
                           w \in allocated' /\ list'[w] = "none"
  BY <1>1, <1>2, <1>3
<1>6. LifeTypes'
  BY TasksAssumption DEF Tick, Put, PutEvent, YieldIf, LifeTypes, Places, StatesParameters
<1>7. TheHighest'
  BY <1>1, <1>2, <1>3, TasksAssumption DEF LifeTypes, TheHighest, Higher, StatesParameters
<1>8. ASSUME NEW v \in Tasks PROVE TaskOK(v)'
  <2>1. CASE v = u
    BY <1>1, <1>2, <1>3, <2>1 DEF TaskOK
  <2>2. CASE v \notin {u}
    <3>1. TaskOK(v)
      OBVIOUS
    <3> QED
      BY <1>1, <1>2, <2>2, <3>1 DEF TaskOK
  <2> QED
    BY <2>1, <2>2
<1>9. ASSUME NEW v \in Tasks PROVE VictimOK(v)'
  <2>1. CASE v = u
    BY <1>1, <1>2, <1>3, <1>4, <1>5, <2>1 DEF VictimOK, LifeTypes
  <2>2. CASE v \notin {u}
    <3>1. VictimOK(v)
      OBVIOUS
    <3> QED
      BY <1>1, <1>2, <1>4, <1>5, <2>2, <3>1, VictimKept
  <2> QED
    BY <2>1, <2>2
<1>10. FreedOnce'
  <2>1. \A v \in Tasks : list'[v] # "none" /\ pc'[v] = "freeing" =>
            list[v] # "none" /\ pc[v] = "freeing" /\ victim'[v] = victim[v]
    BY <1>1, <1>2, <1>3
  <2> QED
    BY <2>1, FreedKept
<1>11. Counted'
  <2>1. \A v \in Tasks : list'[v] = "termination" <=> list[v] = "termination"
    BY <1>1, <1>2, <1>3
  <2> QED
    BY <1>2, <2>1, CountedSame
<1> QED
  BY <1>6, <1>7, <1>8, <1>9, <1>10, <1>11

\* Whoever suspends the scheduler runs.
LEMMA SuspendAllStep ==
    ASSUME StatesParameters, LifeInv, NEW t \in Tasks, SuspendAll(t)
    PROVE  LifeInv'
<1> USE DEF LifeInv
<1>1. /\ pxCurrentTCB = t /\ ~pendSV /\ pc[t] = "idle" /\ suspended \in {NoTask, t}
      /\ suspended = NoTask
      /\ t # IdleTask
  BY DEF SuspendAll, Free, Runs, stateVars, StatesParameters
<1>2. /\ suspended' = t
      /\ UNCHANGED <<list, eventList, uxPriority, ucNotifyState, victim, pc,
                     uxDeletedTasksWaitingCleanUp, pxCurrentTCB, xYieldPending, pendSV,
                     allocated, frozen>>
  BY DEF SuspendAll, Free, Runs, stateVars, LifeTypes, StatesParameters
<1>3. /\ list[t] = "ready" /\ TaskOK(t) /\ VictimOK(t)
  BY <1>1 DEF TheHighest, LifeTypes
<1>4. \A v \in Tasks : list[v] # "none" => pc[v] # "aborting"
  BY <1>1, NobodyAborts
<1>5. \A w \in Tasks : w \in allocated /\ list[w] = "none" =>
                           w \in allocated' /\ list'[w] = "none"
  BY <1>1, <1>2, <1>3
<1>6. LifeTypes'
  BY TasksAssumption
     DEF SuspendAll, Free, Runs, stateVars, LifeTypes, Places, StatesParameters
<1>7. TheHighest'
  BY <1>1, <1>2, <1>3, TasksAssumption DEF LifeTypes, TheHighest, Higher, StatesParameters
<1>8. ASSUME NEW v \in Tasks PROVE TaskOK(v)'
  <2>1. CASE v \notin {}
    <3>1. TaskOK(v)
      OBVIOUS
    <3> QED
      BY <1>1, <1>2, <2>1, <3>1 DEF TaskOK
  <2> QED
    BY <2>1
<1>9. ASSUME NEW v \in Tasks PROVE VictimOK(v)'
  <2>1. CASE v \notin {}
    <3>1. VictimOK(v)
      OBVIOUS
    <3> QED
      BY <1>1, <1>2, <1>4, <1>5, <2>1, <3>1, VictimKept
  <2> QED
    BY <2>1
<1>10. FreedOnce'
  <2>1. \A v \in Tasks : list'[v] # "none" /\ pc'[v] = "freeing" =>
            list[v] # "none" /\ pc[v] = "freeing" /\ victim'[v] = victim[v]
    BY <1>1, <1>2, <1>3
  <2> QED
    BY <2>1, FreedKept
<1>11. Counted'
  <2>1. \A v \in Tasks : list'[v] = "termination" <=> list[v] = "termination"
    BY <1>1, <1>2, <1>3
  <2> QED
    BY <1>2, <2>1, CountedSame
<1> QED
  BY <1>6, <1>7, <1>8, <1>9, <1>10, <1>11

\* A delay that is aborted: between the two steps the task is in no list of states.
LEMMA AbortDelayStep ==
    ASSUME StatesParameters, LifeInv, NEW t \in Tasks, NEW u \in Tasks, AbortDelay(t, u)
    PROVE  LifeInv'
<1> USE DEF LifeInv
<1>1. /\ pxCurrentTCB = t /\ ~pendSV /\ pc[t] = "idle" /\ suspended \in {NoTask, t}
      /\ suspended = t
      /\ u # t
      /\ list[u] \in {"delayed", "suspended"}
  BY DEF AbortDelay, IsBlocked, Free, Runs, Put, Go, StatesParameters
<1>2. /\ list'[u] = "removed"
      /\ victim'[t] = u
      /\ pc'[t] = "aborting"
      /\ \A v \in Tasks : v # u => list'[v] = list[v]
      /\ \A v \in Tasks : v # t => victim'[v] = victim[v] /\ pc'[v] = pc[v]
      /\ UNCHANGED <<eventList, uxPriority, ucNotifyState, suspended,
                     uxDeletedTasksWaitingCleanUp, pxCurrentTCB, xYieldPending, pendSV,
                     allocated, frozen>>
  BY DEF AbortDelay, IsBlocked, Free, Runs, Put, Go, LifeTypes, StatesParameters
<1>3. /\ list[t] = "ready" /\ TaskOK(t) /\ VictimOK(t)
      /\ TaskOK(u) /\ VictimOK(u)
  BY <1>1 DEF TheHighest, LifeTypes
<1>4. \A v \in Tasks : list[v] # "none" => pc[v] # "aborting"
  BY <1>1, NobodyAborts
<1>5. \A w \in Tasks : w \in allocated /\ list[w] = "none" =>
                           w \in allocated' /\ list'[w] = "none"
  BY <1>1, <1>2, <1>3
<1>6. LifeTypes'
  BY TasksAssumption
     DEF AbortDelay, IsBlocked, Free, Runs, Put, Go, LifeTypes, Places, StatesParameters
<1>7. TheHighest'
  BY <1>1, <1>2, <1>3, TasksAssumption DEF LifeTypes, TheHighest, Higher, StatesParameters
<1>8. ASSUME NEW v \in Tasks PROVE TaskOK(v)'
  <2>1. CASE v = t
    BY <1>1, <1>2, <1>3, <2>1 DEF TaskOK
  <2>2. CASE v = u
    BY <1>1, <1>2, <1>3, <2>2 DEF TaskOK
  <2>3. CASE v \notin {t, u}
    <3>1. TaskOK(v)
      OBVIOUS
    <3> QED
      BY <1>1, <1>2, <2>3, <3>1 DEF TaskOK
  <2> QED
    BY <2>1, <2>2, <2>3
<1>9. ASSUME NEW v \in Tasks PROVE VictimOK(v)'
  <2>1. CASE v = t
    BY <1>1, <1>2, <1>3, <1>4, <1>5, <2>1 DEF VictimOK, LifeTypes
  <2>2. CASE v = u
    BY <1>1, <1>2, <1>3, <1>4, <1>5, <2>2, VictimKept
  <2>3. CASE v \notin {t, u}
    <3>1. VictimOK(v)
      OBVIOUS
    <3> QED
      BY <1>1, <1>2, <1>4, <1>5, <2>3, <3>1, VictimKept
  <2> QED
    BY <2>1, <2>2, <2>3
<1>10. FreedOnce'
  <2>1. \A v \in Tasks : list'[v] # "none" /\ pc'[v] = "freeing" =>
            list[v] # "none" /\ pc[v] = "freeing" /\ victim'[v] = victim[v]
    BY <1>1, <1>2, <1>3
  <2> QED
    BY <2>1, FreedKept
<1>11. Counted'
  <2>1. \A v \in Tasks : list'[v] = "termination" <=> list[v] = "termination"
    BY <1>1, <1>2, <1>3
  <2> QED
    BY <1>2, <2>1, CountedSame
<1> QED
  BY <1>6, <1>7, <1>8, <1>9, <1>10, <1>11

\* Its second step: the event list item may be in the list of the pending ones.
LEMMA AbortDelayEndStep ==
    ASSUME StatesParameters, LifeInv, NEW t \in Tasks, AbortDelayEnd(t)
    PROVE  LifeInv'
<1> USE DEF LifeInv
<1> DEFINE u == victim[t]
<1>1. /\ pxCurrentTCB = t /\ ~pendSV /\ pc[t] = "aborting"
      /\ list[t] = "ready" /\ VictimOK(t) /\ TaskOK(t)
  BY DEF AbortDelayEnd, Runs, TheHighest, LifeTypes
<1>2. u \in Tasks /\ list[u] = "removed" /\ suspended = t /\ u # t
  BY <1>1 DEF VictimOK
<1>3. /\ list'[u] = "ready" /\ eventList'[u] = "none"
      /\ victim'[t] = NoTask /\ pc'[t] = "idle"
      /\ \A v \in Tasks : v # u => list'[v] = list[v] /\ eventList'[v] = eventList[v]
      /\ \A v \in Tasks : v # t => victim'[v] = victim[v] /\ pc'[v] = pc[v]
      /\ xYieldPending' = (xYieldPending \/ Higher(u))
      /\ UNCHANGED <<uxPriority, ucNotifyState, suspended, uxDeletedTasksWaitingCleanUp,
                     pxCurrentTCB, pendSV, allocated, frozen>>
  BY <1>2 DEF AbortDelayEnd, Put, PutEvent, Go, LifeTypes
<1>4. LifeTypes'
  BY <1>2 DEF AbortDelayEnd, Put, PutEvent, Go, LifeTypes, Places
<1> HIDE DEF u
<1>5. TheHighest'
  BY <1>1, <1>2, <1>3, TasksAssumption DEF LifeTypes, TheHighest, Higher
<1>6. ASSUME NEW v \in Tasks PROVE TaskOK(v)'
  <2>1. TaskOK(v)
    OBVIOUS
  <2> QED
    BY <1>1, <1>2, <1>3, <2>1 DEF TaskOK
<1>7. ASSUME NEW v \in Tasks PROVE VictimOK(v)'
  <2>1. CASE v = t
    BY <1>3, <2>1 DEF VictimOK
  <2>2. CASE v # t
    <3>1. VictimOK(v)
      OBVIOUS
    <3>2. list[v] # "none" => pc[v] # "aborting"
      BY <1>2, <2>2, <3>1 DEF VictimOK
    <3>3. \A w \in Tasks : w \in allocated /\ list[w] = "none" =>
                            w \in allocated' /\ list'[w] = "none"
      BY <1>2, <1>3
    <3> QED
      BY <1>2, <1>3, <2>2, <3>1, <3>2, <3>3, VictimKept
  <2> QED
    BY <2>1, <2>2
<1>8. FreedOnce'
  <2>1. \A v \in Tasks : pc'[v] = "freeing" =>
            pc[v] = "freeing" /\ victim'[v] = victim[v] /\ (list'[v] # "none" => list[v] # "none")
    BY <1>2, <1>3
  <2> QED
    BY <2>1 DEF FreedOnce
<1>9. Counted'
  BY <1>2, <1>3, CountedSame
<1> QED
  BY <1>4, <1>5, <1>6, <1>7, <1>8, <1>9

\* Time slicing asks for a switch.
LEMMA TimeSliceStep ==
    ASSUME StatesParameters, LifeInv, TimeSlice
    PROVE  LifeInv'
<1> USE DEF LifeInv
<1>1. /\ ~pendSV
      /\ suspended = NoTask
  BY DEF TimeSlice, stateVars, StatesParameters
<1>2. /\ pendSV' = TRUE
      /\ UNCHANGED <<list, eventList, uxPriority, ucNotifyState, victim, pc, suspended,
                     uxDeletedTasksWaitingCleanUp, pxCurrentTCB, xYieldPending, allocated,
                     frozen>>
  BY DEF TimeSlice, stateVars, LifeTypes, StatesParameters
<1>3. /\ TRUE
  BY <1>1 DEF TheHighest, LifeTypes
<1>4. \A v \in Tasks : list[v] # "none" => pc[v] # "aborting"
  BY <1>1, NobodyAborts
<1>5. \A w \in Tasks : w \in allocated /\ list[w] = "none" =>
                           w \in allocated' /\ list'[w] = "none"
  BY <1>1, <1>2, <1>3
<1>6. LifeTypes'
  BY TasksAssumption DEF TimeSlice, stateVars, LifeTypes, Places, StatesParameters
<1>7. TheHighest'
  BY <1>1, <1>2, <1>3, TasksAssumption DEF LifeTypes, TheHighest, Higher, StatesParameters
<1>8. ASSUME NEW v \in Tasks PROVE TaskOK(v)'
  <2>1. CASE v \notin {}
    <3>1. TaskOK(v)
      OBVIOUS
    <3> QED
      BY <1>1, <1>2, <2>1, <3>1 DEF TaskOK
  <2> QED
    BY <2>1
<1>9. ASSUME NEW v \in Tasks PROVE VictimOK(v)'
  <2>1. CASE v \notin {}
    <3>1. VictimOK(v)
      OBVIOUS
    <3> QED
      BY <1>1, <1>2, <1>4, <1>5, <2>1, <3>1, VictimKept
  <2> QED
    BY <2>1
<1>10. FreedOnce'
  <2>1. \A v \in Tasks : list'[v] # "none" /\ pc'[v] = "freeing" =>
            list[v] # "none" /\ pc[v] = "freeing" /\ victim'[v] = victim[v]
    BY <1>1, <1>2, <1>3
  <2> QED
    BY <2>1, FreedKept
<1>11. Counted'
  <2>1. \A v \in Tasks : list'[v] = "termination" <=> list[v] = "termination"
    BY <1>1, <1>2, <1>3
  <2> QED
    BY <1>2, <2>1, CountedSame
<1> QED
  BY <1>6, <1>7, <1>8, <1>9, <1>10, <1>11

\* A task that is made ready by an interrupt, or put off while the scheduler is suspended.
LEMMA WokenStep ==
    ASSUME LifeInv, NEW u \in Tasks, list[u] \notin {"none", "termination"},
           ReadyFromISR(u),
           ucNotifyState' \in {ucNotifyState, [ucNotifyState EXCEPT ![u] = "received"]},
           frozen' \in {frozen, frozen \ {u}},
           pendSV' \in BOOLEAN, xYieldPending' \in BOOLEAN,
           pendSV => pendSV', xYieldPending => xYieldPending',
           suspended = NoTask /\ ~pendSV' => ~Higher(u),
           UNCHANGED <<suspended, pc, uxPriority, uxDeletedTasksWaitingCleanUp, victim,
                       pxCurrentTCB, allocated>>
    PROVE  LifeInv'
<1> USE DEF LifeInv
<1>1. /\ suspended = NoTask => list'[u] = "ready" /\ eventList'[u] = "none"
      /\ suspended # NoTask => list'[u] = list[u] /\ eventList'[u] = "pending"
      /\ \A v \in Tasks : v # u => list'[v] = list[v] /\ eventList'[v] = eventList[v]
      /\ list' \in [Tasks -> Places]
      /\ eventList' \in [Tasks -> {"none", "object", "pending"}]
  <2>1. CASE suspended = NoTask
    <3>1. Put(u, "ready") /\ PutEvent(u, "none")
      BY <2>1 DEF ReadyFromISR
    <3> QED
      BY <2>1, <3>1 DEF Put, PutEvent, LifeTypes, Places
  <2>2. CASE suspended # NoTask
    <3>1. UNCHANGED list /\ PutEvent(u, "pending")
      BY <2>2 DEF ReadyFromISR
    <3> QED
      BY <2>2, <3>1 DEF PutEvent, LifeTypes
  <2> QED
    BY <2>1, <2>2
<1>2. /\ ucNotifyState' \in [Tasks -> {"not waiting", "waiting", "received"}]
      /\ ucNotifyState'[u] \in {ucNotifyState[u], "received"}
      /\ \A v \in Tasks : v # u => ucNotifyState'[v] = ucNotifyState[v]
                                   /\ (v \in frozen' <=> v \in frozen)
  BY DEF LifeTypes
<1>3. LifeTypes'
  BY <1>1, <1>2 DEF LifeTypes
<1>4. TheHighest'
  <2>1. suspended' # NoTask => pxCurrentTCB' = suspended' /\ list'[suspended'] = "ready"
    BY <1>1 DEF TheHighest, LifeTypes
  <2>2. ~pendSV' => list'[pxCurrentTCB'] = "ready"
    BY <1>1 DEF TheHighest, LifeTypes
  <2>3. ASSUME ~pendSV', suspended' = NoTask \/ ~xYieldPending', NEW v \in Tasks,
               list'[v] = "ready"
        PROVE  ~Higher(v)'
    <3>1. (Higher(v))' <=> Higher(v)
      BY DEF Higher
    <3>2. CASE list[v] = "ready"
      BY <2>3, <3>1, <3>2 DEF TheHighest
    <3>3. CASE list[v] # "ready"
      BY <1>1, <2>3, <3>1, <3>3
    <3> QED
      BY <3>2, <3>3
  <2> QED
    BY <2>1, <2>2, <2>3 DEF TheHighest
<1>5. ASSUME NEW v \in Tasks PROVE TaskOK(v)'
  <2>1. TaskOK(v)
    OBVIOUS
  <2>2. CASE v = u
    BY <1>1, <1>2, <2>1, <2>2 DEF TaskOK, Places
  <2>3. CASE v # u
    BY <1>1, <1>2, <2>1, <2>3 DEF TaskOK
  <2> QED
    BY <2>2, <2>3
<1>6. ASSUME NEW v \in Tasks PROVE VictimOK(v)'
  <2>1. VictimOK(v)
    OBVIOUS
  <2>2. CASE list[v] # "none" /\ pc[v] = "aborting"
    BY <1>1, <2>1, <2>2, TasksAssumption DEF VictimOK
  <2>3. CASE ~(list[v] # "none" /\ pc[v] = "aborting")
    BY <1>1, <2>1, <2>3, VictimKept
  <2> QED
    BY <2>2, <2>3
<1>7. FreedOnce'
  <2>1. \A v \in Tasks : list'[v] # "none" => list[v] # "none"
    BY <1>1
  <2> QED
    BY <2>1 DEF FreedOnce
<1>8. Counted'
  BY <1>1, CountedSame
<1> QED
  BY <1>3, <1>4, <1>5, <1>6, <1>7, <1>8

\* A notification that the task does not wait for.
LEMMA UnawaitedStep ==
    ASSUME LifeInv, NEW u \in Tasks, ucNotifyState[u] # "waiting", Received(u),
           UNCHANGED <<suspended, pc, list, eventList, uxPriority,
                       uxDeletedTasksWaitingCleanUp, victim, pxCurrentTCB, xYieldPending,
                       pendSV, allocated, frozen>>
    PROVE  LifeInv'
<1> USE DEF LifeInv
<1>1. /\ ucNotifyState'[u] = "received"
      /\ \A v \in Tasks : v # u => ucNotifyState'[v] = ucNotifyState[v]
  BY DEF Received, LifeTypes
<1>2. LifeTypes'
  BY DEF Received, LifeTypes
<1>3. TheHighest' /\ FreedOnce' /\ Counted'
  BY DEF TheHighest, Higher, FreedOnce, Counted
<1>4. ASSUME NEW v \in Tasks PROVE TaskOK(v)'
  <2>1. TaskOK(v)
    OBVIOUS
  <2> QED
    BY <1>1, <2>1 DEF TaskOK
<1>5. ASSUME NEW v \in Tasks PROVE VictimOK(v)'
  <2>1. VictimOK(v)
    OBVIOUS
  <2> QED
    BY <2>1 DEF VictimOK
<1> QED
  BY <1>2, <1>3, <1>4, <1>5

\* The interrupts: each makes a task ready, or leaves it to xTaskResumeAll.
LEMMA ResumeFromISRStep ==
    ASSUME LifeInv, NEW u \in Tasks, ResumeFromISR(u)
    PROVE  LifeInv'
<1>1. /\ list[u] = "suspended" /\ ReadyFromISR(u) /\ frozen' = frozen \ {u}
      /\ pendSV' = (pendSV \/ (suspended = NoTask /\ Higher(u)))
      /\ xYieldPending' = (xYieldPending \/ (suspended = NoTask /\ Higher(u)))
      /\ UNCHANGED <<suspended, pc, uxPriority, ucNotifyState, uxDeletedTasksWaitingCleanUp,
                     victim, pxCurrentTCB, allocated>>
  BY DEF ResumeFromISR, IsTaskSuspended, YieldFromISRIf
<1> QED
  BY <1>1, WokenStep

LEMMA EventStep ==
    ASSUME LifeInv, NEW u \in Tasks, Event(u)
    PROVE  LifeInv'
<1>1. /\ ReadyFromISR(u)
      /\ pendSV' = (pendSV \/ Higher(u)) /\ xYieldPending' = (xYieldPending \/ Higher(u))
      /\ UNCHANGED <<suspended, pc, uxPriority, ucNotifyState, uxDeletedTasksWaitingCleanUp,
                     victim, pxCurrentTCB, allocated, frozen>>
  BY DEF Event, YieldFromISRIf
<1>2. list[u] \notin {"none", "termination"}
  <2>1. TaskOK(u) /\ eventList[u] = "object"
    BY DEF LifeInv, Event
  <2> QED
    BY <2>1 DEF TaskOK
<1> QED
  BY <1>1, <1>2, WokenStep

LEMMA NotifyFromISRStep ==
    ASSUME LifeInv, NEW u \in Tasks, NotifyFromISR(u)
    PROVE  LifeInv'
<1>1. /\ list[u] \notin {"none", "termination"} /\ Received(u)
      /\ UNCHANGED <<suspended, pc, uxPriority, uxDeletedTasksWaitingCleanUp,
                     victim, pxCurrentTCB, allocated, frozen>>
  BY DEF NotifyFromISR, Exists
<1>2. CASE ucNotifyState[u] = "waiting"
  <2>1. /\ ReadyFromISR(u)
        /\ pendSV' = (pendSV \/ Higher(u)) /\ xYieldPending' = (xYieldPending \/ Higher(u))
    BY <1>2 DEF NotifyFromISR, NotifiedFromISR, YieldFromISRIf
  <2>2. ucNotifyState' = [ucNotifyState EXCEPT ![u] = "received"]
    BY <1>1 DEF Received
  <2> QED
    BY <1>1, <2>1, <2>2, WokenStep
<1>3. CASE ucNotifyState[u] # "waiting"
  <2>1. UNCHANGED <<list, eventList, xYieldPending, pendSV>>
    BY <1>3 DEF NotifyFromISR
  <2> QED
    BY <1>1, <1>3, <2>1, UnawaitedStep
<1> QED
  BY <1>2, <1>3

\* A notification by a task, whose receiver may sleep or not.
LEMMA NotifyStep ==
    ASSUME LifeInv, NEW t \in Tasks, NEW u \in Tasks, Notify(t, u)
    PROVE  LifeInv'
<1> USE DEF LifeInv
<1>1. /\ pxCurrentTCB = t /\ ~pendSV /\ pc[t] = "idle" /\ suspended \in {NoTask, t}
      /\ list[u] \notin {"none", "termination"} /\ Received(u)
      /\ UNCHANGED <<suspended, pc, eventList, uxPriority, uxDeletedTasksWaitingCleanUp,
                     victim, pxCurrentTCB, allocated, frozen>>
  BY DEF Notify, Free, Runs, Exists
<1>2. CASE ucNotifyState[u] # "waiting"
  <2>1. UNCHANGED <<list, xYieldPending, pendSV>>
    BY <1>2 DEF Notify
  <2> QED
    BY <1>1, <1>2, <2>1, UnawaitedStep
<1>3. CASE ucNotifyState[u] = "waiting"
  <2>1. /\ Put(u, "ready")
        /\ pendSV' = (pendSV \/ Higher(u)) /\ UNCHANGED xYieldPending
    BY <1>3 DEF Notify, YieldIf
  <2>2. /\ list'[u] = "ready" /\ \A v \in Tasks : v # u => list'[v] = list[v]
        /\ ucNotifyState'[u] = "received"
        /\ \A v \in Tasks : v # u => ucNotifyState'[v] = ucNotifyState[v]
    BY <1>1, <2>1 DEF Received, Put, LifeTypes
  <2>3. LifeTypes'
    <3>1. list' \in [Tasks -> Places]
      BY <2>1 DEF Put, LifeTypes, Places
    <3>2. ucNotifyState' \in [Tasks -> {"not waiting", "waiting", "received"}]
      BY <1>1 DEF Received, LifeTypes
    <3>3. pendSV' \in BOOLEAN
      BY <2>1
    <3> QED
      BY <1>1, <2>1, <3>1, <3>2, <3>3 DEF LifeTypes
  <2>4. TheHighest'
    <3>1. suspended' # NoTask => pxCurrentTCB' = suspended' /\ list'[suspended'] = "ready"
      BY <1>1, <2>2 DEF TheHighest, LifeTypes
    <3>2. ~pendSV' => list'[pxCurrentTCB'] = "ready"
      BY <1>1, <2>1, <2>2 DEF TheHighest, LifeTypes
    <3>3. ASSUME ~pendSV', suspended' = NoTask \/ ~xYieldPending', NEW v \in Tasks,
                 list'[v] = "ready"
          PROVE  ~Higher(v)'
      <4>1. (Higher(v))' <=> Higher(v)
        BY <1>1 DEF Higher
      <4>2. CASE v = u
        BY <2>1, <3>3, <4>1, <4>2
      <4>3. CASE v # u
        BY <1>1, <2>1, <2>2, <3>3, <4>1, <4>3 DEF TheHighest
      <4> QED
        BY <4>2, <4>3
    <3> QED
      BY <3>1, <3>2, <3>3 DEF TheHighest
  <2>5. ASSUME NEW v \in Tasks PROVE TaskOK(v)'
    <3>1. TaskOK(v)
      OBVIOUS
    <3>2. CASE v = u
      BY <1>1, <1>3, <2>2, <3>1, <3>2 DEF TaskOK
    <3>3. CASE v # u
      BY <1>1, <2>2, <3>1, <3>3 DEF TaskOK
    <3> QED
      BY <3>2, <3>3
  <2>6. ASSUME NEW v \in Tasks PROVE VictimOK(v)'
    <3>1. VictimOK(v)
      OBVIOUS
    <3>2. list[v] # "none" => pc[v] # "aborting"
      BY <1>1, NobodyAborts
    <3> QED
      BY <1>1, <2>2, <3>1, <3>2, VictimKept
  <2>7. FreedOnce'
    <3>1. \A v \in Tasks : list'[v] # "none" => list[v] # "none"
      BY <1>1, <2>2
    <3> QED
      BY <1>1, <3>1 DEF FreedOnce
  <2>8. Counted'
    BY <1>1, <2>2, CountedSame
  <2> QED
    BY <2>3, <2>4, <2>5, <2>6, <2>7, <2>8
<1> QED
  BY <1>2, <1>3

\* A task that finds a notification goes on, and one that does not may sleep for it.
LEMMA NotifyWaitStep ==
    ASSUME LifeInv, NEW t \in Tasks, NEW kind \in {"take", "wait"},
           NEW wait \in {"none", "finite", "forever"}, NotifyWait(t, kind, wait)
    PROVE  LifeInv'
<1> USE DEF LifeInv
<1>1. /\ pxCurrentTCB = t /\ ~pendSV /\ pc[t] = "idle" /\ suspended \in {NoTask, t}
      /\ suspended # NoTask => wait = "none"
      /\ pc' = [pc EXCEPT ![t] = kind]
      /\ UNCHANGED <<suspended, eventList, uxPriority, uxDeletedTasksWaitingCleanUp,
                     victim, pxCurrentTCB, xYieldPending, allocated, frozen>>
      /\ list[t] = "ready"
  BY DEF NotifyWait, Free, Runs, Go, TheHighest
<1>2. /\ TaskOK(t) /\ pc'[t] = kind /\ \A v \in Tasks : v # t => pc'[v] = pc[v]
      /\ pc' \in [Tasks -> {"idle", "freeing", "take", "wait", "aborting"}]
  BY <1>1 DEF LifeTypes
<1>3. \/ UNCHANGED <<list, ucNotifyState, pendSV>>
      \/ /\ ucNotifyState' = [ucNotifyState EXCEPT ![t] = "waiting"]
         /\ UNCHANGED <<list, pendSV>>
      \/ /\ ucNotifyState' = [ucNotifyState EXCEPT ![t] = "waiting"]
         /\ suspended = NoTask /\ pendSV' = TRUE
         /\ \E place \in {"delayed", "suspended"} : list' = [list EXCEPT ![t] = place]
  BY <1>1 DEF NotifyWait, Put, Blocked
<1>4. /\ list' \in [Tasks -> Places]
      /\ ucNotifyState' \in [Tasks -> {"not waiting", "waiting", "received"}]
      /\ \A v \in Tasks : v # t =>
            /\ list'[v] = list[v]
            /\ ucNotifyState'[v] = ucNotifyState[v]
      /\ \/ list'[t] = "ready" /\ pendSV' = pendSV
         \/ /\ list'[t] \in {"delayed", "suspended"} /\ ucNotifyState'[t] = "waiting"
            /\ suspended = NoTask /\ pendSV' = TRUE
  <2>1. CASE UNCHANGED <<list, ucNotifyState, pendSV>>
    BY <1>1, <2>1 DEF LifeTypes, Places
  <2>2. CASE /\ ucNotifyState' = [ucNotifyState EXCEPT ![t] = "waiting"]
             /\ UNCHANGED <<list, pendSV>>
    BY <1>1, <2>2 DEF LifeTypes, Places
  <2>3. CASE /\ ucNotifyState' = [ucNotifyState EXCEPT ![t] = "waiting"]
             /\ suspended = NoTask /\ pendSV' = TRUE
             /\ \E place \in {"delayed", "suspended"} : list' = [list EXCEPT ![t] = place]
    <3>1. PICK place \in {"delayed", "suspended"} : list' = [list EXCEPT ![t] = place]
      BY <2>3
    <3> QED
      BY <1>1, <2>3, <3>1 DEF LifeTypes, Places
  <2> QED
    BY <1>3, <2>1, <2>2, <2>3
<1>5. LifeTypes'
  BY <1>1, <1>2, <1>4 DEF LifeTypes
<1>6. TheHighest'
  BY <1>1, <1>4, TasksAssumption DEF TheHighest, Higher, LifeTypes
<1>7. ASSUME NEW v \in Tasks PROVE TaskOK(v)'
  <2>1. TaskOK(v)
    OBVIOUS
  <2>2. CASE v = t
    BY <1>1, <1>2, <1>4, <2>1, <2>2 DEF TaskOK, LifeTypes
  <2>3. CASE v # t
    <3>1. /\ list'[v] = list[v] /\ ucNotifyState'[v] = ucNotifyState[v] /\ pc'[v] = pc[v]
          /\ UNCHANGED <<suspended, eventList, allocated, frozen>>
      BY <1>1, <1>2, <1>4, <2>3
    <3> QED
      BY <2>1, <3>1 DEF TaskOK
  <2> QED
    BY <2>2, <2>3
<1>8. ASSUME NEW v \in Tasks PROVE VictimOK(v)'
  <2>1. VictimOK(v)
    OBVIOUS
  <2>2. list[v] # "none" => pc[v] # "aborting"
    BY <1>1, NobodyAborts
  <2>3. \A w \in Tasks : w \in allocated /\ list[w] = "none" => w \in allocated' /\ list'[w] = "none"
    BY <1>1, <1>4
  <2>4. CASE v = t
    BY <1>2, <2>4 DEF VictimOK
  <2>5. CASE v # t
    BY <1>1, <1>2, <1>4, <2>1, <2>2, <2>3, <2>5, VictimKept
  <2> QED
    BY <2>4, <2>5
<1>9. FreedOnce'
  <2>1. \A v \in Tasks : pc'[v] = "freeing" => pc[v] = "freeing" /\ list'[v] = list[v]
    BY <1>2, <1>4
  <2> QED
    BY <1>1, <2>1 DEF FreedOnce
<1>10. Counted'
  BY <1>1, <1>4, CountedSame
<1> QED
  BY <1>5, <1>6, <1>7, <1>8, <1>9, <1>10

\* All that interrupts put off is made ready, and the running task yields to any of
\* them that is above it.
LEMMA ResumeAllStep ==
    ASSUME LifeInv, NEW t \in Tasks, ResumeAll(t)
    PROVE  LifeInv'
<1> USE DEF LifeInv
<1>1. /\ pxCurrentTCB = t /\ ~pendSV /\ pc[t] = "idle" /\ suspended = t
      /\ suspended' = NoTask
      /\ xYieldPending' = (xYieldPending \/ \E u \in Pending : Higher(u))
      /\ pendSV' = xYieldPending'
      /\ UNCHANGED <<pc, uxPriority, ucNotifyState, uxDeletedTasksWaitingCleanUp, victim,
                     pxCurrentTCB, allocated, frozen>>
      /\ list[t] = "ready"
  BY DEF ResumeAll, Free, Runs, TheHighest
<1>2. /\ list' = [u \in Tasks |-> IF u \in Pending THEN "ready" ELSE list[u]]
      /\ eventList' = [u \in Tasks |-> IF u \in Pending THEN "none" ELSE eventList[u]]
  BY DEF ResumeAll
<1>3. /\ list' \in [Tasks -> Places]
      /\ eventList' \in [Tasks -> {"none", "object", "pending"}]
  BY <1>2 DEF LifeTypes, Places
<1>4. \A v \in Tasks :
        /\ eventList[v] = "pending" => list'[v] = "ready" /\ eventList'[v] = "none"
        /\ eventList[v] # "pending" => list'[v] = list[v] /\ eventList'[v] = eventList[v]
  BY <1>2 DEF Pending
<1>5. ASSUME NEW v \in Tasks
      PROVE  /\ TaskOK(v) /\ VictimOK(v) /\ (list[v] # "none" => pc[v] # "aborting")
             /\ list'[v] = "none" <=> list[v] = "none"
             /\ list'[v] = "termination" <=> list[v] = "termination"
  <2>1. TaskOK(v) /\ VictimOK(v)
    OBVIOUS
  <2>2. list[v] # "none" => pc[v] # "aborting"
    BY <1>1, NobodyAborts
  <2> QED
    BY <1>4, <2>1, <2>2 DEF TaskOK
<1>6. LifeTypes'
  BY <1>1, <1>3 DEF LifeTypes
<1>7. TheHighest'
  <2>1. list'[t] = "ready"
    BY <1>1, <1>4
  <2>2. ASSUME ~pendSV', NEW v \in Tasks, list'[v] = "ready"
        PROVE  ~Higher(v)'
    <3>1. (Higher(v))' <=> Higher(v)
      BY <1>1 DEF Higher
    <3>2. CASE eventList[v] = "pending"
      BY <1>1, <2>2, <3>1, <3>2 DEF Pending
    <3>3. CASE eventList[v] # "pending"
      BY <1>1, <1>4, <2>2, <3>1, <3>3 DEF TheHighest
    <3> QED
      BY <3>2, <3>3
  <2> QED
    BY <1>1, <2>1, <2>2 DEF TheHighest
<1>8. ASSUME NEW v \in Tasks PROVE TaskOK(v)'
  BY <1>1, <1>4, <1>5 DEF TaskOK
<1>9. ASSUME NEW v \in Tasks PROVE VictimOK(v)'
  <2>1. \A w \in Tasks : w \in allocated /\ list[w] = "none" =>
                         w \in allocated' /\ list'[w] = "none"
    BY <1>1, <1>5
  <2> QED
    BY <1>1, <1>5, <2>1, VictimKept
<1>10. FreedOnce'
  BY <1>1, <1>5 DEF FreedOnce
<1>11. Counted'
  BY <1>1, <1>5, CountedSame
<1> QED
  BY <1>6, <1>7, <1>8, <1>9, <1>10, <1>11

\* The switch picks a ready task that no other is above; with the scheduler suspended
\* it only notes that it is due.
LEMMA SwitchContextStep ==
    ASSUME LifeInv, SwitchContext
    PROVE  LifeInv'
<1> USE DEF LifeInv
<1>1. /\ pendSV /\ pendSV' = FALSE
      /\ UNCHANGED <<suspended, pc, list, eventList, uxPriority, ucNotifyState,
                     uxDeletedTasksWaitingCleanUp, victim, allocated, frozen>>
  BY DEF SwitchContext, stateVars
<1>2. /\ suspended # NoTask => xYieldPending' = TRUE /\ pxCurrentTCB' = pxCurrentTCB
      /\ suspended = NoTask =>
            /\ xYieldPending' = FALSE
            /\ pxCurrentTCB' \in Tasks /\ list[pxCurrentTCB'] = "ready"
            /\ \A v \in Tasks : list[v] = "ready" => uxPriority[v] <= uxPriority[pxCurrentTCB']
  BY DEF SwitchContext
<1>3. LifeTypes'
  <2>1. pxCurrentTCB' \in Tasks /\ pxCurrentTCB' \in allocated
    <3>1. CASE suspended = NoTask
      <4>1. pxCurrentTCB' \in Tasks /\ list[pxCurrentTCB'] = "ready"
        BY <1>2, <3>1
      <4>2. TaskOK(pxCurrentTCB')
        BY <4>1
      <4> QED
        BY <4>1, <4>2 DEF TaskOK
    <3>2. CASE suspended # NoTask
      BY <1>2, <3>2 DEF LifeTypes
    <3> QED
      BY <3>1, <3>2
  <2> QED
    BY <1>1, <1>2, <2>1 DEF LifeTypes
<1>4. TheHighest'
  <2>1. ASSUME NEW v \in Tasks, list[v] = "ready", suspended = NoTask
        PROVE  ~Higher(v)'
    <3>1. uxPriority[v] \in Nat /\ uxPriority[pxCurrentTCB'] \in Nat
      BY <1>2, <2>1 DEF LifeTypes
    <3>2. uxPriority[v] <= uxPriority[pxCurrentTCB']
      BY <1>2, <2>1
    <3>3. ~(uxPriority[v] > uxPriority[pxCurrentTCB'])
      BY <3>1, <3>2
    <3> QED
      BY <1>1, <3>3 DEF Higher
  <2> QED
    BY <1>1, <1>2, <2>1, TasksAssumption DEF LifeTypes, TheHighest
<1>5. ASSUME NEW v \in Tasks PROVE TaskOK(v)' /\ VictimOK(v)'
  <2>1. TaskOK(v) /\ VictimOK(v)
    OBVIOUS
  <2> QED
    BY <1>1, <2>1 DEF TaskOK, VictimOK
<1>6. FreedOnce' /\ Counted'
  BY <1>1 DEF FreedOnce, Counted
<1> QED
  BY <1>3, <1>4, <1>5, <1>6

-------------------------------------------------------------------------------
\* The invariant holds at the start, is kept by each step, and so always holds.
LEMMA LifeStarts == StatesParameters /\ StatesInit => LifeInv
<1> SUFFICES ASSUME StatesParameters, StatesInit PROVE LifeInv
  OBVIOUS
<1>1. /\ suspended = NoTask /\ xYieldPending = FALSE /\ pendSV = FALSE
      /\ pc = [t \in Tasks |-> "idle"] /\ uxPriority = Priority
      /\ list = [t \in Tasks |-> IF t \in Started THEN "ready" ELSE "none"]
      /\ eventList = [t \in Tasks |-> "none"]
      /\ ucNotifyState = [t \in Tasks |-> "not waiting"]
      /\ uxDeletedTasksWaitingCleanUp = 0
      /\ victim = [t \in Tasks |-> NoTask]
      /\ allocated = Started /\ frozen = {}
      /\ pxCurrentTCB \in Started
      /\ \A u \in Started : Priority[u] <= Priority[pxCurrentTCB]
  BY DEF StatesInit, StatesStart, TasksInit
<1>2. LifeTypes
  BY <1>1, TasksAssumption DEF LifeTypes, Places, StatesParameters
<1>3. TheHighest
  <2>1. ASSUME NEW t \in Tasks, list[t] = "ready" PROVE ~Higher(t)
    <3>1. t \in Started /\ pxCurrentTCB \in Tasks
      BY <1>1, <2>1 DEF StatesParameters
    <3>2. Priority[t] \in Nat /\ Priority[pxCurrentTCB] \in Nat
      BY <3>1, TasksAssumption
    <3>3. Priority[t] <= Priority[pxCurrentTCB]
      BY <1>1, <3>1
    <3>4. ~(Priority[t] > Priority[pxCurrentTCB])
      BY <3>2, <3>3
    <3> QED
      BY <1>1, <3>4 DEF Higher
  <2> QED
    BY <1>1, <2>1 DEF TheHighest, StatesParameters
<1>4. \A t \in Tasks : TaskOK(t) /\ VictimOK(t)
  BY <1>1 DEF TaskOK, VictimOK
<1>5. FreedOnce
  BY <1>1 DEF FreedOnce
<1>6. Counted
  <2>1. { t \in Tasks : list[t] = "termination" } = {}
    BY <1>1
  <2> QED
    BY <1>1, <2>1, FS_EmptySet DEF Counted
<1> QED
  BY <1>2, <1>3, <1>4, <1>5, <1>6 DEF LifeInv

LEMMA LifeSteps == StatesParameters /\ LifeInv /\ [StatesNext]_lifeVars => LifeInv'
<1> SUFFICES ASSUME StatesParameters, LifeInv, [StatesNext]_lifeVars PROVE LifeInv'
  OBVIOUS
<1>1. CASE SwitchContext \/ TimeSlice \/ CheckTasksWaitingTermination
  BY <1>1, SwitchContextStep, TimeSliceStep, CheckTasksWaitingTerminationStep
<1>2. CASE \E t \in Tasks : TaskCall(t)
  <2>1. PICK t \in Tasks : TaskCall(t)
    BY <1>2
  <2>2. CASE DeleteSelf(t) \/ DeleteTCB(t) \/ NotifyTaken(t)
             \/ SuspendAll(t) \/ ResumeAll(t) \/ AbortDelayEnd(t)
    BY <2>2, DeleteSelfStep, DeleteTCBStep, NotifyTakenStep, SuspendAllStep, ResumeAllStep,
       AbortDelayEndStep
  <2>3. CASE \/ \E wait \in {"finite", "forever"} : Block(t, "object", wait)
             \/ Block(t, "none", "finite")
    BY <2>3, BlockStep
  <2>4. CASE \E kind \in {"take", "wait"}, wait \in {"none", "finite", "forever"} :
                NotifyWait(t, kind, wait)
    BY <2>4, NotifyWaitStep
  <2>5. CASE \E u \in Tasks :
                \/ Create(t, u) \/ DeleteOther(t, u) \/ Suspend(t, u) \/ Resume(t, u)
                \/ Notify(t, u) \/ AbortDelay(t, u)
                \/ \E p \in NewPriorities : PrioritySet(t, u, p)
    BY <2>5, CreateStep, DeleteOtherStep, SuspendStep, ResumeStep, NotifyStep, AbortDelayStep,
       PrioritySetStep
  <2> QED
    BY <2>1, <2>2, <2>3, <2>4, <2>5 DEF TaskCall
<1>3. CASE \E u \in Tasks : ResumeFromISR(u) \/ NotifyFromISR(u) \/ Event(u) \/ Tick(u)
  BY <1>3, ResumeFromISRStep, NotifyFromISRStep, EventStep, TickStep
<1>4. CASE UNCHANGED lifeVars
  <2>1. UNCHANGED <<suspended, pc, pxCurrentTCB, xYieldPending, pendSV, list, eventList,
                    uxPriority, ucNotifyState, uxDeletedTasksWaitingCleanUp, victim,
                    allocated, frozen>>
    BY <1>4 DEF lifeVars, stateVars
  <2>2. LifeTypes' /\ TheHighest'
    BY <2>1 DEF LifeInv, LifeTypes, TheHighest, Higher
  <2>3. \A t \in Tasks : TaskOK(t)' /\ VictimOK(t)'
    BY <2>1 DEF LifeInv, TaskOK, VictimOK
  <2>4. FreedOnce' /\ Counted'
    BY <2>1 DEF LifeInv, FreedOnce, Counted
  <2> QED
    BY <2>2, <2>3, <2>4 DEF LifeInv
<1> QED
  BY <1>1, <1>2, <1>3, <1>4 DEF StatesNext

LEMMA LifeAlways == StatesParameters => (StatesSpec => []LifeInv)
<1> SUFFICES ASSUME StatesParameters PROVE StatesSpec => []LifeInv
  OBVIOUS
<1>1. StatesInit => LifeInv
  BY LifeStarts
<1>2. LifeInv /\ [StatesNext]_lifeVars => LifeInv'
  BY LifeSteps
<1> QED
  BY <1>1, <1>2, PTL DEF StatesSpec

\* Whoever is created, deleted, suspended, resumed, notified, aborted or given another
\* priority, and whichever interrupt comes when: once no switch of context is due the
\* running task is a ready one of the highest priority.
THEOREM UrgentTaskRuns == StatesParameters => (StatesSpec => []HighestRuns)
<1>1. LifeInv => HighestRuns
  BY DEF LifeInv, TheHighest, HighestRuns
<1> QED
  BY <1>1, LifeAlways, PTL

\* No task that waits for a notification sleeps on when it has got one, unless it was
\* suspended meanwhile.
THEOREM NotifiedTasksWake == StatesParameters => (StatesSpec => []NobodySleepsNotified)
<1>1. LifeInv => NobodySleepsNotified
  BY DEF LifeInv, TaskOK, NobodySleepsNotified
<1> QED
  BY <1>1, LifeAlways, PTL

\* The memory of a task is freed once, and not while anything refers to it; the count of
\* the deleted tasks is that of those on the list of the idle task.
THEOREM TasksAreAccountedFor == StatesParameters => (StatesSpec => []ListsAgree)
<1>1. LifeInv => ListsAgree
  <2> SUFFICES ASSUME LifeInv PROVE ListsAgree
    OBVIOUS
  <2>1. pxCurrentTCB \in allocated
    BY DEF LifeInv, LifeTypes
  <2>2. ASSUME NEW t \in Tasks
        PROVE  /\ list[t] # "none" \/ eventList[t] # "none" => t \in allocated
               /\ eventList[t] = "object" => list[t] \in {"delayed", "suspended", "removed"}
               /\ eventList[t] = "pending" => suspended # NoTask
               /\ list[t] # "none" /\ pc[t] = "freeing" =>
                     victim[t] \in allocated /\ list[victim[t]] = "none"
    BY DEF LifeInv, TaskOK, VictimOK
  <2> QED
    BY <2>1, <2>2 DEF LifeInv, Counted, ListsAgree
<1> QED
  BY <1>1, LifeAlways, PTL

-------------------------------------------------------------------------------
\* The time of the tasks

LEMMA LeastNatural ==
    ASSUME NEW S, S \subseteq Nat, S # {}
    PROVE  \E n \in S : \A m \in S : n <= m
<1>1. PICK R : R = {ss \in Nat \X Nat : ss[1] < ss[2]}
  OBVIOUS
<1>2. IsWellFoundedOn(R, Nat)
  BY <1>1, NatLessThanWellFounded DEF OpToRel
<1>3. PICK n \in S : \A m \in S : <<m, n>> \notin R
  BY <1>2, WFMin
<1>4. ASSUME NEW m \in S, m < n PROVE FALSE
  <2>1. <<m, n>> \in Nat \X Nat /\ <<m, n>>[1] < <<m, n>>[2]
    BY <1>4
  <2>2. <<m, n>> \in R
    BY <1>1, <2>1
  <2> QED
    BY <1>3, <2>2
<1> QED
  BY <1>3, <1>4

-------------------------------------------------------------------------------
\* The delayed lists

Instants == 0..(TickRange - 1)

ClockTyped(c) ==
    c \in [tick : Instants, overflows : 0..(OverflowRange - 1), delayed : SUBSET Tasks,
           overflow : SUBSET Tasks, forever : SUBSET Tasks, wakeAt : [Tasks -> Instants],
           nextUnblock : Instants, left : [Tasks -> Nat]]

\* A task is in one list, the one that its time to wake belongs to, and is not
\* overlooked; a wait for no tick at all only begins when the tick count is 0.
Delayed(c) ==
    /\ c.delayed \cap c.overflow = {} /\ c.forever \cap (c.delayed \cup c.overflow) = {}
    /\ \A t \in c.delayed : /\ c.nextUnblock <= c.wakeAt[t]
                            /\ c.tick < c.wakeAt[t] \/ (c.tick = 0 /\ c.wakeAt[t] = 0)
    /\ \A t \in c.overflow : c.wakeAt[t] < c.tick

\* Those who sleep for so many ticks more.
Timed(c) == c.delayed \cup c.overflow
Rest(c, t) == c.wakeAt[t] - c.tick + (IF t \in c.overflow THEN TickRange ELSE 0)

\* The tick count a number of ticks after it was this.
Since(tick, overflows, d, n) ==
    \/ /\ tick + n < TickRange
       /\ d.tick = tick + n /\ d.overflows = overflows
    \/ /\ tick + n >= TickRange
       /\ d.tick = tick + n - TickRange /\ d.overflows = (overflows + 1) % OverflowRange

\* What so many ticks do to those who sleep.
Lasted(c, d, n) ==
    /\ ClockTyped(d) /\ Delayed(d)
    /\ Since(c.tick, c.overflows, d, n) /\ d.forever = c.forever
    /\ \A t \in Tasks : /\ t \in Timed(d) <=> t \in Timed(c) /\ (n = 0 \/ Rest(c, t) > n)
                        /\ t \in Timed(d) => Rest(d, t) = Rest(c, t) - n
                        /\ \/ c.left[t] > n /\ d.left[t] = c.left[t] - n
                           \/ c.left[t] <= n /\ d.left[t] = 0

LEMMA FirstIs ==
    ASSUME NEW S \in SUBSET Tasks, NEW at \in [Tasks -> Instants]
    PROVE  /\ First(S, at) \in Instants
           /\ \A t \in S : First(S, at) <= at[t]
           /\ S # {} => \E t \in S : First(S, at) = at[t]
<1>1. CASE S = {}
  BY <1>1, ClockAssumption DEF First, portMAX_DELAY, Instants
<1>2. CASE S # {}
  <2> DEFINE V == { at[t] : t \in S }
  <2>1. V # {} /\ V \subseteq Nat /\ V \subseteq Instants
    BY <1>2 DEF Instants
  <2> HIDE DEF V
  <2>2. \E n \in V : \A m \in V : n <= m
    BY <2>1, LeastNatural
  <2>3. Min(V) \in V /\ \A m \in V : Min(V) <= m
    BY <2>2 DEF Min
  <2>4. First(S, at) = Min(V)
    BY <1>2 DEF First, V
  <2> QED
    BY <2>1, <2>3, <2>4 DEF V
<1> QED
  BY <1>1, <1>2

\* The fields of the clock without some tasks in its lists.
LEMMA RemovedIs ==
    ASSUME NEW c, ClockTyped(c), NEW tasks
    PROVE  LET r == Removed(c, tasks)
           IN  /\ r.tick = c.tick /\ r.overflows = c.overflows /\ r.left = c.left
               /\ r.delayed = c.delayed \ tasks /\ r.overflow = c.overflow \ tasks
               /\ r.forever = c.forever \ tasks
               /\ r.wakeAt = [t \in Tasks |-> IF t \in tasks THEN 0 ELSE c.wakeAt[t]]
               /\ r.nextUnblock = c.nextUnblock
               /\ ClockTyped(r)
<1> DEFINE at == [t \in Tasks |-> IF t \in tasks THEN 0 ELSE c.wakeAt[t]]
           r == Removed(c, tasks)
<1>1. at \in [Tasks -> Instants]
  BY ClockAssumption DEF ClockTyped, Instants
<1>2. r = [c EXCEPT !.delayed = c.delayed \ tasks, !.overflow = c.overflow \ tasks,
                    !.forever = c.forever \ tasks, !.wakeAt = at]
  BY DEF ClockTyped, Removed
<1> HIDE DEF at, r
<1>3. /\ r.tick = c.tick /\ r.overflows = c.overflows /\ r.left = c.left
      /\ r.delayed = c.delayed \ tasks /\ r.overflow = c.overflow \ tasks
      /\ r.forever = c.forever \ tasks /\ r.wakeAt = at /\ r.nextUnblock = c.nextUnblock
      /\ ClockTyped(r)
  BY <1>1, <1>2 DEF ClockTyped
<1> QED
  BY <1>3 DEF at, r

\* The lists after the tick count was increased, before the tasks whose time it is leave.
TickBegun(c, s) ==
    /\ ClockTyped(s)
    /\ s.tick = IF c.tick + 1 < TickRange THEN c.tick + 1 ELSE 0
    /\ s.overflows = IF c.tick + 1 < TickRange THEN c.overflows
                     ELSE (c.overflows + 1) % OverflowRange
    /\ s.forever = c.forever /\ s.wakeAt = c.wakeAt
    /\ s.left = [t \in Tasks |-> IF c.left[t] > 0 THEN c.left[t] - 1 ELSE 0]
    /\ s.delayed \cap s.overflow = {} /\ s.forever \cap (s.delayed \cup s.overflow) = {}
    /\ s.delayed \cup s.overflow = c.delayed \cup c.overflow
    /\ \A t \in s.delayed : s.nextUnblock <= s.wakeAt[t]
    /\ s.delayed # {} /\ s.tick = 0 => \E t \in s.delayed : s.nextUnblock = s.wakeAt[t]
    /\ \A t \in s.overflow : s.wakeAt[t] < s.tick
    /\ \A t \in Timed(c) : Rest(s, t) = Rest(c, t) - 1

LEMMA TickBegins ==
    ASSUME NEW c, ClockTyped(c), Delayed(c)
    PROVE  \E s : /\ TickBegun(c, s)
                  /\ Ticked(c) = IF s.tick >= s.nextUnblock THEN UnblockDue(s) ELSE s
<1>1. /\ c.tick \in Instants /\ c.overflows \in 0..(OverflowRange - 1)
      /\ c.delayed \subseteq Tasks /\ c.overflow \subseteq Tasks /\ c.forever \subseteq Tasks
      /\ c.wakeAt \in [Tasks -> Instants] /\ c.nextUnblock \in Instants
      /\ c.left \in [Tasks -> Nat]
  BY DEF ClockTyped
<1>2. PICK now \in Instants : /\ now = (c.tick + 1) % TickRange
                              /\ \/ c.tick + 1 < TickRange /\ now = c.tick + 1 /\ now # 0
                                 \/ c.tick + 1 = TickRange /\ now = 0
  <2>1. \/ c.tick + 1 < TickRange /\ (c.tick + 1) % TickRange = c.tick + 1
        \/ c.tick + 1 = TickRange /\ (c.tick + 1) % TickRange = 0
    BY <1>1, ClockAssumption DEF Instants
  <2> QED
    BY <1>1, <2>1, ClockAssumption DEF Instants
<1>3. PICK left : left = [t \in Tasks |-> IF c.left[t] > 0 THEN c.left[t] - 1 ELSE 0]
  OBVIOUS
<1>4. left \in [Tasks -> Nat]
  BY <1>1, <1>3
<1>5. PICK n : n = [c EXCEPT !.tick = now, !.left = left]
  OBVIOUS
<1>6. /\ ClockTyped(n) /\ n.tick = now /\ n.left = left /\ n.overflows = c.overflows
      /\ n.delayed = c.delayed /\ n.overflow = c.overflow /\ n.forever = c.forever
      /\ n.wakeAt = c.wakeAt /\ n.nextUnblock = c.nextUnblock
  BY <1>2, <1>4, <1>5 DEF ClockTyped
<1>7. n = [c EXCEPT !.tick = now,
                    !.left = [t \in Tasks |-> IF @[t] > 0 THEN @[t] - 1 ELSE 0]]
  BY <1>3, <1>5 DEF ClockTyped
<1>8. CASE now # 0
  <2>1. c.tick + 1 < TickRange /\ now = c.tick + 1
    BY <1>2, <1>8
  <2>2. TickBegun(c, n)
    BY <1>1, <1>3, <1>6, <2>1, <1>8, ClockAssumption
    DEF TickBegun, Delayed, Timed, Rest, Instants
  <2>3. Ticked(c) = IF n.tick >= n.nextUnblock THEN UnblockDue(n) ELSE n
    BY <1>2, <1>6, <1>7, <1>8 DEF Ticked
  <2> QED
    BY <2>2, <2>3
<1>9. CASE now = 0
  <2>1. c.tick = TickRange - 1
    BY <1>1, <1>2, <1>9, ClockAssumption DEF Instants
  <2>2. c.delayed = {}
    BY <1>1, <2>1, ClockAssumption DEF Delayed, Instants
  <2>3. PICK s : s = SwitchDelayedLists(n)
    OBVIOUS
  <2>4. (c.overflows + 1) % OverflowRange \in 0..(OverflowRange - 1)
    BY <1>1, ClockAssumption
  <2>5. /\ First(c.overflow, c.wakeAt) \in Instants
        /\ \A t \in c.overflow : First(c.overflow, c.wakeAt) <= c.wakeAt[t]
        /\ c.overflow # {} => \E t \in c.overflow : First(c.overflow, c.wakeAt) = c.wakeAt[t]
    BY <1>1, FirstIs
  <2>6. /\ ClockTyped(s) /\ s.tick = now /\ s.left = left
        /\ s.overflows = (c.overflows + 1) % OverflowRange
        /\ s.delayed = c.overflow /\ s.overflow = {} /\ s.forever = c.forever
        /\ s.wakeAt = c.wakeAt /\ s.nextUnblock = First(c.overflow, c.wakeAt)
    BY <1>6, <2>2, <2>3, <2>4, <2>5 DEF ClockTyped, SwitchDelayedLists
  <2>7. \A t \in Timed(c) : Rest(s, t) = Rest(c, t) - 1
    BY <1>1, <1>9, <2>1, <2>2, <2>6, ClockAssumption DEF Timed, Rest, Instants
  <2>8. TickBegun(c, s)
    BY <1>1, <1>3, <1>9, <2>1, <2>2, <2>5, <2>6, <2>7, ClockAssumption
    DEF TickBegun, Delayed, Instants
  <2>9. Ticked(c) = IF s.tick >= s.nextUnblock THEN UnblockDue(s) ELSE s
    BY <1>2, <1>6, <1>7, <1>9, <2>3, <2>6 DEF Ticked
  <2> QED
    BY <2>8, <2>9
<1> QED
  BY <1>8, <1>9

\* A tick.
LEMMA TickedIs ==
    ASSUME NEW c, ClockTyped(c), Delayed(c)
    PROVE  Lasted(c, Ticked(c), 1)
<1>1. PICK s : /\ TickBegun(c, s)
               /\ Ticked(c) = IF s.tick >= s.nextUnblock THEN UnblockDue(s) ELSE s
  BY TickBegins
<1>2. /\ c.tick \in Instants /\ c.overflows \in 0..(OverflowRange - 1)
      /\ c.delayed \subseteq Tasks /\ c.overflow \subseteq Tasks /\ c.forever \subseteq Tasks
      /\ c.wakeAt \in [Tasks -> Instants] /\ c.nextUnblock \in Instants
      /\ c.left \in [Tasks -> Nat]
  BY DEF ClockTyped
<1>3. /\ s.tick \in Instants /\ s.overflows \in 0..(OverflowRange - 1)
      /\ s.delayed \subseteq Tasks /\ s.overflow \subseteq Tasks /\ s.forever \subseteq Tasks
      /\ s.wakeAt \in [Tasks -> Instants] /\ s.nextUnblock \in Instants
      /\ s.left \in [Tasks -> Nat]
  BY <1>1 DEF ClockTyped, TickBegun
<1>4. PICK d : d = Ticked(c)
  OBVIOUS
<1>5. PICK D : D = Due(s)
  OBVIOUS
<1>6. D \subseteq s.delayed /\ \A t \in s.delayed : t \in D <=> s.wakeAt[t] <= s.tick
  BY <1>5 DEF Due
<1>7. /\ ClockTyped(d) /\ d.tick = s.tick /\ d.overflows = s.overflows /\ d.left = s.left
      /\ d.forever = s.forever /\ d.overflow = s.overflow
      /\ d.delayed = s.delayed \ D
      /\ \A t \in Tasks : t \notin D => d.wakeAt[t] = s.wakeAt[t]
      /\ \A t \in d.delayed : d.nextUnblock <= d.wakeAt[t]
  <2>1. CASE s.tick < s.nextUnblock
    <3>1. d = s
      BY <1>1, <1>3, <1>4, <2>1 DEF Instants
    <3>2. D = {}
      BY <1>1, <1>3, <1>6, <2>1, ClockAssumption DEF Instants, TickBegun
    <3> QED
      BY <1>1, <3>1, <3>2 DEF TickBegun
  <2>2. CASE s.tick >= s.nextUnblock
    <3>1. d = [Removed(s, D) EXCEPT !.nextUnblock = First(s.delayed \ D, s.wakeAt)]
      BY <1>1, <1>4, <1>5, <2>2 DEF UnblockDue
    <3>2. /\ First(s.delayed \ D, s.wakeAt) \in Instants
          /\ \A t \in s.delayed \ D : First(s.delayed \ D, s.wakeAt) <= s.wakeAt[t]
      BY <1>3, FirstIs
    <3>3. PICK r : r = Removed(s, D)
      OBVIOUS
    <3>4. /\ r.tick = s.tick /\ r.overflows = s.overflows /\ r.left = s.left
          /\ r.delayed = s.delayed \ D /\ r.overflow = s.overflow \ D
          /\ r.forever = s.forever \ D
          /\ r.wakeAt = [t \in Tasks |-> IF t \in D THEN 0 ELSE s.wakeAt[t]]
          /\ r.nextUnblock = s.nextUnblock
          /\ ClockTyped(r)
      BY <1>1, <3>3, RemovedIs DEF TickBegun
    <3>5. r.overflow = s.overflow /\ r.forever = s.forever
      BY <1>1, <1>6, <3>4 DEF TickBegun
    <3>6. /\ d.tick = r.tick /\ d.overflows = r.overflows /\ d.left = r.left
          /\ d.delayed = r.delayed /\ d.overflow = r.overflow
          /\ d.forever = r.forever /\ d.wakeAt = r.wakeAt
          /\ d.nextUnblock = First(s.delayed \ D, s.wakeAt)
          /\ ClockTyped(d)
      BY <3>1, <3>2, <3>3, <3>4 DEF ClockTyped
    <3>7. /\ ClockTyped(d) /\ d.tick = s.tick /\ d.overflows = s.overflows /\ d.left = s.left
          /\ d.forever = s.forever /\ d.overflow = s.overflow
          /\ d.delayed = s.delayed \ D
      BY ONLY <3>4, <3>5, <3>6
    <3>8. \A t \in Tasks : t \notin D => d.wakeAt[t] = s.wakeAt[t]
      BY ONLY <3>4, <3>6
    <3>9. \A t \in d.delayed : d.nextUnblock <= d.wakeAt[t]
      <4> SUFFICES ASSUME NEW t \in d.delayed
                   PROVE  d.nextUnblock <= d.wakeAt[t]
        OBVIOUS
      <4>1. t \in s.delayed \ D /\ t \in Tasks
        BY ONLY <1>3, <3>7, t \in d.delayed
      <4>2. d.wakeAt[t] = s.wakeAt[t]
        BY <3>8, <4>1
      <4> QED
        BY <3>2, <3>6, <4>1, <4>2
    <3> QED
      BY ONLY <3>7, <3>8, <3>9
  <2> QED
    BY <1>3, <2>1, <2>2 DEF Instants
<1>8. \A t \in Timed(c) : Rest(s, t) = Rest(c, t) - 1 /\ Rest(c, t) \in Int
  BY <1>1, <1>2, ClockAssumption DEF TickBegun, Rest, Instants, Timed
<1>9. \A t \in d.delayed : d.wakeAt[t] = s.wakeAt[t] /\ s.wakeAt[t] > s.tick
  BY <1>3, <1>6, <1>7, ClockAssumption DEF Instants
<1>10. \A t \in d.overflow : d.wakeAt[t] = s.wakeAt[t] /\ s.wakeAt[t] < s.tick
  BY <1>1, <1>3, <1>6, <1>7 DEF TickBegun
<1>11. Delayed(d)
  BY <1>1, <1>7, <1>9, <1>10 DEF Delayed, TickBegun
<1>12. Since(c.tick, c.overflows, d, 1)
  BY <1>1, <1>2, <1>7, ClockAssumption DEF Since, TickBegun, Instants
<1>13. \A t \in Tasks : /\ t \in Timed(d) <=> t \in Timed(c) /\ Rest(c, t) > 1
                        /\ t \in Timed(d) => Rest(d, t) = Rest(c, t) - 1
  <2> SUFFICES ASSUME NEW t \in Tasks
               PROVE  /\ t \in Timed(d) <=> t \in Timed(c) /\ Rest(c, t) > 1
                      /\ t \in Timed(d) => Rest(d, t) = Rest(c, t) - 1
    OBVIOUS
  <2>1. s.delayed \cap s.overflow = {} /\ s.delayed \cup s.overflow = c.delayed \cup c.overflow
    BY <1>1 DEF TickBegun
  <2>2. CASE t \in d.delayed
    <3>1. Rest(d, t) = Rest(s, t) /\ Rest(s, t) > 0 /\ t \in Timed(c)
      BY <1>3, <1>7, <1>9, <2>1, <2>2, ClockAssumption DEF Rest, Timed, Instants
    <3> QED
      BY <1>8, <2>2, <3>1 DEF Timed
  <2>3. CASE t \in d.overflow
    <3>1. Rest(d, t) = Rest(s, t) /\ Rest(s, t) > 0 /\ t \in Timed(c)
      BY <1>3, <1>7, <1>10, <2>1, <2>3, ClockAssumption DEF Rest, Timed, Instants
    <3> QED
      BY <1>8, <2>3, <3>1 DEF Timed
  <2>4. CASE t \notin Timed(d) /\ t \in Timed(c)
    <3>1. t \in D /\ t \in s.delayed /\ t \notin s.overflow
      BY <1>7, <2>1, <2>4 DEF Timed
    <3>2. Rest(s, t) <= 0
      BY <1>3, <1>6, <3>1, ClockAssumption DEF Rest, Instants
    <3> QED
      BY <1>8, <2>4, <3>2
  <2> QED
    BY <2>2, <2>3, <2>4, <2>1, <1>7 DEF Timed
<1>14. \A t \in Tasks : \/ c.left[t] > 1 /\ d.left[t] = c.left[t] - 1
                        \/ c.left[t] <= 1 /\ d.left[t] = 0
  BY <1>1, <1>2, <1>7 DEF TickBegun
<1>15. d.forever = c.forever
  BY <1>1, <1>7 DEF TickBegun
<1> QED
  BY <1>4, <1>7, <1>11, <1>12, <1>13, <1>14, <1>15 DEF Lasted

-------------------------------------------------------------------------------
\* Several ticks

\* What TickedTimes counts through.
IsRun(run, c, n) == run = [i \in 0..n |-> IF i = 0 THEN c ELSE Ticked(run[i - 1])]

LEMMA RunExists ==
    ASSUME NEW c, NEW n \in Nat
    PROVE  \E run : IsRun(run, c, n)
<1> DEFINE S == { m \in Nat : ~\E run : IsRun(run, c, m) }
<1> SUFFICES ASSUME S # {} PROVE FALSE
  OBVIOUS
<1>1. PICK m \in S : \A k \in S : m <= k
  <2> HIDE DEF S
  <2>1. S \subseteq Nat
    BY DEF S
  <2> QED
    BY <2>1, LeastNatural
<1>2. m \in Nat /\ ~\E run : IsRun(run, c, m)
  OBVIOUS
<1>3. m # 0
  <2>1. IsRun([i \in 0..0 |-> c], c, 0)
    BY DEF IsRun
  <2> QED
    BY <1>2, <2>1
<1>4. m - 1 \in Nat /\ m - 1 \notin S
  BY <1>1, <1>2, <1>3
<1>5. PICK run : IsRun(run, c, m - 1)
  BY <1>4
<1>6. PICK more : more = [i \in 0..m |-> IF i = m THEN Ticked(run[m - 1]) ELSE run[i]]
  OBVIOUS
<1>7. ASSUME NEW i \in 0..m
      PROVE  more[i] = IF i = 0 THEN c ELSE Ticked(more[i - 1])
  <2>1. CASE i = m
    <3>1. more[i - 1] = run[m - 1]
      BY <1>2, <1>3, <1>6, <2>1
    <3> QED
      BY <1>3, <1>6, <2>1, <3>1
  <2>2. CASE i # m
    <3>1. i \in 0..(m - 1) /\ more[i] = run[i] /\ (i # 0 => more[i - 1] = run[i - 1])
      BY <1>2, <1>6, <2>2
    <3>2. run[i] = IF i = 0 THEN c ELSE Ticked(run[i - 1])
      BY <1>5, <3>1 DEF IsRun
    <3> QED
      BY <3>1, <3>2
  <2> QED
    BY <2>1, <2>2
<1>8. IsRun(more, c, m)
  <2>1. more = [i \in 0..m |-> more[i]]
    BY <1>6
  <2>2. more = [i \in 0..m |-> IF i = 0 THEN c ELSE Ticked(more[i - 1])]
    BY <1>7, <2>1
  <2> QED
    BY <2>2 DEF IsRun
<1> QED
  BY <1>2, <1>8

\* It does not depend on how far one counts.
LEMMA RunsAgree ==
    ASSUME NEW c, NEW n \in Nat, NEW m \in Nat, NEW run, NEW more,
           IsRun(run, c, n), IsRun(more, c, m), NEW k \in 0..n, k <= m
    PROVE  run[k] = more[k]
<1> DEFINE S == { i \in 0..k : run[i] # more[i] }
<1> SUFFICES ASSUME S # {} PROVE FALSE
  OBVIOUS
<1>1. PICK i \in S : \A j \in S : i <= j
  <2> HIDE DEF S
  <2>1. S \subseteq Nat
    BY DEF S
  <2> QED
    BY <2>1, LeastNatural
<1>2. i \in 0..k /\ run[i] # more[i]
  OBVIOUS
<1>3. /\ run[i] = IF i = 0 THEN c ELSE Ticked(run[i - 1])
      /\ more[i] = IF i = 0 THEN c ELSE Ticked(more[i - 1])
  <2>1. i \in 0..n /\ i \in 0..m
    BY <1>2
  <2> QED
    BY <2>1 DEF IsRun
<1>4. i # 0
  BY <1>2, <1>3
<1>5. i - 1 \in 0..k /\ i - 1 \notin S
  BY <1>1, <1>2, <1>4
<1> QED
  BY <1>2, <1>3, <1>4, <1>5

LEMMA TickedTimesIs ==
    ASSUME NEW c, NEW n \in Nat
    PROVE  /\ TickedTimes(c, 0) = c
           /\ TickedTimes(c, n + 1) = Ticked(TickedTimes(c, n))
<1>1. ASSUME NEW m \in Nat
      PROVE  \E run : IsRun(run, c, m) /\ TickedTimes(c, m) = run[m]
  <2> DEFINE chosen == CHOOSE run : IsRun(run, c, m)
  <2>1. IsRun(chosen, c, m)
    BY RunExists
  <2>2. TickedTimes(c, m) = chosen[m]
    BY DEF TickedTimes, IsRun
  <2> QED
    BY <2>1, <2>2
<1>2. PICK none : IsRun(none, c, 0) /\ TickedTimes(c, 0) = none[0]
  BY <1>1
<1>3. PICK run : IsRun(run, c, n) /\ TickedTimes(c, n) = run[n]
  BY <1>1
<1>4. PICK more : IsRun(more, c, n + 1) /\ TickedTimes(c, n + 1) = more[n + 1]
  BY <1>1
<1>5. none[0] = c
  BY <1>2 DEF IsRun
<1>6. more[n + 1] = Ticked(more[n])
  <2>1. n + 1 \in 0..(n + 1) /\ n + 1 # 0 /\ (n + 1) - 1 = n
    OBVIOUS
  <2> QED
    BY <1>4, <2>1 DEF IsRun
<1>7. more[n] = run[n]
  BY <1>3, <1>4, RunsAgree
<1> QED
  BY <1>2, <1>3, <1>4, <1>5, <1>6, <1>7

LEMMA LongerSince ==
    ASSUME NEW c, NEW d, NEW tick \in Instants, NEW overflows \in 0..(OverflowRange - 1),
           c.tick \in Instants, c.overflows \in 0..(OverflowRange - 1),
           NEW n \in Nat, NEW m \in Nat, n + m <= TickRange,
           Since(tick, overflows, c, n), Since(c.tick, c.overflows, d, m)
    PROVE  Since(tick, overflows, d, n + m)
<1>1. CASE tick + n + m < TickRange
  <2>1. c.tick = tick + n /\ c.overflows = overflows
    BY <1>1, ClockAssumption DEF Since, Instants
  <2> QED
    BY <1>1, <2>1, ClockAssumption DEF Since, Instants
<1>2. CASE tick + n < TickRange /\ tick + n + m >= TickRange
  <2>1. c.tick = tick + n /\ c.overflows = overflows
    BY <1>2, ClockAssumption DEF Since, Instants
  <2> QED
    BY <1>2, <2>1, ClockAssumption DEF Since, Instants
<1>3. CASE tick + n >= TickRange
  <2>1. c.tick = tick + n - TickRange /\ c.overflows = (overflows + 1) % OverflowRange
    BY <1>3, ClockAssumption DEF Since, Instants
  <2>2. c.tick + m < TickRange
    BY <2>1, ClockAssumption DEF Instants
  <2> QED
    BY <1>3, <2>1, <2>2, ClockAssumption DEF Since, Instants
<1> QED
  BY <1>1, <1>2, <1>3, ClockAssumption DEF Instants

LEMMA OneTickMore ==
    ASSUME NEW c, NEW d, NEW e, NEW n \in Nat, n < TickRange, ClockTyped(c), Delayed(c),
           Lasted(c, d, n), Lasted(d, e, 1)
    PROVE  Lasted(c, e, n + 1)
<1>1. /\ c.tick \in Instants /\ c.overflows \in 0..(OverflowRange - 1)
      /\ c.left \in [Tasks -> Nat] /\ c.wakeAt \in [Tasks -> Instants]
      /\ c.delayed \subseteq Tasks /\ c.overflow \subseteq Tasks
  BY DEF ClockTyped
<1>2. d.tick \in Instants /\ d.overflows \in 0..(OverflowRange - 1) /\ d.left \in [Tasks -> Nat]
  BY DEF ClockTyped, Lasted
<1>3. Since(c.tick, c.overflows, e, n + 1)
  <2>1. Since(c.tick, c.overflows, d, n) /\ Since(d.tick, d.overflows, e, 1)
    BY DEF Lasted
  <2>2. n + 1 <= TickRange /\ 1 \in Nat
    BY ClockAssumption
  <2> QED
    BY <1>1, <1>2, <2>1, <2>2, LongerSince
<1>4. ASSUME NEW t \in Tasks
      PROVE  /\ t \in Timed(e) <=> t \in Timed(c) /\ (n + 1 = 0 \/ Rest(c, t) > n + 1)
             /\ t \in Timed(e) => Rest(e, t) = Rest(c, t) - (n + 1)
             /\ \/ c.left[t] > n + 1 /\ e.left[t] = c.left[t] - (n + 1)
                \/ c.left[t] <= n + 1 /\ e.left[t] = 0
  <2>1. Rest(c, t) \in Int
    BY <1>1, ClockAssumption DEF Rest, Instants
  <2>2. /\ t \in Timed(d) <=> t \in Timed(c) /\ (n = 0 \/ Rest(c, t) > n)
        /\ t \in Timed(d) => Rest(d, t) = Rest(c, t) - n
        /\ \/ c.left[t] > n /\ d.left[t] = c.left[t] - n
           \/ c.left[t] <= n /\ d.left[t] = 0
    BY DEF Lasted
  <2>3. /\ t \in Timed(e) <=> t \in Timed(d) /\ Rest(d, t) > 1
        /\ t \in Timed(e) => Rest(e, t) = Rest(d, t) - 1
        /\ \/ d.left[t] > 1 /\ e.left[t] = d.left[t] - 1
           \/ d.left[t] <= 1 /\ e.left[t] = 0
    BY DEF Lasted
  <2>4. c.left[t] \in Nat
    BY <1>1
  <2>5. t \in Timed(e) <=> t \in Timed(c) /\ Rest(c, t) > n + 1
    BY <2>1, <2>2, <2>3
  <2>6. t \in Timed(e) => Rest(e, t) = Rest(c, t) - (n + 1)
    BY <2>1, <2>2, <2>3
  <2>7. \/ c.left[t] > n + 1 /\ e.left[t] = c.left[t] - (n + 1)
        \/ c.left[t] <= n + 1 /\ e.left[t] = 0
    BY <2>4, <2>2, <2>3
  <2> QED
    BY <2>5, <2>6, <2>7
<1> QED
  BY <1>3, <1>4 DEF Lasted

LEMMA TickedTimesLast ==
    ASSUME NEW c, ClockTyped(c), Delayed(c), NEW n \in Nat, n <= TickRange
    PROVE  Lasted(c, TickedTimes(c, n), n)
<1> DEFINE S == { m \in 0..n : ~Lasted(c, TickedTimes(c, m), m) }
<1> SUFFICES ASSUME S # {} PROVE FALSE
  OBVIOUS
<1>1. PICK m \in S : \A k \in S : m <= k
  <2> HIDE DEF S
  <2>1. S \subseteq Nat
    BY DEF S
  <2> QED
    BY <2>1, LeastNatural
<1>2. m \in 0..n /\ ~Lasted(c, TickedTimes(c, m), m)
  OBVIOUS
<1>3. m # 0
  <2>1. /\ c.tick \in Instants /\ c.left \in [Tasks -> Nat]
        /\ c.wakeAt \in [Tasks -> Instants]
        /\ c.delayed \subseteq Tasks /\ c.overflow \subseteq Tasks
    BY DEF ClockTyped
  <2>2. \A t \in Tasks : Rest(c, t) \in Int
    BY <2>1, ClockAssumption DEF Rest, Instants
  <2>3. Lasted(c, c, 0)
    BY <2>1, <2>2, ClockAssumption DEF Lasted, Since, Instants
  <2> QED
    BY <1>2, <2>3, TickedTimesIs
<1>4. m - 1 \in 0..n /\ m - 1 \notin S
  BY <1>1, <1>2, <1>3
<1>5. PICK d : d = TickedTimes(c, m - 1)
  OBVIOUS
<1>6. Lasted(c, d, m - 1)
  BY <1>4, <1>5
<1>7. TickedTimes(c, m) = Ticked(d)
  <2>1. m - 1 \in Nat /\ (m - 1) + 1 = m
    BY <1>2, <1>3
  <2> QED
    BY <1>5, <2>1, TickedTimesIs
<1>8. Lasted(d, Ticked(d), 1)
  BY <1>6, TickedIs DEF Lasted
<1>9. Lasted(c, Ticked(d), (m - 1) + 1)
  <2>1. m - 1 \in Nat /\ m - 1 < TickRange
    BY <1>2, <1>3, ClockAssumption
  <2>2. PICK k \in Nat : k = m - 1
    BY <2>1
  <2>3. Lasted(c, Ticked(d), k + 1)
    BY <1>6, <1>8, <2>1, <2>2, OneTickMore
  <2> QED
    BY <2>2, <2>3
<1>10. (m - 1) + 1 = m
  BY <1>2
<1> QED
  BY <1>2, <1>7, <1>9, <1>10

-------------------------------------------------------------------------------
\* What the calls do to the lists

LEMMA RemovedRight ==
    ASSUME NEW c, ClockTyped(c), Delayed(c), NEW tasks
    PROVE  LET r == Removed(c, tasks)
           IN  /\ ClockTyped(r) /\ Delayed(r)
               /\ r.tick = c.tick /\ r.overflows = c.overflows /\ r.left = c.left
               /\ r.forever = c.forever \ tasks /\ Timed(r) = Timed(c) \ tasks
               /\ \A t \in Timed(r) : Rest(r, t) = Rest(c, t)
<1> DEFINE r == Removed(c, tasks)
<1>1. /\ r.tick = c.tick /\ r.overflows = c.overflows /\ r.left = c.left
      /\ r.delayed = c.delayed \ tasks /\ r.overflow = c.overflow \ tasks
      /\ r.forever = c.forever \ tasks
      /\ r.wakeAt = [t \in Tasks |-> IF t \in tasks THEN 0 ELSE c.wakeAt[t]]
      /\ r.nextUnblock = c.nextUnblock
      /\ ClockTyped(r)
  BY RemovedIs
<1> HIDE DEF r
<1>2. c.delayed \subseteq Tasks /\ c.overflow \subseteq Tasks
  BY DEF ClockTyped
<1>3. Timed(r) = Timed(c) \ tasks
  BY <1>1 DEF Timed
<1>4. \A t \in Timed(r) : r.wakeAt[t] = c.wakeAt[t]
  BY <1>1, <1>2 DEF Timed
<1>5. Delayed(r)
  BY <1>1, <1>4 DEF Delayed, Timed
<1>6. \A t \in Timed(r) : Rest(r, t) = Rest(c, t)
  BY <1>1, <1>3, <1>4 DEF Rest
<1> QED
  BY <1>1, <1>3, <1>5, <1>6 DEF r

\* The scheduler goes on: tasks that were unblocked leave the lists, then the pended
\* ticks are counted.
LEMMA ResumeIs ==
    ASSUME ClockTyped(clk), Delayed(clk), xPendedTicks \in Nat, xPendedTicks <= TickRange,
           ResumeScheduler
    PROVE  \E r : /\ Lasted(r, clk', xPendedTicks)
                  /\ ClockTyped(r) /\ Delayed(r)
                  /\ r.tick = clk.tick /\ r.overflows = clk.overflows /\ r.left = clk.left
                  /\ r.forever = clk.forever \ xPendingReadyList
                  /\ Timed(r) = Timed(clk) \ xPendingReadyList
                  /\ \A t \in Timed(r) : Rest(r, t) = Rest(clk, t)
<1>1. PICK c : c = Removed(clk, xPendingReadyList)
  OBVIOUS
<1>2. /\ ClockTyped(c) /\ Delayed(c)
      /\ c.tick = clk.tick /\ c.overflows = clk.overflows /\ c.left = clk.left
      /\ c.forever = clk.forever \ xPendingReadyList
      /\ Timed(c) = Timed(clk) \ xPendingReadyList
      /\ \A t \in Timed(c) : Rest(c, t) = Rest(clk, t)
  BY <1>1, RemovedRight
<1>3. PICK r : r = IF xPendingReadyList = {} THEN c
                   ELSE [c EXCEPT !.nextUnblock = First(c.delayed, c.wakeAt)]
  OBVIOUS
<1>4. clk' = TickedTimes(r, xPendedTicks)
  BY <1>1, <1>3 DEF ResumeScheduler
<1>5. /\ First(c.delayed, c.wakeAt) \in Instants
      /\ \A t \in c.delayed : First(c.delayed, c.wakeAt) <= c.wakeAt[t]
  BY <1>2, FirstIs DEF ClockTyped
<1>6. /\ r.tick = c.tick /\ r.overflows = c.overflows /\ r.left = c.left
      /\ r.forever = c.forever /\ r.delayed = c.delayed /\ r.overflow = c.overflow
      /\ r.wakeAt = c.wakeAt
      /\ r.nextUnblock \in {c.nextUnblock, First(c.delayed, c.wakeAt)}
      /\ ClockTyped(r)
  BY <1>2, <1>3, <1>5 DEF ClockTyped
<1>7. Delayed(r)
  BY <1>2, <1>5, <1>6 DEF Delayed
<1>8. Lasted(r, clk', xPendedTicks)
  BY <1>4, <1>6, <1>7, TickedTimesLast
<1>9. Timed(r) = Timed(c) /\ \A t \in Timed(r) : Rest(r, t) = Rest(c, t)
  BY <1>6 DEF Timed, Rest
<1> QED
  BY <1>2, <1>6, <1>7, <1>8, <1>9

\* A task falls asleep for so many ticks.
Added(c, t, n) == AddToDelayedList(c, t, n, FALSE)

LEMMA AddIs ==
    ASSUME NEW c, ClockTyped(c), Delayed(c), NEW t \in Tasks, t \notin Asleep(c),
           NEW n \in Instants, n # 0 \/ c.tick = 0
    PROVE  LET d == Added(c, t, n)
           IN  /\ ClockTyped(d) /\ Delayed(d)
               /\ d.tick = c.tick /\ d.overflows = c.overflows /\ d.left = c.left
               /\ d.forever = c.forever /\ Timed(d) = Timed(c) \cup {t}
               /\ Rest(d, t) = n
               /\ \A u \in Timed(c) : Rest(d, u) = Rest(c, u)
<1>1. /\ c.tick \in Instants /\ c.overflows \in 0..(OverflowRange - 1)
      /\ c.delayed \subseteq Tasks /\ c.overflow \subseteq Tasks /\ c.forever \subseteq Tasks
      /\ c.wakeAt \in [Tasks -> Instants] /\ c.nextUnblock \in Instants
      /\ c.left \in [Tasks -> Nat]
  BY DEF ClockTyped
<1>2. PICK wake \in Instants :
           /\ wake = (c.tick + n) % TickRange
           /\ \/ c.tick + n < TickRange /\ wake = c.tick + n
              \/ c.tick + n >= TickRange /\ wake = c.tick + n - TickRange /\ wake < c.tick
  <2>1. (c.tick + n) % TickRange =
            IF c.tick + n < TickRange THEN c.tick + n ELSE c.tick + n - TickRange
    BY <1>1, ClockAssumption DEF Instants
  <2> QED
    BY <1>1, <2>1, ClockAssumption DEF Instants
<1>3. PICK at : at = [c.wakeAt EXCEPT ![t] = wake]
  OBVIOUS
<1>4. at \in [Tasks -> Instants] /\ at[t] = wake /\ \A u \in Tasks : u # t => at[u] = c.wakeAt[u]
  BY <1>1, <1>2, <1>3
<1>5. PICK d : d = Added(c, t, n)
  OBVIOUS
<1>6. PICK e : e = [c EXCEPT !.wakeAt = at]
  OBVIOUS
<1>7. e = [c EXCEPT !.wakeAt[t] = wake]
  BY <1>3, <1>6 DEF ClockTyped
<1>8. /\ ClockTyped(e) /\ e.tick = c.tick /\ e.overflows = c.overflows /\ e.left = c.left
      /\ e.forever = c.forever /\ e.delayed = c.delayed /\ e.overflow = c.overflow
      /\ e.wakeAt = at /\ e.nextUnblock = c.nextUnblock
  BY <1>4, <1>6 DEF ClockTyped
<1>9. t \notin c.delayed /\ t \notin c.overflow /\ t \notin c.forever
  BY DEF Asleep
<1>10. CASE wake < c.tick
  <2>1. d = [e EXCEPT !.overflow = e.overflow \cup {t}]
    BY <1>2, <1>5, <1>7, <1>10 DEF Added, AddToDelayedList
  <2>2. /\ ClockTyped(d) /\ d.tick = c.tick /\ d.overflows = c.overflows /\ d.left = c.left
        /\ d.forever = c.forever /\ d.delayed = c.delayed /\ d.overflow = c.overflow \cup {t}
        /\ d.wakeAt = at /\ d.nextUnblock = c.nextUnblock
    BY <1>8, <2>1 DEF ClockTyped
  <2>3. Delayed(d)
    BY <1>1, <1>4, <1>9, <1>10, <2>2 DEF Delayed
  <2>4. Rest(d, t) = n
    BY <1>1, <1>2, <1>4, <1>10, <2>2, ClockAssumption DEF Rest, Instants
  <2>5. \A u \in Timed(c) : Rest(d, u) = Rest(c, u)
    BY <1>1, <1>4, <1>9, <2>2 DEF Rest, Timed
  <2>6. Timed(d) = Timed(c) \cup {t}
    BY <2>2 DEF Timed
  <2> QED
    BY <1>5, <2>2, <2>3, <2>4, <2>5, <2>6
<1>11. CASE ~(wake < c.tick)
  <2>1. PICK next : next = IF wake < c.nextUnblock THEN wake ELSE c.nextUnblock
    OBVIOUS
  <2>2. next \in Instants /\ next <= wake /\ next <= c.nextUnblock
    BY <1>1, <1>2, <2>1 DEF Instants
  <2>3. d = [e EXCEPT !.delayed = e.delayed \cup {t}, !.nextUnblock = next]
    BY <1>2, <1>5, <1>7, <1>8, <1>11, <2>1 DEF Added, AddToDelayedList
  <2>4. /\ ClockTyped(d) /\ d.tick = c.tick /\ d.overflows = c.overflows /\ d.left = c.left
        /\ d.forever = c.forever /\ d.delayed = c.delayed \cup {t} /\ d.overflow = c.overflow
        /\ d.wakeAt = at /\ d.nextUnblock = next
    BY <1>8, <2>2, <2>3 DEF ClockTyped
  <2>5. c.tick + n < TickRange /\ wake = c.tick + n
    BY <1>2, <1>11
  <2>6. Delayed(d)
    <3>1. \A u \in d.delayed : d.nextUnblock <= d.wakeAt[u]
      BY <1>1, <1>4, <1>9, <2>2, <2>4 DEF Delayed, Instants
    <3>2. \A u \in d.delayed :
              d.tick < d.wakeAt[u] \/ (d.tick = 0 /\ d.wakeAt[u] = 0)
      BY <1>1, <1>4, <1>9, <2>4, <2>5 DEF Delayed, Instants
    <3> QED
      BY <1>1, <1>4, <1>9, <2>4, <3>1, <3>2 DEF Delayed
  <2>7. Rest(d, t) = n
    BY <1>1, <1>4, <1>9, <2>4, <2>5, ClockAssumption DEF Rest, Instants
  <2>8. \A u \in Timed(c) : Rest(d, u) = Rest(c, u)
    BY <1>1, <1>4, <1>9, <2>4 DEF Rest, Timed
  <2>9. Timed(d) = Timed(c) \cup {t}
    BY <2>4 DEF Timed
  <2> QED
    BY <1>5, <2>4, <2>6, <2>7, <2>8, <2>9
<1> QED
  BY <1>10, <1>11

-------------------------------------------------------------------------------
\* Those who delay and wait

ClockPlaces == {"idle", "suspend", "check", "add", "resume", "giveUp", "blocked"}

ClockTypes ==
    /\ ClockTyped(clk) /\ Delayed(clk) /\ clk.forever = {}
    /\ suspended \in Sleepers \cup {NoTask}
    /\ xPendingReadyList \subseteq Timed(clk)
    /\ xPendedTicks \in 0..MaxPended
    /\ suspended = NoTask => xPendingReadyList = {} /\ xPendedTicks = 0
    /\ pc \in [Tasks -> ClockPlaces]
    /\ job \in [Tasks -> [kind : {"none", "delay", "wait"}, ticks : Nat, overflows : Nat,
                          entered : Nat]]
    /\ late \in [Tasks -> Nat] /\ \A t \in Tasks : late[t] <= MaxLate[t]

\* Where those are who sleep, and how long they do.
SleeperOK(t) ==
    /\ suspended = t <=> pc[t] \in {"check", "add", "resume", "giveUp"}
    /\ t \in Timed(clk) => /\ pc[t] \in {"resume", "blocked"}
                           /\ clk.left[t] = Rest(clk, t) /\ clk.left[t] > 0
    /\ pc[t] = "resume" => t \in Timed(clk)
    /\ pc[t] = "idle" <=> job[t].kind = "none"
    /\ pc[t] \in {"check", "giveUp"} => job[t].kind = "wait"
    /\ t \in xPendingReadyList => job[t].kind = "wait"

\* A delay is counted from the moment it is begun.
DelayOK(t) ==
    job[t].kind = "delay" =>
        /\ job[t].ticks \in 1..(TickRange - 1)
        /\ pc[t] = "blocked" /\ t \notin Timed(clk) => clk.left[t] = 0

\* A wait lasts since the time noted; if that is over the task is late, by what it is counted
\* to be and the ticks that were pended.
WaitedFor(t, n) ==
    /\ Since(job[t].entered, job[t].overflows, clk, n)
    /\ \/ clk.left[t] > 0 /\ n + clk.left[t] = job[t].ticks
       \/ /\ clk.left[t] = 0 /\ job[t].ticks <= n
          /\ n - job[t].ticks + xPendedTicks <= MaxPended + late[t]

WaitOK(t) ==
    job[t].kind = "wait" =>
        /\ job[t].ticks \in 1..(TickRange - 2)
        /\ job[t].ticks + MaxPended + MaxLate[t] <= TickRange
        /\ job[t].entered \in Instants /\ job[t].overflows \in 0..(OverflowRange - 1)
        /\ pc[t] # "giveUp" => \E n \in 0..TickRange : WaitedFor(t, n)
        /\ pc[t] = "giveUp" => clk.left[t] = 0
        /\ pc[t] = "add" => clk.left[t] = job[t].ticks

ClockInv == ClockTypes /\ \A t \in Sleepers : SleeperOK(t) /\ DelayOK(t) /\ WaitOK(t)

\* Nobody is woken too late, nor gives up or goes on too early.
LEMMA InvIsExact == ClockInv => TimeIsExact
<1> SUFFICES ASSUME ClockInv, NEW t \in Sleepers
             PROVE  /\ t \in Asleep(clk) => clk.left[t] > 0
                    /\ pc[t] = "giveUp" => clk.left[t] = 0
                    /\ pc[t] = "blocked" /\ job[t].kind = "delay" /\ t \notin Asleep(clk)
                          => clk.left[t] = 0
  BY DEF TimeIsExact
<1>1. Asleep(clk) = Timed(clk)
  BY DEF ClockInv, ClockTypes, Asleep, Timed
<1> QED
  BY <1>1 DEF ClockInv, SleeperOK, DelayOK, WaitOK

\* Those whose own state and share of the clock stays as it is are as they were.
LEMMA SleeperKept ==
    ASSUME NEW t \in Sleepers, SleeperOK(t), DelayOK(t), WaitOK(t),
           pc'[t] = pc[t], job'[t] = job[t], late'[t] = late[t], xPendedTicks' = xPendedTicks,
           suspended' = t <=> suspended = t,
           t \in xPendingReadyList' => t \in xPendingReadyList,
           clk'.tick = clk.tick, clk'.overflows = clk.overflows,
           clk'.left[t] = clk.left[t], t \in Timed(clk') <=> t \in Timed(clk),
           t \in Timed(clk) => Rest(clk', t) = Rest(clk, t)
    PROVE  SleeperOK(t)' /\ DelayOK(t)' /\ WaitOK(t)'
<1>1. SleeperOK(t)'
  BY DEF SleeperOK
<1>2. DelayOK(t)'
  BY DEF DelayOK
<1>3. WaitOK(t)'
  BY DEF WaitOK, WaitedFor, Since
<1> QED
  BY <1>1, <1>2, <1>3

\* Some ticks pass, in the tick interrupt or when the scheduler goes on.
LEMMA TicksPass ==
    ASSUME ClockTypes, NEW t \in Sleepers, SleeperOK(t), DelayOK(t), WaitOK(t),
           NEW r, NEW n \in 0..TickRange, n <= MaxPended \/ n = 1,
           Lasted(r, clk', n), r.tick = clk.tick, r.overflows = clk.overflows,
           r.left = clk.left, t \in Timed(r) => t \in Timed(clk) /\ Rest(r, t) = Rest(clk, t),
           t \in Timed(clk) /\ t \notin Timed(r) => t \in xPendingReadyList,
           ClockTyped(r),
           xPendedTicks' = 0, job'[t] = job[t], pc[t] \in {"idle", "suspend", "resume", "blocked"},
           suspended' = NoTask, xPendingReadyList' = {},
           pc'[t] = IF pc[t] = "resume" THEN "blocked" ELSE pc[t],
           late'[t] \in Nat, late'[t] <= MaxLate[t],
           job[t].kind = "wait" /\ clk.left[t] = 0 => xPendedTicks + late'[t] >= n + late[t]
    PROVE  SleeperOK(t)' /\ DelayOK(t)' /\ WaitOK(t)'
<1>1. \/ clk.left[t] > n /\ clk'.left[t] = clk.left[t] - n
      \/ clk.left[t] <= n /\ clk'.left[t] = 0
  BY TasksAssumption, ClockAssumption DEF Lasted
<1>2. /\ t \in Timed(clk') <=> t \in Timed(r) /\ (n = 0 \/ Rest(r, t) > n)
      /\ t \in Timed(clk') => Rest(clk', t) = Rest(r, t) - n
  BY ClockAssumption DEF Lasted
<1>3. /\ clk.left[t] \in Nat /\ clk'.left[t] \in Nat /\ MaxPended \in Nat
      /\ t \in Tasks /\ late[t] \in Nat /\ MaxLate[t] \in Nat /\ xPendedTicks \in Nat
      /\ t # NoTask /\ n \in Nat
      /\ clk.tick \in Instants /\ clk.overflows \in 0..(OverflowRange - 1)
  BY TasksAssumption, ClockAssumption DEF ClockTypes, ClockTyped, Lasted
<1>4. SleeperOK(t)'
  <2>1. t \in Timed(clk') => clk'.left[t] = Rest(clk', t) /\ clk'.left[t] > 0
    BY <1>1, <1>2, <1>3 DEF SleeperOK
  <2> QED
    BY <1>2, <1>3, <2>1 DEF SleeperOK
<1>5. DelayOK(t)'
  <2> SUFFICES ASSUME job[t].kind = "delay", pc'[t] = "blocked", t \notin Timed(clk')
               PROVE  clk'.left[t] = 0
    BY DEF DelayOK
  <2>1. CASE t \in Timed(clk)
    <3>1. t \in Timed(r) /\ ~(n = 0 \/ Rest(r, t) > n) /\ clk.left[t] = Rest(r, t)
      BY <1>2, <2>1 DEF SleeperOK
    <3> QED
      BY <1>1, <1>3, <3>1
  <2>2. CASE t \notin Timed(clk)
    <3>1. clk.left[t] = 0
      BY <2>2 DEF SleeperOK, DelayOK
    <3> QED
      BY <1>1, <1>3, <3>1
  <2> QED
    BY <2>1, <2>2
<1>6. WaitOK(t)'
  <2> SUFFICES ASSUME job[t].kind = "wait"
               PROVE  \E m \in 0..TickRange : WaitedFor(t, m)'
    BY DEF WaitOK
  <2>1. /\ job[t].ticks \in 1..(TickRange - 2)
        /\ job[t].ticks + MaxPended + MaxLate[t] <= TickRange
        /\ job[t].entered \in Instants /\ job[t].overflows \in 0..(OverflowRange - 1)
    BY DEF WaitOK
  <2>2. PICK m \in 0..TickRange : WaitedFor(t, m)
    BY DEF WaitOK
  <2>3. m \in Nat /\ job[t].ticks \in Nat /\ TickRange \in Nat
    BY <2>1, <2>2, ClockAssumption
  <2>4. m + n <= TickRange
    <3>1. CASE clk.left[t] > 0
      BY <1>3, <2>1, <2>2, <2>3, <3>1 DEF WaitedFor
    <3>2. CASE clk.left[t] = 0
      BY <1>3, <2>1, <2>2, <2>3, <3>2 DEF WaitedFor
    <3> QED
      BY <1>3, <3>1, <3>2
  <2>5. Since(job[t].entered, job[t].overflows, clk', m + n)
    <3>1. Since(job[t].entered, job[t].overflows, clk, m)
      BY <2>2 DEF WaitedFor
    <3>2. Since(clk.tick, clk.overflows, clk', n)
      BY DEF Lasted
    <3> QED
      BY <1>3, <2>1, <2>3, <2>4, <3>1, <3>2, LongerSince
  <2>6. \/ clk'.left[t] > 0 /\ (m + n) + clk'.left[t] = job[t].ticks
        \/ /\ clk'.left[t] = 0 /\ job[t].ticks <= m + n
           /\ (m + n) - job[t].ticks + 0 <= MaxPended + late'[t]
    <3>1. CASE clk.left[t] > n
      BY <1>1, <1>3, <2>2, <2>3, <3>1 DEF WaitedFor
    <3>2. CASE clk.left[t] > 0 /\ clk.left[t] <= n
      BY <1>1, <1>3, <2>2, <2>3, <3>2 DEF WaitedFor
    <3>3. CASE clk.left[t] = 0
      BY <1>1, <1>3, <2>2, <2>3, <3>3 DEF WaitedFor
    <3> QED
      BY <1>3, <3>1, <3>2, <3>3
  <2>7. m + n \in 0..TickRange
    BY <1>3, <2>3, <2>4
  <2> QED
    BY <2>5, <2>6, <2>7 DEF WaitedFor
<1> QED
  BY <1>4, <1>5, <1>6

LEMMA ClockStarts == ClockInit => ClockInv
<1> SUFFICES ASSUME ClockInit PROVE ClockInv
  OBVIOUS
<1>1. ClockTypes
  BY ClockAssumption DEF ClockInit, TasksInit, ClockStart, ClockTypes, ClockTyped, Delayed,
     Timed, Instants, Idle, ClockPlaces, portMAX_DELAY, NoJob
<1>2. ASSUME NEW t \in Sleepers
      PROVE  SleeperOK(t) /\ DelayOK(t) /\ WaitOK(t)
  BY ClockAssumption, TasksAssumption DEF ClockInit, TasksInit, ClockStart, SleeperOK, DelayOK,
     WaitOK, Timed, Idle, NoJob
<1> QED
  BY <1>1, <1>2 DEF ClockInv

\* The tick interrupt: those who are ready are one tick later.
LEMMA IncrementTickStep == ClockParameters /\ ClockInv /\ IncrementTick => ClockInv'
<1> SUFFICES ASSUME ClockParameters, ClockInv, IncrementTick PROVE ClockInv'
  OBVIOUS
<1> USE DEF ClockInv
<1>1. /\ \A t \in Tasks : late[t] < MaxLate[t] /\ late[t] \in Nat /\ MaxLate[t] \in Nat
      /\ late' = Later(clk') /\ MaxPended \in Nat
      /\ UNCHANGED <<suspended, xPendingReadyList, pc, job>>
  BY ClockAssumption DEF IncrementTick, ClockTypes
<1>2. /\ late' \in [Tasks -> Nat] /\ \A t \in Tasks : late'[t] <= MaxLate[t]
      /\ \A t \in Tasks : t \notin Asleep(clk') /\ pc[t] # "idle" => late'[t] = late[t] + 1
  BY <1>1 DEF Later
<1>3. CASE suspended = NoTask
  <2>1. clk' = Ticked(clk) /\ xPendedTicks' = 0 /\ xPendedTicks = 0 /\ xPendingReadyList = {}
    BY <1>3 DEF IncrementTick, ClockTypes
  <2>2. Lasted(clk, clk', 1)
    BY <2>1, TickedIs DEF ClockTypes
  <2>3. ClockTypes'
    BY <1>1, <1>2, <1>3, <2>1, <2>2 DEF ClockTypes, Lasted
  <2>4. ASSUME NEW t \in Sleepers
        PROVE  SleeperOK(t)' /\ DelayOK(t)' /\ WaitOK(t)'
    <3>1. t \in Tasks /\ t # NoTask /\ 1 \in 0..TickRange
      BY ClockAssumption, TasksAssumption
    <3>2. pc[t] \in {"idle", "suspend", "blocked"} /\ ClockTyped(clk)
      BY <1>3, <3>1 DEF SleeperOK, ClockTypes, ClockPlaces
    <3>3. job[t].kind = "wait" /\ clk.left[t] = 0 => late'[t] = late[t] + 1
      <4> SUFFICES ASSUME job[t].kind = "wait", clk.left[t] = 0 PROVE late'[t] = late[t] + 1
        OBVIOUS
      <4>1. t \notin Timed(clk) /\ pc[t] # "idle"
        BY <3>1 DEF SleeperOK, ClockTypes, ClockTyped
      <4>2. t \notin Timed(clk')
        BY <2>2, <3>1, <4>1 DEF Lasted
      <4>3. t \notin Asleep(clk')
        BY <2>2, <4>2 DEF Lasted, Asleep, Timed, ClockTypes
      <4> QED
        BY <1>2, <3>1, <4>1, <4>3
    <3>4. late'[t] \in Nat /\ late'[t] <= MaxLate[t] /\ late[t] \in Nat
      BY <1>1, <1>2, <3>1
    <3>5. xPendedTicks + late'[t] >= 1 + late[t] \/ ~(job[t].kind = "wait" /\ clk.left[t] = 0)
      BY <2>1, <3>3, <3>4
    <3>6. /\ job'[t] = job[t] /\ suspended' = NoTask /\ xPendingReadyList' = {}
          /\ pc'[t] = IF pc[t] = "resume" THEN "blocked" ELSE pc[t]
      BY <1>1, <1>3, <2>1, <3>2
    <3> QED
      BY <2>1, <2>2, <3>1, <3>2, <3>4, <3>5, <3>6, TicksPass
  <2> QED
    BY <2>3, <2>4
<1>4. CASE suspended # NoTask
  <2>1. xPendedTicks < MaxPended /\ xPendedTicks' = xPendedTicks + 1 /\ clk' = clk
    BY <1>4 DEF IncrementTick
  <2>2. ClockTypes'
    BY <1>1, <1>2, <1>4, <2>1 DEF ClockTypes, Timed
  <2>3. ASSUME NEW t \in Sleepers
        PROVE  SleeperOK(t)' /\ DelayOK(t)' /\ WaitOK(t)'
    <3>1. t \in Tasks
      BY ClockAssumption
    <3>2. SleeperOK(t)' /\ DelayOK(t)'
      BY <1>1, <2>1 DEF SleeperOK, DelayOK, Timed, Rest
    <3>3. WaitOK(t)'
      <4> SUFFICES ASSUME job[t].kind = "wait", pc[t] # "giveUp"
                   PROVE  \E n \in 0..TickRange : WaitedFor(t, n)'
        BY <1>1, <2>1 DEF WaitOK
      <4>1. PICK n \in 0..TickRange : WaitedFor(t, n)
        BY DEF WaitOK
      <4>2. clk.left[t] = 0 => late'[t] = late[t] + 1
        <5> SUFFICES ASSUME clk.left[t] = 0 PROVE late'[t] = late[t] + 1
          OBVIOUS
        <5>1. t \notin Timed(clk) /\ pc[t] # "idle"
          BY <3>1 DEF SleeperOK
        <5>2. t \notin Asleep(clk')
          BY <2>1, <5>1 DEF Asleep, Timed, ClockTypes
        <5> QED
          BY <1>2, <3>1, <5>1, <5>2
      <4>3. /\ xPendedTicks \in Nat /\ late[t] \in Nat /\ job[t].ticks \in Nat
            /\ MaxPended \in Nat
        BY <1>1, <3>1 DEF ClockTypes
      <4>4. WaitedFor(t, n)'
        BY <1>1, <2>1, <4>1, <4>2, <4>3 DEF WaitedFor, Since
      <4> QED
        BY <4>1, <4>4
    <3> QED
      BY <3>2, <3>3
  <2> QED
    BY <2>2, <2>3
<1> QED
  BY <1>3, <1>4

\* xTaskResumeAll.
LEMMA ResumeAfterStep ==
    ASSUME ClockParameters, ClockInv, NEW t \in Sleepers, ResumeAfter(t)
    PROVE  ClockInv'
<1> USE DEF ClockInv
<1>1. /\ t \in Tasks /\ t # NoTask /\ pc[t] \in {"resume", "giveUp"} /\ suspended = t
      /\ suspended' = NoTask /\ xPendingReadyList' = {} /\ xPendedTicks' = 0
      /\ late' = [late EXCEPT ![t] = 0]
      /\ \/ pc[t] = "resume" /\ pc' = [pc EXCEPT ![t] = "blocked"] /\ job' = job
         \/ /\ pc[t] = "giveUp" /\ pc' = [pc EXCEPT ![t] = "idle"]
            /\ job' = [job EXCEPT ![t] = NoJob]
  BY ClockAssumption, TasksAssumption DEF ResumeAfter, ResumeScheduler, Go
<1>2. PICK n : n = xPendedTicks
  OBVIOUS
<1>3. n \in 0..TickRange /\ n <= MaxPended /\ n \in Nat /\ n <= TickRange
  BY <1>2, ClockAssumption DEF ClockTypes, ClockParameters
<1>4. PICK r : /\ Lasted(r, clk', n)
               /\ ClockTyped(r) /\ Delayed(r)
               /\ r.tick = clk.tick /\ r.overflows = clk.overflows /\ r.left = clk.left
               /\ r.forever = clk.forever \ xPendingReadyList
               /\ Timed(r) = Timed(clk) \ xPendingReadyList
               /\ \A u \in Timed(r) : Rest(r, u) = Rest(clk, u)
  <2>1. ResumeScheduler /\ xPendedTicks \in Nat /\ xPendedTicks <= TickRange
    BY <1>2, <1>3 DEF ResumeAfter
  <2> QED
    BY <1>2, <2>1, ResumeIs DEF ClockTypes
<1>5. /\ pc' \in [Tasks -> ClockPlaces] /\ late' \in [Tasks -> Nat]
      /\ \A u \in Tasks : late'[u] <= MaxLate[u]
      /\ job' \in [Tasks -> [kind : {"none", "delay", "wait"}, ticks : Nat, overflows : Nat,
                             entered : Nat]]
  <2>1. pc' \in [Tasks -> ClockPlaces]
    BY <1>1 DEF ClockTypes, ClockPlaces
  <2>2. late' \in [Tasks -> Nat] /\ \A u \in Tasks : late'[u] <= MaxLate[u]
    <3>1. late \in [Tasks -> Nat] /\ MaxLate \in [Tasks -> Nat]
      BY ClockAssumption DEF ClockTypes
    <3>2. \A u \in Tasks : late'[u] = IF u = t THEN 0 ELSE late[u]
      BY <1>1, <3>1
    <3> QED
      BY <1>1, <3>1, <3>2 DEF ClockTypes
  <2>3. NoJob \in [kind : {"none", "delay", "wait"}, ticks : Nat, overflows : Nat, entered : Nat]
    BY DEF NoJob
  <2>4. job' \in [Tasks -> [kind : {"none", "delay", "wait"}, ticks : Nat, overflows : Nat,
                             entered : Nat]]
    BY <1>1, <2>3 DEF ClockTypes
  <2> QED
    BY <2>1, <2>2, <2>4
<1>6. ClockTypes'
  <2>1. ClockTyped(clk') /\ Delayed(clk') /\ clk'.forever = {}
    BY <1>4 DEF Lasted, ClockTypes
  <2>2. xPendedTicks' \in 0..MaxPended
    BY <1>1, ClockAssumption
  <2> QED
    BY <1>1, <1>5, <2>1, <2>2 DEF ClockTypes
<1>7. ASSUME NEW u \in Sleepers
      PROVE  SleeperOK(u)' /\ DelayOK(u)' /\ WaitOK(u)'
  <2>1. u \in Tasks /\ u # NoTask
    BY ClockAssumption, TasksAssumption
  <2>2. CASE u = t /\ pc[t] = "giveUp"
    <3>1. pc'[u] = "idle" /\ job'[u].kind = "none"
      BY <1>1, <2>2 DEF ClockTypes, NoJob
    <3>2. u \notin Timed(clk')
      BY <1>4, <2>1, <2>2 DEF Lasted, SleeperOK
    <3> QED
      BY <1>1, <2>1, <3>1, <3>2 DEF SleeperOK, DelayOK, WaitOK
  <2>3. CASE ~(u = t /\ pc[t] = "giveUp")
    <3>1. pc[u] \in {"idle", "suspend", "resume", "blocked"}
      BY <1>1, <2>1, <2>3 DEF SleeperOK, ClockTypes, ClockPlaces
    <3>2. u # t => pc[u] # "resume"
      BY <1>1, <2>1 DEF SleeperOK
    <3>3. job'[u] = job[u] /\ pc'[u] = IF pc[u] = "resume" THEN "blocked" ELSE pc[u]
      BY <1>1, <2>1, <2>3, <3>1, <3>2 DEF ClockTypes
    <3>4. job[u].kind = "wait" /\ clk.left[u] = 0 => u # t
      BY <1>1, <2>1, <2>3 DEF SleeperOK
    <3>5. /\ late'[u] \in Nat /\ late'[u] <= MaxLate[u]
          /\ (u # t => late'[u] = late[u]) /\ late[u] \in Nat
      BY <1>1, <1>5, <2>1 DEF ClockTypes
    <3>6. job[u].kind = "wait" /\ clk.left[u] = 0 => xPendedTicks + late'[u] >= n + late[u]
      BY <1>2, <1>3, <3>4, <3>5
    <3>7. /\ u \in Timed(r) => u \in Timed(clk) /\ Rest(r, u) = Rest(clk, u)
          /\ u \in Timed(clk) /\ u \notin Timed(r) => u \in xPendingReadyList
      BY <1>4
    <3> QED
      BY <1>1, <1>3, <1>4, <3>1, <3>3, <3>5, <3>6, <3>7, TicksPass
  <2> QED
    BY <2>2, <2>3
<1> QED
  BY <1>6, <1>7

\* A task begins to delay or to wait.
LEMMA StartJobStep ==
    ASSUME ClockParameters, ClockInv, NEW t \in Sleepers, StartJob(t)
    PROVE  ClockInv'
<1> USE DEF ClockInv
<1>1. PICK kind \in {"delay", "wait"}, n \in Delays \cup Timeouts :
         /\ kind = "delay" => n \in Delays
         /\ kind = "wait" => n \in Timeouts
         /\ job' = [job EXCEPT ![t] =
                      IF kind = "delay" THEN [NoJob EXCEPT !.kind = kind, !.ticks = n]
                      ELSE [kind |-> kind, ticks |-> n, entered |-> clk.tick,
                            overflows |-> clk.overflows]]
         /\ clk' = [clk EXCEPT !.left[t] = n]
  BY DEF StartJob
<1>2. /\ t \in Tasks /\ t # NoTask /\ pc[t] = "idle" /\ suspended = NoTask
      /\ t \notin Timed(clk) /\ pc' = [pc EXCEPT ![t] = "suspend"]
      /\ UNCHANGED <<suspended, xPendingReadyList, xPendedTicks, late>>
  BY ClockAssumption, TasksAssumption DEF StartJob, ClockAt, ClockRuns, Asleep, Timed, Go
<1>3. n \in Nat /\ n >= 1
  BY <1>1, ClockAssumption
<1>4. PICK left : left = [clk.left EXCEPT ![t] = n]
  OBVIOUS
<1>5. /\ left \in [Tasks -> Nat] /\ left[t] = n
      /\ \A u \in Tasks : u # t => left[u] = clk.left[u]
  BY <1>2, <1>3, <1>4 DEF ClockTypes, ClockTyped
<1>6. clk' = [clk EXCEPT !.left = left]
  BY <1>1, <1>4 DEF ClockTypes, ClockTyped
<1>7. /\ ClockTyped(clk') /\ clk'.tick = clk.tick /\ clk'.overflows = clk.overflows
      /\ clk'.left = left /\ clk'.delayed = clk.delayed /\ clk'.overflow = clk.overflow
      /\ clk'.forever = clk.forever /\ clk'.wakeAt = clk.wakeAt
      /\ clk'.nextUnblock = clk.nextUnblock
  BY <1>5, <1>6 DEF ClockTypes, ClockTyped
<1>8. Delayed(clk') /\ Timed(clk') = Timed(clk) /\ \A u \in Timed(clk) : Rest(clk', u) = Rest(clk, u)
  BY <1>7 DEF ClockTypes, Delayed, Timed, Rest
<1>9. /\ job'[t].kind = kind /\ job'[t].ticks = n
      /\ kind = "wait" => job'[t].entered = clk.tick /\ job'[t].overflows = clk.overflows
      /\ \A u \in Tasks : u # t => job'[u] = job[u]
      /\ job' \in [Tasks -> [kind : {"none", "delay", "wait"}, ticks : Nat, overflows : Nat,
                             entered : Nat]]
  <2>1. clk.tick \in Nat /\ clk.overflows \in Nat
    BY DEF ClockTypes, ClockTyped, Instants
  <2>2. CASE kind = "delay"
    <3>1. PICK j : j = [NoJob EXCEPT !.kind = "delay", !.ticks = n]
      OBVIOUS
    <3>2. /\ j \in [kind : {"none", "delay", "wait"}, ticks : Nat, overflows : Nat, entered : Nat]
          /\ j.kind = "delay" /\ j.ticks = n
      BY <1>3, <3>1 DEF NoJob
    <3>3. job' = [job EXCEPT ![t] = j]
      BY <1>1, <2>2, <3>1
    <3> QED
      BY <1>2, <2>2, <3>2, <3>3 DEF ClockTypes
  <2>3. CASE kind = "wait"
    <3>1. job' = [job EXCEPT ![t] = [kind |-> "wait", ticks |-> n, overflows |-> clk.overflows,
                                     entered |-> clk.tick]]
      BY <1>1, <2>3
    <3> QED
      BY <1>2, <1>3, <2>1, <2>3, <3>1 DEF ClockTypes
  <2> QED
    BY <1>1, <2>2, <2>3
<1>10. ClockTypes'
  <2>1. pc' \in [Tasks -> ClockPlaces]
    BY <1>2 DEF ClockTypes, ClockPlaces
  <2> QED
    BY <1>2, <1>7, <1>8, <1>9, <2>1 DEF ClockTypes
<1>11. SleeperOK(t)' /\ DelayOK(t)' /\ WaitOK(t)'
  <2>1. pc'[t] = "suspend" /\ xPendingReadyList = {}
    BY <1>2 DEF ClockTypes
  <2>2. SleeperOK(t)'
    BY <1>1, <1>2, <1>8, <1>9, <2>1 DEF SleeperOK
  <2>3. DelayOK(t)'
    BY <1>1, <1>9, <2>1, ClockAssumption DEF DelayOK
  <2>4. WaitOK(t)'
    <3> SUFFICES ASSUME kind = "wait"
                 PROVE  WaitOK(t)'
      BY <1>1, <1>9 DEF WaitOK
    <3>1. n \in 1..(TickRange - 2) /\ n + MaxPended + MaxLate[t] <= TickRange
      BY <1>1, ClockAssumption DEF ClockParameters
    <3>2. clk.tick \in Instants /\ clk.overflows \in 0..(OverflowRange - 1)
      BY DEF ClockTypes, ClockTyped
    <3>3. WaitedFor(t, 0)'
      <4>1. Since(clk.tick, clk.overflows, clk', 0)
        BY <1>7, <3>2, ClockAssumption DEF Since, Instants
      <4> QED
        BY <1>3, <1>5, <1>7, <1>9, <4>1 DEF WaitedFor
    <3>4. 0 \in 0..TickRange
      BY ClockAssumption
    <3> QED
      BY <1>7, <1>9, <2>1, <3>1, <3>2, <3>3, <3>4 DEF WaitOK
  <2> QED
    BY <2>2, <2>3, <2>4
<1>12. ASSUME NEW u \in Sleepers, u # t
       PROVE  SleeperOK(u)' /\ DelayOK(u)' /\ WaitOK(u)'
  <2>1. u \in Tasks
    BY ClockAssumption
  <2>2. pc'[u] = pc[u] /\ job'[u] = job[u] /\ clk'.left[u] = clk.left[u]
    BY <1>2, <1>5, <1>7, <1>9, <1>12, <2>1 DEF ClockTypes
  <2> QED
    BY <1>2, <1>7, <1>8, <2>2, SleeperKept
<1> QED
  BY <1>10, <1>11, <1>12

LEMMA SuspendSchedulerStep ==
    ASSUME ClockParameters, ClockInv, NEW t \in Sleepers, SuspendScheduler(t)
    PROVE  ClockInv'
<1> USE DEF ClockInv
<1>1. /\ t \in Tasks /\ t # NoTask /\ pc[t] = "suspend" /\ suspended = NoTask /\ suspended' = t
      /\ t \notin Timed(clk)
      /\ pc' = [pc EXCEPT ![t] = IF job[t].kind = "delay" THEN "add" ELSE "check"]
      /\ UNCHANGED <<xPendingReadyList, clk, xPendedTicks, job, late>>
  BY ClockAssumption, TasksAssumption
  DEF SuspendScheduler, ClockAt, ClockRuns, Asleep, Timed, Go, clockVars
<1>2. ClockTypes'
  <2>1. pc' \in [Tasks -> ClockPlaces]
    BY <1>1 DEF ClockTypes, ClockPlaces
  <2> QED
    BY <1>1, <2>1 DEF ClockTypes, Timed
<1>3. SleeperOK(t)' /\ DelayOK(t)' /\ WaitOK(t)'
  <2>1. /\ pc'[t] = IF job[t].kind = "delay" THEN "add" ELSE "check"
        /\ job[t].kind \in {"delay", "wait"}
    BY <1>1 DEF ClockTypes, SleeperOK
  <2>2. SleeperOK(t)'
    BY <1>1, <2>1 DEF SleeperOK, Timed, Rest
  <2>3. DelayOK(t)'
    BY <1>1, <2>1 DEF DelayOK, Timed
  <2>4. WaitOK(t)'
    BY <1>1, <2>1 DEF WaitOK, WaitedFor, Since
  <2> QED
    BY <2>2, <2>3, <2>4
<1>4. ASSUME NEW u \in Sleepers, u # t
      PROVE  SleeperOK(u)' /\ DelayOK(u)' /\ WaitOK(u)'
  <2>1. u \in Tasks /\ u # NoTask
    BY ClockAssumption, TasksAssumption
  <2>2. pc'[u] = pc[u] /\ (suspended' = u <=> suspended = u)
    BY <1>1, <1>4, <2>1 DEF ClockTypes
  <2> QED
    BY <1>1, <2>2, SleeperKept DEF Timed, Rest
<1> QED
  BY <1>2, <1>3, <1>4

\* A task that waits finds the time over exactly when it is.
LEMMA TimedOutIsRight ==
    ASSUME ClockInv, NEW t \in Sleepers, pc[t] = "check"
    PROVE  /\ TimedOut(t) <=> clk.left[t] = 0
           /\ ~TimedOut(t) => job[t].ticks - Elapsed(t) = clk.left[t]
<1> USE DEF ClockInv
<1>1. /\ job[t].ticks \in 1..(TickRange - 2)
      /\ job[t].entered \in Instants /\ job[t].overflows \in 0..(OverflowRange - 1)
      /\ clk.left[t] \in Nat /\ clk.tick \in Instants
  <2>1. t \in Tasks /\ job[t].kind = "wait"
    BY ClockAssumption DEF SleeperOK
  <2> QED
    BY <2>1 DEF WaitOK, ClockTypes, ClockTyped
<1>2. PICK n \in 0..TickRange : WaitedFor(t, n)
  BY DEF SleeperOK, WaitOK
<1>3. TickRange \in Nat \ 0..1 /\ OverflowRange \in Nat \ 0..1
  BY ClockAssumption
<1>4. PICK o \in Nat : o = (job[t].overflows + 1) % OverflowRange /\ o # job[t].overflows
  <2>1. CASE job[t].overflows + 1 < OverflowRange
    <3>1. (job[t].overflows + 1) % OverflowRange = job[t].overflows + 1
      BY <1>1, <1>3, <2>1
    <3> QED
      BY <1>1, <3>1
  <2>2. CASE job[t].overflows + 1 = OverflowRange
    <3>1. (job[t].overflows + 1) % OverflowRange = 0
      BY <1>1, <1>3, <2>2
    <3> QED
      BY <1>1, <1>3, <2>2, <3>1
  <2> QED
    BY <1>1, <1>3, <2>1, <2>2
<1>5. CASE n < TickRange
  <2>1. CASE job[t].entered + n < TickRange
    <3>1. clk.tick = job[t].entered + n /\ clk.overflows = job[t].overflows
      BY <1>1, <1>2, <1>3, <2>1 DEF WaitedFor, Since, Instants
    <3>2. Elapsed(t) = n
      <4>1. n \in 0..(TickRange - 1) /\ TickRange \in Nat \ {0}
        BY <1>2, <1>3, <1>5
      <4>2. n % TickRange = n
        BY ONLY <4>1
      <4>3. clk.tick - job[t].entered = n
        BY <1>1, <1>2, <1>3, <3>1 DEF Instants
      <4> QED
        BY <4>2, <4>3 DEF Elapsed
    <3> QED
      BY <1>1, <1>2, <3>1, <3>2 DEF TimedOut, WaitedFor
  <2>2. CASE job[t].entered + n >= TickRange
    <3>1. clk.tick = job[t].entered + n - TickRange
      BY <1>1, <1>2, <1>3, <2>2 DEF WaitedFor, Since, Instants
    <3>2. clk.tick < job[t].entered
      BY <1>1, <1>2, <1>3, <1>5, <3>1 DEF Instants
    <3>3. (n - TickRange) % TickRange = n
      BY <1>2, <1>3, <1>5
    <3>4. Elapsed(t) = n
      <4>1. clk.tick - job[t].entered = n - TickRange
        BY <1>1, <1>2, <1>3, <3>1 DEF Instants
      <4> QED
        BY <3>3, <4>1 DEF Elapsed
    <3> QED
      BY <1>1, <1>2, <3>2, <3>4 DEF TimedOut, WaitedFor, Instants
  <2> QED
    BY <1>1, <1>2, <1>3, <2>1, <2>2 DEF Instants
<1>6. CASE n = TickRange
  <2>1. clk.tick = job[t].entered /\ clk.overflows = o
    BY <1>1, <1>2, <1>3, <1>4, <1>6 DEF WaitedFor, Since, Instants
  <2>2. TimedOut(t)
    BY <1>1, <1>4, <2>1 DEF TimedOut, Instants
  <2>3. clk.left[t] = 0
    BY <1>1, <1>2, <1>3, <1>6 DEF WaitedFor
  <2> QED
    BY <2>2, <2>3
<1> QED
  BY <1>2, <1>3, <1>5, <1>6

\* xTaskCheckForTimeOut.
LEMMA CheckForTimeOutStep ==
    ASSUME ClockParameters, ClockInv, NEW t \in Sleepers, CheckForTimeOut(t)
    PROVE  ClockInv'
<1> USE DEF ClockInv
<1>1. /\ t \in Tasks /\ t # NoTask /\ pc[t] = "check" /\ t \notin Timed(clk)
      /\ suspended = t /\ job[t].kind = "wait"
      /\ UNCHANGED <<suspended, xPendingReadyList, clk, xPendedTicks, late>>
  BY ClockAssumption, TasksAssumption
  DEF CheckForTimeOut, ClockAt, ClockRuns, Asleep, Timed, SleeperOK
<1>2. ASSUME NEW u \in Sleepers, u # t
      PROVE  SleeperOK(u)' /\ DelayOK(u)' /\ WaitOK(u)'
  <2>1. u \in Tasks
    BY ClockAssumption
  <2>2. pc'[u] = pc[u] /\ job'[u] = job[u]
    BY <1>1, <1>2, <2>1 DEF ClockTypes, CheckForTimeOut, Go
  <2> QED
    BY <1>1, <2>2, SleeperKept DEF Timed, Rest
<1>3. /\ TimedOut(t) <=> clk.left[t] = 0
      /\ ~TimedOut(t) => job[t].ticks - Elapsed(t) = clk.left[t]
  BY <1>1, TimedOutIsRight
<1>4. CASE TimedOut(t)
  <2>1. pc' = [pc EXCEPT ![t] = "giveUp"] /\ job' = job
    BY <1>4 DEF CheckForTimeOut, Go
  <2>2. ClockTypes'
    <3>1. pc' \in [Tasks -> ClockPlaces]
      BY <2>1 DEF ClockTypes, ClockPlaces
    <3> QED
      BY <1>1, <2>1, <3>1 DEF ClockTypes, Timed
  <2>3. pc'[t] = "giveUp"
    BY <1>1, <2>1 DEF ClockTypes
  <2>4. SleeperOK(t)' /\ DelayOK(t)' /\ WaitOK(t)'
    BY <1>1, <1>3, <1>4, <2>1, <2>3 DEF SleeperOK, DelayOK, WaitOK, Timed
  <2> QED
    BY <1>2, <2>2, <2>4
<1>5. CASE ~TimedOut(t)
  <2>1. PICK j : j = [job[t] EXCEPT !.ticks = clk.left[t], !.overflows = clk.overflows,
                                    !.entered = clk.tick]
    OBVIOUS
  <2>2. pc' = [pc EXCEPT ![t] = "add"] /\ job' = [job EXCEPT ![t] = j]
    <3>1. job' = [job EXCEPT ![t].ticks = job[t].ticks - Elapsed(t),
                             ![t].overflows = clk.overflows, ![t].entered = clk.tick]
      BY <1>1, <1>5 DEF CheckForTimeOut, ClockTypes
    <3> QED
      BY <1>1, <1>3, <1>5, <2>1, <3>1 DEF CheckForTimeOut, ClockTypes, Go
  <2>3. /\ clk.left[t] \in Nat /\ clk.left[t] > 0
        /\ clk.tick \in Instants /\ clk.overflows \in 0..(OverflowRange - 1)
        /\ clk.left[t] <= job[t].ticks /\ job[t].ticks \in 1..(TickRange - 2)
        /\ job[t].ticks + MaxPended + MaxLate[t] <= TickRange
        /\ MaxPended \in Nat /\ MaxLate[t] \in Nat
    <3>1. /\ clk.left[t] \in Nat /\ clk.tick \in Instants
          /\ clk.overflows \in 0..(OverflowRange - 1)
          /\ MaxPended \in Nat /\ MaxLate[t] \in Nat
      BY <1>1, ClockAssumption DEF ClockTypes, ClockTyped
    <3>2. PICK n \in 0..TickRange : WaitedFor(t, n)
      BY <1>1 DEF WaitOK
    <3>3. job[t].ticks \in 1..(TickRange - 2) /\ job[t].ticks + MaxPended + MaxLate[t] <= TickRange
      BY <1>1 DEF WaitOK
    <3> QED
      BY <1>3, <1>5, <3>1, <3>2, <3>3 DEF WaitedFor
  <2>4. /\ j \in [kind : {"none", "delay", "wait"}, ticks : Nat, overflows : Nat, entered : Nat]
        /\ j.kind = "wait" /\ j.ticks = clk.left[t] /\ j.overflows = clk.overflows
        /\ j.entered = clk.tick
    <3>1. job[t] \in [kind : {"none", "delay", "wait"}, ticks : Nat, overflows : Nat,
                      entered : Nat]
      BY <1>1 DEF ClockTypes
    <3>2. clk.tick \in Nat /\ clk.overflows \in Nat
      BY <2>3 DEF Instants
    <3> QED
      BY <1>1, <2>1, <2>3, <3>1, <3>2
  <2>5. ClockTypes'
    <3>1. pc' \in [Tasks -> ClockPlaces]
      BY <2>2 DEF ClockTypes, ClockPlaces
    <3>2. job' \in [Tasks -> [kind : {"none", "delay", "wait"}, ticks : Nat, overflows : Nat,
                              entered : Nat]]
      BY <2>2, <2>4 DEF ClockTypes
    <3> QED
      BY <1>1, <3>1, <3>2 DEF ClockTypes, Timed
  <2>6. pc'[t] = "add" /\ job'[t] = j
    BY <1>1, <2>2 DEF ClockTypes
  <2>7. SleeperOK(t)' /\ DelayOK(t)'
    BY <1>1, <2>4, <2>6 DEF SleeperOK, DelayOK, Timed
  <2>8. WaitOK(t)'
    <3>1. WaitedFor(t, 0)'
      <4>1. Since(clk.tick, clk.overflows, clk, 0)
        BY <2>3, ClockAssumption DEF Since, Instants
      <4>2. Since(job'[t].entered, job'[t].overflows, clk', 0)
        BY <1>1, <2>4, <2>6, <4>1 DEF Since
      <4> QED
        BY <1>1, <2>3, <2>4, <2>6, <4>2 DEF WaitedFor
    <3>2. 0 \in 0..TickRange
      BY ClockAssumption
    <3>3. j.ticks \in 1..(TickRange - 2) /\ j.ticks + MaxPended + MaxLate[t] <= TickRange
      BY <2>3, <2>4, ClockAssumption
    <3> QED
      BY <1>1, <2>3, <2>4, <2>6, <3>1, <3>2, <3>3 DEF WaitOK
  <2> QED
    BY <1>2, <2>5, <2>7, <2>8
<1> QED
  BY <1>4, <1>5

\* It falls asleep.
LEMMA AddCurrentTaskStep ==
    ASSUME ClockParameters, ClockInv, NEW t \in Sleepers, AddCurrentTask(t)
    PROVE  ClockInv'
<1> USE DEF ClockInv
<1>1. /\ t \in Tasks /\ t # NoTask /\ pc[t] = "add" /\ t \notin Asleep(clk)
      /\ suspended = t /\ pc' = [pc EXCEPT ![t] = "resume"]
      /\ UNCHANGED <<suspended, xPendingReadyList, xPendedTicks, job, late>>
  BY ClockAssumption, TasksAssumption DEF AddCurrentTask, ClockAt, ClockRuns, SleeperOK, Go
<1>2. t \notin Timed(clk) /\ job[t].kind \in {"delay", "wait"}
  BY <1>1 DEF Asleep, Timed, SleeperOK, ClockTypes
<1>3. job[t].ticks \in 1..(TickRange - 1)
  <2>1. CASE job[t].kind = "delay"
    BY <2>1 DEF DelayOK
  <2>2. CASE job[t].kind = "wait"
    BY <2>2, ClockAssumption DEF WaitOK
  <2> QED
    BY <1>2, <2>1, <2>2
<1>4. PICK left : left = IF job[t].kind = "delay" THEN [clk.left EXCEPT ![t] = job[t].ticks]
                         ELSE clk.left
  OBVIOUS
<1>5. /\ left \in [Tasks -> Nat] /\ left[t] = job[t].ticks
      /\ \A u \in Tasks : u # t => left[u] = clk.left[u]
  <2>1. clk.left \in [Tasks -> Nat]
    BY DEF ClockTypes, ClockTyped
  <2>2. CASE job[t].kind = "delay"
    BY <1>1, <1>3, <1>4, <2>1, <2>2
  <2>3. CASE job[t].kind = "wait"
    <3>1. clk.left[t] = job[t].ticks
      BY <1>1, <2>3 DEF WaitOK
    <3> QED
      BY <1>1, <1>4, <2>1, <2>3, <3>1
  <2> QED
    BY <1>2, <2>2, <2>3
<1>6. PICK c : c = [clk EXCEPT !.left = left]
  OBVIOUS
<1>7. /\ ClockTyped(c) /\ c.tick = clk.tick /\ c.overflows = clk.overflows
      /\ c.left = left /\ c.delayed = clk.delayed /\ c.overflow = clk.overflow
      /\ c.forever = clk.forever /\ c.wakeAt = clk.wakeAt /\ c.nextUnblock = clk.nextUnblock
  BY <1>5, <1>6 DEF ClockTypes, ClockTyped
<1>8. clk' = AddToDelayedList(c, t, job[t].ticks, FALSE)
  <2>1. c = IF job[t].kind = "delay" THEN [clk EXCEPT !.left[t] = job[t].ticks] ELSE clk
    <3>1. CASE job[t].kind = "delay"
      BY <1>4, <1>6, <3>1 DEF ClockTypes, ClockTyped
    <3>2. CASE job[t].kind # "delay"
      <4>1. [clk EXCEPT !.left = clk.left] = clk
        BY DEF ClockTypes, ClockTyped
      <4> QED
        BY <1>4, <1>6, <3>2, <4>1
    <3> QED
      BY <3>1, <3>2
  <2> QED
    BY <2>1 DEF AddCurrentTask
<1>9. /\ Delayed(c) /\ t \notin Asleep(c) /\ Timed(c) = Timed(clk)
      /\ \A u \in Timed(clk) : Rest(c, u) = Rest(clk, u)
  BY <1>1, <1>7 DEF ClockTypes, Delayed, Asleep, Timed, Rest
<1>10. /\ ClockTyped(clk') /\ Delayed(clk')
       /\ clk'.tick = clk.tick /\ clk'.overflows = clk.overflows /\ clk'.left = left
       /\ clk'.forever = clk.forever /\ Timed(clk') = Timed(clk) \cup {t}
       /\ Rest(clk', t) = job[t].ticks
       /\ \A u \in Timed(clk) : Rest(clk', u) = Rest(clk, u)
  <2>1. PICK n \in Instants : n = job[t].ticks /\ n # 0
    BY <1>3 DEF Instants
  <2>2. clk' = AddToDelayedList(c, t, n, FALSE)
    BY <1>8, <2>1
  <2>3. /\ ClockTyped(clk') /\ Delayed(clk')
        /\ clk'.tick = c.tick /\ clk'.overflows = c.overflows /\ clk'.left = c.left
        /\ clk'.forever = c.forever /\ Timed(clk') = Timed(c) \cup {t}
        /\ Rest(clk', t) = n
        /\ \A u \in Timed(c) : Rest(clk', u) = Rest(c, u)
    <3>1. ClockTyped(c) /\ Delayed(c) /\ t \in Tasks /\ t \notin Asleep(c)
      BY <1>1, <1>7, <1>9
    <3>2. clk' = Added(c, t, n)
      BY <2>2 DEF Added
    <3> QED
      BY <2>1, <3>1, <3>2, AddIs
  <2> QED
    BY <1>7, <1>9, <2>1, <2>3
<1>11. ClockTypes'
  <2>1. pc' \in [Tasks -> ClockPlaces]
    BY <1>1 DEF ClockTypes, ClockPlaces
  <2> QED
    BY <1>1, <1>10, <2>1 DEF ClockTypes
<1>12. SleeperOK(t)' /\ DelayOK(t)' /\ WaitOK(t)'
  <2>1. pc'[t] = "resume" /\ clk'.left[t] = job[t].ticks /\ clk'.left[t] > 0
    BY <1>1, <1>3, <1>5, <1>10 DEF ClockTypes
  <2>2. SleeperOK(t)'
    BY <1>1, <1>2, <1>10, <2>1 DEF SleeperOK
  <2>3. DelayOK(t)'
    BY <1>1, <2>1 DEF DelayOK
  <2>4. WaitOK(t)'
    <3> SUFFICES ASSUME job[t].kind = "wait" PROVE WaitOK(t)'
      BY <1>1 DEF WaitOK
    <3>1. clk'.left[t] = clk.left[t]
      BY <1>1, <1>4, <1>10
    <3> QED
      BY <1>1, <1>10, <2>1, <3>1 DEF WaitOK, WaitedFor, Since
  <2> QED
    BY <2>2, <2>3, <2>4
<1>13. ASSUME NEW u \in Sleepers, u # t
       PROVE  SleeperOK(u)' /\ DelayOK(u)' /\ WaitOK(u)'
  <2>1. u \in Tasks
    BY ClockAssumption
  <2>2. pc'[u] = pc[u] /\ clk'.left[u] = clk.left[u]
    BY <1>1, <1>5, <1>10, <1>13, <2>1 DEF ClockTypes
  <2> QED
    BY <1>1, <1>10, <1>13, <2>2, SleeperKept
<1> QED
  BY <1>11, <1>12, <1>13

LEMMA AwakeStep ==
    ASSUME ClockParameters, ClockInv, NEW t \in Sleepers, Awake(t)
    PROVE  ClockInv'
<1> USE DEF ClockInv
<1>1. /\ t \in Tasks /\ t # NoTask /\ pc[t] = "blocked" /\ t \notin Timed(clk)
      /\ suspended = NoTask
      /\ UNCHANGED <<suspended, xPendingReadyList, clk, xPendedTicks>>
  BY ClockAssumption, TasksAssumption DEF Awake, ClockAt, ClockRuns, Asleep, Timed
<1>2. ASSUME NEW u \in Sleepers, u # t
      PROVE  SleeperOK(u)' /\ DelayOK(u)' /\ WaitOK(u)'
  <2>1. u \in Tasks
    BY ClockAssumption
  <2>2. pc'[u] = pc[u] /\ job'[u] = job[u] /\ late'[u] = late[u]
    BY <1>1, <1>2, <2>1 DEF ClockTypes, Awake, Go
  <2> QED
    BY <1>1, <2>2, SleeperKept DEF Timed, Rest
<1>3. CASE job[t].kind = "wait"
  <2>1. pc' = [pc EXCEPT ![t] = "suspend"] /\ job' = job /\ late' = late
    BY <1>3 DEF Awake, Go
  <2>2. ClockTypes' /\ pc'[t] = "suspend"
    <3>1. pc' \in [Tasks -> ClockPlaces] /\ pc'[t] = "suspend"
      BY <1>1, <2>1 DEF ClockTypes, ClockPlaces
    <3> QED
      BY <1>1, <2>1, <3>1 DEF ClockTypes, Timed
  <2>3. SleeperOK(t)' /\ DelayOK(t)' /\ WaitOK(t)'
    BY <1>1, <1>3, <2>1, <2>2 DEF SleeperOK, DelayOK, WaitOK, WaitedFor, Since, Timed
  <2> QED
    BY <1>2, <2>2, <2>3
<1>4. CASE job[t].kind # "wait"
  <2>1. /\ pc' = [pc EXCEPT ![t] = "idle"] /\ job' = [job EXCEPT ![t] = NoJob]
        /\ late' = [late EXCEPT ![t] = 0]
    BY <1>4 DEF Awake, Go
  <2>2. ClockTypes' /\ pc'[t] = "idle" /\ job'[t] = NoJob
    <3>1. pc' \in [Tasks -> ClockPlaces] /\ pc'[t] = "idle" /\ job'[t] = NoJob
      BY <1>1, <2>1 DEF ClockTypes, ClockPlaces
    <3>2. NoJob \in [kind : {"none", "delay", "wait"}, ticks : Nat, overflows : Nat,
                     entered : Nat]
      BY DEF NoJob
    <3>3. job' \in [Tasks -> [kind : {"none", "delay", "wait"}, ticks : Nat, overflows : Nat,
                              entered : Nat]]
      BY <2>1, <3>2 DEF ClockTypes
    <3>4. late' \in [Tasks -> Nat] /\ \A u \in Tasks : late'[u] <= MaxLate[u]
      <4>1. late \in [Tasks -> Nat] /\ MaxLate \in [Tasks -> Nat]
        BY ClockAssumption DEF ClockTypes
      <4>2. \A u \in Tasks : late'[u] = IF u = t THEN 0 ELSE late[u]
        BY <2>1, <4>1
      <4> QED
        BY <1>1, <2>1, <4>1, <4>2 DEF ClockTypes
    <3> QED
      BY <1>1, <3>1, <3>3, <3>4 DEF ClockTypes, Timed
  <2>3. SleeperOK(t)' /\ DelayOK(t)' /\ WaitOK(t)'
    <3>1. t \notin xPendingReadyList
      BY <1>1 DEF ClockTypes
    <3> QED
      BY <1>1, <2>2, <3>1 DEF SleeperOK, DelayOK, WaitOK, Timed, NoJob
  <2> QED
    BY <1>2, <2>2, <2>3
<1> QED
  BY <1>3, <1>4

\* An interrupt wakes it before its time.
LEMMA EventWakesStep ==
    ASSUME ClockParameters, ClockInv, NEW t \in Sleepers, EventWakes(t)
    PROVE  ClockInv'
<1> USE DEF ClockInv
<1>1. /\ t \in Tasks /\ t # NoTask /\ job[t].kind = "wait" /\ t \in Timed(clk)
      /\ UNCHANGED <<suspended, pc, xPendedTicks, job, late>>
  BY ClockAssumption, TasksAssumption DEF EventWakes, Asleep, Timed, ClockTypes
<1>2. CASE suspended = NoTask
  <2>1. clk' = Removed(clk, {t}) /\ xPendingReadyList' = xPendingReadyList
    BY <1>2 DEF EventWakes
  <2>2. /\ ClockTyped(clk') /\ Delayed(clk')
        /\ clk'.tick = clk.tick /\ clk'.overflows = clk.overflows /\ clk'.left = clk.left
        /\ clk'.forever = clk.forever \ {t} /\ Timed(clk') = Timed(clk) \ {t}
        /\ \A u \in Timed(clk') : Rest(clk', u) = Rest(clk, u)
    BY <2>1, RemovedRight DEF ClockTypes
  <2>3. ClockTypes'
    BY <1>1, <1>2, <2>1, <2>2 DEF ClockTypes
  <2>4. SleeperOK(t)' /\ DelayOK(t)' /\ WaitOK(t)'
    <3>1. pc[t] # "resume"
      BY <1>1, <1>2 DEF SleeperOK
    <3>2. SleeperOK(t)'
      BY <1>1, <2>1, <2>2, <3>1 DEF SleeperOK
    <3>3. DelayOK(t)'
      BY <1>1 DEF DelayOK
    <3>4. WaitOK(t)'
      BY <1>1, <2>2 DEF WaitOK, WaitedFor, Since
    <3> QED
      BY <3>2, <3>3, <3>4
  <2>5. ASSUME NEW u \in Sleepers, u # t
        PROVE  SleeperOK(u)' /\ DelayOK(u)' /\ WaitOK(u)'
    BY <1>1, <2>1, <2>2, <2>5, SleeperKept
  <2> QED
    BY <2>3, <2>4, <2>5
<1>3. CASE suspended # NoTask
  <2>1. clk' = clk /\ xPendingReadyList' = xPendingReadyList \cup {t}
    BY <1>3 DEF EventWakes
  <2>2. ClockTypes'
    BY <1>1, <1>3, <2>1 DEF ClockTypes, Timed
  <2>3. ASSUME NEW u \in Sleepers
        PROVE  SleeperOK(u)' /\ DelayOK(u)' /\ WaitOK(u)'
    BY <1>1, <2>1 DEF SleeperOK, DelayOK, WaitOK, WaitedFor, Since, Timed, Rest
  <2> QED
    BY <2>2, <2>3
<1> QED
  BY <1>2, <1>3

LEMMA ClockSteps ==
    ASSUME ClockParameters, ClockInv,
           [ClockNext]_<<suspended, xPendingReadyList, pc, clockVars>>
    PROVE  ClockInv'
<1>1. CASE UNCHANGED <<suspended, xPendingReadyList, pc, clockVars>>
  <2>1. UNCHANGED <<suspended, xPendingReadyList, pc, clk, xPendedTicks, job, late>>
    BY <1>1 DEF clockVars
  <2>2. ClockTypes'
    BY <2>1 DEF ClockInv, ClockTypes, Timed
  <2>3. ASSUME NEW t \in Sleepers
        PROVE  SleeperOK(t)' /\ DelayOK(t)' /\ WaitOK(t)'
    BY <2>1, SleeperKept DEF ClockInv, Timed, Rest
  <2> QED
    BY <2>2, <2>3 DEF ClockInv
<1>2. CASE IncrementTick
  BY <1>2, IncrementTickStep
<1>3. ASSUME NEW t \in Sleepers, Sleeper(t)
      PROVE  ClockInv'
  BY <1>3, StartJobStep, SuspendSchedulerStep, CheckForTimeOutStep, AddCurrentTaskStep,
     ResumeAfterStep, AwakeStep, EventWakesStep DEF Sleeper
<1> QED
  BY <1>1, <1>2, <1>3 DEF ClockNext

\* A task that sleeps in vTaskDelay or with a timeout sleeps not one tick longer than it
\* asked for, and wakes or gives up not one tick earlier: for every range of the tick count
\* and of its overflows, delays and timeouts, ticks pended and tasks woken in between, as
\* long as nobody is so late that the tick count has come around.
THEOREM WaitsAreExact == ClockParameters => (ClockSpec => []TimeIsExact)
<1> SUFFICES ASSUME ClockParameters PROVE ClockSpec => []TimeIsExact
  OBVIOUS
<1>1. ClockInit => ClockInv
  BY ClockStarts
<1>2. ClockInv /\ [ClockNext]_<<suspended, xPendingReadyList, pc, clockVars>> => ClockInv'
  BY ClockSteps
<1>3. ClockInv => TimeIsExact
  BY InvIsExact
<1> QED
  BY <1>1, <1>2, <1>3, PTL DEF ClockSpec

-------------------------------------------------------------------------------
\* The timers

\* How long the daemon may sleep, and how old a command is at most when it comes to the daemon.
Bound == TickRange - 1 - MaxLate[Daemon]
Oldest == TickRange - 1 - 2 * MaxLate[Daemon]

DaemonPlaces == {"next", "sample", "switch", "resumeSwitched", "resumeExpired", "resumeBlocked",
                 "expire", "reload", "callback", "receive", "sampleStart", "start"}

Empty == current = {} /\ overflown = {}
Listed == current \cup overflown

\* The daemon is about to exchange its lists: they belong to the time before the tick
\* count overflowed, and what it sampled is after.
Switching == \/ pc[Daemon] = "switch"
             \/ pc[Daemon] \in {"reload", "callback"} /\ reg.then = "switch"

Base == IF Switching THEN reg.sampled ELSE xLastTime
Lag == IF clk.tick >= Base THEN clk.tick - Base ELSE clk.tick - Base + TickRange

\* The time, and when a timer expires, in ticks since the overflow that the current list
\* begins with.
Now == Base + Lag + (IF Switching THEN TickRange ELSE 0)
At(m) == expiry[m] + (IF m \in overflown THEN TickRange ELSE 0)
Expired == IF reg.expired <= reg.now THEN reg.expired ELSE reg.expired - TickRange

Starting == \/ pc[Daemon] \in {"sampleStart", "start"}
            \/ Switching /\ reg.back = "start"

\* The daemon takes the commands one after the other.
Draining == \/ pc[Daemon] \in {"receive", "sampleStart", "start"}
            \/ pc[Daemon] \in {"reload", "callback"} /\ reg.then = "receive"
            \/ Switching /\ reg.back = "start"

Busy == pc[Daemon] \in {"start", "switch", "reload", "callback", "expire", "resumeExpired",
                        "resumeSwitched"}

Orders == [timer : Timers \cup {NoTimer}, value : Instants]

TimersTypes ==
    /\ ClockTyped(clk) /\ Delayed(clk) /\ Asleep(clk) \subseteq {Daemon}
    /\ suspended \in {NoTask, Daemon} /\ xPendingReadyList = {}
    /\ xPendedTicks \in 0..MaxPended /\ (suspended = NoTask => xPendedTicks = 0)
    /\ pc \in [Tasks -> DaemonPlaces \cup {"idle", "order"}]
    /\ pc[Daemon] \in DaemonPlaces /\ \A t \in Orderers : pc[t] \in {"idle", "order"}
    /\ late \in [Tasks -> Nat] /\ \A t \in Tasks : late[t] <= MaxLate[t]
    /\ current \subseteq Timers /\ overflown \subseteq Timers /\ active \subseteq Timers
    /\ current \cap overflown = {}
    /\ expiry \in [Timers -> Instants] /\ xLastTime \in Instants
    /\ commands \in Seq(Orders)
    /\ reg \in [next : Instants, empty : BOOLEAN, timer : Timers \cup {NoTimer},
                expired : Instants, now : Instants, sampled : Instants,
                then : {"next", "receive", "switch"},
                back : {"next", "resumeSwitched", "start"}, message : Orders]
    /\ order \in [Tasks -> Orders]
    /\ due \in [Timers -> Int] /\ age \in [Timers -> Nat] /\ early = FALSE

DaemonOK ==
    /\ suspended = Daemon <=>
          \/ pc[Daemon] \in {"sample", "resumeSwitched", "resumeExpired", "resumeBlocked"}
          \/ Switching /\ reg.back = "resumeSwitched"
    /\ Switching => reg.back \in {"resumeSwitched", "start"}
    /\ IF Starting THEN reg.message.timer \in Timers ELSE reg.message.timer = NoTimer
    /\ pc[Daemon] = "start" => reg.sampled = xLastTime
    /\ pc[Daemon] = "sample" => /\ reg.empty = (current = {})
                                /\ reg.next = IF current = {} THEN 0 ELSE expiry[HeadOf(current)]
    /\ pc[Daemon] \in {"resumeExpired", "expire"} =>
          current # {} /\ reg.now = xLastTime /\ expiry[HeadOf(current)] <= reg.now
    /\ pc[Daemon] \in {"reload", "callback"} =>
          /\ reg.timer \in Timers /\ reg.then # "next"
          /\ reg.now = IF Switching THEN TickRange - 1 ELSE xLastTime
    /\ pc[Daemon] = "resumeBlocked" => Lag = 0
    /\ Daemon \in Asleep(clk) => pc[Daemon] \in {"resumeBlocked", "receive"} /\ commands = <<>>

\* How long ago the daemon looked at the time.
LagOK ==
    /\ Daemon \in clk.forever => Empty
    /\ Daemon \in Timed(clk) => Rest(clk, Daemon) > 0 /\ Lag + Rest(clk, Daemon) <= Bound
    /\ (~Empty \/ Busy) /\ Daemon \notin Asleep(clk) => Lag + xPendedTicks <= Bound + late[Daemon]

\* Where a timer is and when it expires.
TimerOK(m) ==
    /\ m \in active <=> m \in Listed \/ (pc[Daemon] = "reload" /\ reg.timer = m)
    /\ m \in Listed =>
          /\ due[m] = At(m) - Now - (IF pc[Daemon] = "callback" /\ reg.timer = m THEN Period[m]
                                     ELSE 0)
          /\ At(m) - Now <= Period[m]
          /\ Daemon \in Timed(clk) => Now + Rest(clk, Daemon) <= At(m)
    /\ pc[Daemon] = "reload" /\ reg.timer = m =>
          m \in AutoReload /\ m \notin Listed /\ due[m] = Expired - Now
    /\ pc[Daemon] = "callback" /\ reg.timer = m => due[m] <= 0 /\ (m \in AutoReload <=> m \in Listed)

\* When a start was ordered.
OrderedAt(o) ==
    /\ o.timer \notin active
    /\ o.value + age[o.timer] \in {clk.tick, clk.tick + TickRange}

OrderOK ==
    /\ \A t \in Tasks : order[t].timer \in Timers =>
          /\ t \in Orderers /\ pc[t] = "order" /\ OrderedAt(order[t])
          /\ age[order[t].timer] + xPendedTicks <= late[t]
          /\ \A u \in Tasks : order[u].timer = order[t].timer => u = t
          /\ \A i \in 1..Len(commands) : commands[i].timer # order[t].timer
          /\ reg.message.timer # order[t].timer
    /\ \A t \in Orderers : pc[t] = "order" => order[t].timer \in Timers

Age(o) ==
    age[o.timer] + xPendedTicks <=
        Oldest + (IF Draining THEN MaxLate[Daemon] ELSE 0) + late[Daemon]

CommandOK ==
    /\ \A i \in 1..Len(commands) :
          /\ commands[i].timer \in Timers /\ OrderedAt(commands[i]) /\ Age(commands[i])
          /\ \A j \in 1..Len(commands) : commands[j].timer = commands[i].timer => j = i
          /\ reg.message.timer # commands[i].timer
    /\ Starting => /\ OrderedAt(reg.message) /\ Age(reg.message)
                   /\ pc[Daemon] # "sampleStart" => Lag <= age[reg.message.timer]
    /\ \A m \in Timers \ Ordered : age[m] = 0

TimersInv ==
    TimersTypes /\ DaemonOK /\ LagOK /\ (\A m \in Timers : TimerOK(m)) /\ OrderOK /\ CommandOK

-------------------------------------------------------------------------------
\* The arithmetic of the lists

LEMMA RangeIs == TickRange \in Nat /\ TickRange > 1
BY ClockAssumption

\* A sum of two tick counts comes around at most once.
LEMMA SumOfInstants ==
    ASSUME NEW i \in Instants, NEW n \in Instants
    PROVE  (i + n) % TickRange = IF i + n < TickRange THEN i + n ELSE i + n - TickRange
BY ClockAssumption DEF Instants

LEMMA DifferenceOfInstants ==
    ASSUME NEW i \in Instants, NEW n \in Instants
    PROVE  (i - n) % TickRange = IF i >= n THEN i - n ELSE i - n + TickRange
BY ClockAssumption DEF Instants

\* The test of prvInsertTimerInActiveList, of a timer that ran from x for its period, x
\* being in the range of the tick count that ends now.
LEMMA ProcessNowIs ==
    ASSUME NEW m \in Timers, NEW now \in Instants, NEW x \in Int, x <= now, x > now - TickRange,
           NEW from \in Instants, from = IF x >= 0 THEN x ELSE x + TickRange,
           NEW next, next = (from + Period[m]) % TickRange
    PROVE  /\ next \in Instants
           /\ ProcessNow(m, next, now, from) <=> x + Period[m] <= now
           /\ x + Period[m] <= now =>
                 next = IF x + Period[m] >= 0 THEN x + Period[m] ELSE x + Period[m] + TickRange
           /\ x + Period[m] > now =>
                 x + Period[m] = IF next <= now THEN next + TickRange ELSE next
<1>1. PICK p \in 1..(TickRange - 1) : p = Period[m]
  BY TimersAssumption
<1>2. /\ next = IF from + p < TickRange THEN from + p ELSE from + p - TickRange
      /\ next \in Instants
  <2>1. p \in Instants /\ next = (from + p) % TickRange
    BY <1>1, ClockAssumption DEF Instants
  <2>2. next = IF from + p < TickRange THEN from + p ELSE from + p - TickRange
    BY <2>1, SumOfInstants
  <2> QED
    BY <2>1, <2>2, ClockAssumption DEF Instants
<1>3. (now - from) % TickRange = now - x
  <2>1. (now - from) % TickRange = IF now >= from THEN now - from ELSE now - from + TickRange
    BY DifferenceOfInstants
  <2> QED
    BY <2>1, ClockAssumption DEF Instants
<1>4. ProcessNow(m, next, now, from) <=>
          IF next <= now THEN now - x >= p ELSE now < from /\ next >= from
  BY <1>1, <1>3 DEF ProcessNow
<1> QED
  BY <1>1, <1>2, <1>4, ClockAssumption DEF Instants

LEMMA HeadIs ==
    ASSUME NEW S \in SUBSET Timers, S # {}, expiry \in [Timers -> Instants]
    PROVE  HeadOf(S) \in S /\ \A m \in S : expiry[HeadOf(S)] <= expiry[m]
<1>1. PICK V : V = { expiry[m] : m \in S }
  OBVIOUS
<1>2. V \subseteq Nat /\ V # {}
  BY <1>1 DEF Instants
<1>3. PICK n \in V : \A k \in V : n <= k
  BY <1>2, LeastNatural
<1>4. PICK h \in S : n = expiry[h]
  BY <1>1, <1>3
<1>5. \A m \in S : expiry[h] <= expiry[m]
  BY <1>1, <1>3, <1>4
<1> QED
  BY <1>4, <1>5 DEF HeadOf

\* What the time is.
LEMMA TimeIs ==
    ASSUME TimersTypes
    PROVE  /\ Base \in Instants /\ Lag \in Instants
           /\ clk.tick \in Instants /\ clk.tick \in Nat /\ xPendedTicks \in Nat
           /\ Base + Lag \in {clk.tick, clk.tick + TickRange}
           /\ Now = IF Switching THEN Base + Lag + TickRange ELSE Base + Lag
           /\ Now \in Nat /\ late[Daemon] \in Nat /\ late[Daemon] <= MaxLate[Daemon]
           /\ MaxLate[Daemon] \in Nat /\ Bound \in Int /\ Oldest \in Int
           /\ Bound = TickRange - 1 - MaxLate[Daemon]
           /\ Oldest = TickRange - 1 - 2 * MaxLate[Daemon]
<1>1. clk.tick \in Instants /\ xLastTime \in Instants /\ reg.sampled \in Instants
  BY DEF TimersTypes, ClockTyped
<1>2. Base \in Instants
  BY <1>1 DEF Base
<1>3. Lag \in Instants /\ Base + Lag \in {clk.tick, clk.tick + TickRange}
  BY <1>1, <1>2, ClockAssumption DEF Lag, Instants
<1>4. Now = IF Switching THEN Base + Lag + TickRange ELSE Base + Lag
  BY <1>2, <1>3, ClockAssumption DEF Now, Instants
<1>5. Daemon \in Tasks /\ MaxLate[Daemon] \in Nat
  BY TimersAssumption, ClockAssumption
<1>6. Now \in Nat
  BY <1>2, <1>3, <1>4, ClockAssumption DEF Instants
<1>7. late[Daemon] \in Nat /\ late[Daemon] <= MaxLate[Daemon] /\ xPendedTicks \in Nat
  <2>1. MaxPended \in Nat
    BY ClockAssumption
  <2> QED
    BY <1>5, <2>1 DEF TimersTypes
<1> QED
  BY <1>1, <1>2, <1>3, <1>4, <1>5, <1>6, <1>7, ClockAssumption DEF Bound, Oldest, Instants

LEMMA AtIs ==
    ASSUME TimersTypes, NEW m \in Timers
    PROVE  At(m) \in Int /\ Period[m] \in Int /\ due[m] \in Int
<1>1. expiry[m] \in Instants /\ due[m] \in Int
  BY DEF TimersTypes
<1>2. Period[m] \in Int
  BY TimersAssumption
<1> QED
  BY <1>1, <1>2, RangeIs DEF At, Instants

LEMMA RestIs ==
    ASSUME NEW c, ClockTyped(c), NEW t \in Tasks
    PROVE  Rest(c, t) \in Int
<1>1. c.wakeAt[t] \in Instants /\ c.tick \in Instants
  BY DEF ClockTyped
<1> QED
  BY <1>1, ClockAssumption DEF Rest, Instants

LEMMA InvFiresOnTime == TimersInv => TimersFireOnTime
<1> SUFFICES ASSUME TimersInv PROVE TimersFireOnTime
  OBVIOUS
<1>1. early = FALSE
  BY DEF TimersInv, TimersTypes
<1>2. ASSUME Daemon \in Asleep(clk), NEW m \in active PROVE due[m] > 0
  <2>1. m \in Timers /\ TimerOK(m) /\ due[m] \in Int
    BY DEF TimersInv, TimersTypes
  <2>2. pc[Daemon] \in {"resumeBlocked", "receive"}
    BY <1>2 DEF TimersInv, DaemonOK
  <2>3. m \in Listed
    BY <2>1, <2>2 DEF TimerOK
  <2>4. Daemon \in Timed(clk)
    BY <1>2, <2>3 DEF TimersInv, LagOK, Empty, Listed, Asleep, Timed
  <2>5. Rest(clk, Daemon) > 0 /\ Now + Rest(clk, Daemon) <= At(m) /\ due[m] = At(m) - Now
    <3>1. due[m] = At(m) - Now - 0
      BY <2>1, <2>2, <2>3 DEF TimerOK
    <3>2. At(m) \in Int /\ Now \in Int
      <4>1. Now \in Int
        BY TimeIs DEF TimersInv
      <4>2. expiry[m] \in Instants
        BY <2>1 DEF TimersInv, TimersTypes
      <4> QED
        BY <4>1, <4>2, ClockAssumption DEF At, Instants
    <3> QED
      BY <2>1, <2>3, <2>4, <3>1, <3>2 DEF TimersInv, LagOK, TimerOK
  <2>6. At(m) \in Int /\ Now \in Int /\ Rest(clk, Daemon) \in Int
    <3>1. Now \in Int
      BY TimeIs DEF TimersInv
    <3>2. expiry[m] \in Instants /\ Daemon \in Tasks
      BY <2>1, TimersAssumption DEF TimersInv, TimersTypes
    <3>3. clk.wakeAt[Daemon] \in Instants /\ clk.tick \in Instants
      BY <3>2 DEF TimersInv, TimersTypes, ClockTyped
    <3> QED
      BY <3>1, <3>2, <3>3, ClockAssumption DEF At, Rest, Instants
  <2> QED
    BY <2>5, <2>6
<1> QED
  BY <1>1, <1>2 DEF TimersFireOnTime

LEMMA TimersStarts == TimersParameters /\ TimersInit => TimersInv
<1> SUFFICES ASSUME TimersParameters, TimersInit PROVE TimersInv
  OBVIOUS
<1> USE DEF TimersInit, TimersStart, ClockStart, TasksInit, DaemonFirst, Idle
<1>1. Daemon \in Tasks /\ Daemon \notin Orderers /\ Orderers \subseteq Tasks
  BY TimersAssumption
<1>2. /\ pc \in [Tasks -> {"next", "idle"}] /\ pc[Daemon] = "next"
      /\ \A t \in Tasks \ {Daemon} : pc[t] = "idle"
  BY <1>1
<1>3. /\ 0 \in Instants /\ 0 \in 0..(OverflowRange - 1) /\ portMAX_DELAY \in Instants
      /\ 0 \in 0..MaxPended
  BY ClockAssumption DEF Instants, portMAX_DELAY
<1>4. /\ ClockTyped(clk) /\ Delayed(clk) /\ Asleep(clk) = {} /\ Timed(clk) = {}
      /\ clk.tick = 0 /\ clk.forever = {}
  BY <1>3 DEF ClockTyped, Delayed, Asleep, Timed
<1>5. ~Switching /\ ~Starting /\ Empty /\ ~Busy
  BY <1>2 DEF Switching, Starting, Empty, Busy
<1>6. NoOrder \in Orders /\ NoOrder.timer = NoTimer
  BY <1>3 DEF NoOrder, Orders
<1>7. TimersTypes
  <2>1. reg \in [next : Instants, empty : BOOLEAN, timer : Timers \cup {NoTimer},
                 expired : Instants, now : Instants, sampled : Instants,
                 then : {"next", "receive", "switch"},
                 back : {"next", "resumeSwitched", "start"}, message : Orders]
    BY <1>3, <1>6 DEF Registers
  <2>2. /\ pc \in [Tasks -> DaemonPlaces \cup {"idle", "order"}] /\ pc[Daemon] \in DaemonPlaces
        /\ \A t \in Orderers : pc[t] \in {"idle", "order"}
    BY <1>1, <1>2 DEF DaemonPlaces
  <2>3. late \in [Tasks -> Nat] /\ \A t \in Tasks : late[t] <= MaxLate[t]
    BY ClockAssumption
  <2>4. commands \in Seq(Orders) /\ order \in [Tasks -> Orders]
    BY <1>6
  <2>5. expiry \in [Timers -> Instants] /\ xLastTime \in Instants
    BY <1>3
  <2>6. /\ suspended \in {NoTask, Daemon} /\ xPendingReadyList = {}
        /\ xPendedTicks \in 0..MaxPended /\ (suspended = NoTask => xPendedTicks = 0)
        /\ current \subseteq Timers /\ overflown \subseteq Timers /\ active \subseteq Timers
        /\ current \cap overflown = {} /\ early = FALSE
    BY <1>3
  <2>7. due \in [Timers -> Int] /\ age \in [Timers -> Nat]
    OBVIOUS
  <2>8. Asleep(clk) \subseteq {Daemon}
    BY <1>4
  <2> QED
    BY ONLY <1>4, <2>1, <2>2, <2>3, <2>4, <2>5, <2>6, <2>7, <2>8 DEF TimersTypes
<1>8. DaemonOK
  BY <1>1, <1>2, <1>4, <1>5, <1>6, TasksAssumption DEF DaemonOK, Registers
<1>9. LagOK
  BY <1>1, <1>4, <1>5 DEF LagOK
<1>10. \A m \in Timers : TimerOK(m)
  BY <1>2 DEF TimerOK, Listed
<1>11. OrderOK
  BY <1>1, <1>2, <1>6 DEF OrderOK, TimersParameters
<1>12. CommandOK
  BY <1>5 DEF CommandOK
<1> QED
  BY <1>7, <1>8, <1>9, <1>10, <1>11, <1>12 DEF TimersInv

-------------------------------------------------------------------------------
\* Ticks pass

LEMMA TicksElapse ==
    ASSUME TimersTypes, NEW n \in Nat, n < TickRange, ClockTyped(clk'),
           Since(clk.tick, clk.overflows, clk', n), Elapse
    PROVE  /\ due' = [m \in Timers |-> IF m \in active THEN due[m] - n ELSE 0]
           /\ age' = [m \in Timers |-> IF m \in Ordered THEN age[m] + n ELSE 0]
           /\ due' \in [Timers -> Int] /\ age' \in [Timers -> Nat] /\ early' = FALSE
<1>1. clk.tick \in Instants /\ clk'.tick \in Instants
  BY DEF TimersTypes, ClockTyped
<1>2. (clk'.tick - clk.tick) % TickRange = n
  <2>1. (clk'.tick - clk.tick) % TickRange =
            IF clk'.tick >= clk.tick THEN clk'.tick - clk.tick ELSE clk'.tick - clk.tick + TickRange
    BY <1>1, DifferenceOfInstants
  <2> QED
    BY <1>1, <2>1, ClockAssumption DEF Since, Instants
<1>3. /\ due' = [m \in Timers |-> IF m \in active THEN due[m] - n ELSE 0]
      /\ age' = [m \in Timers |-> IF m \in Ordered THEN age[m] + n ELSE 0]
      /\ early' = early
  BY <1>2 DEF Elapse
<1>4. due \in [Timers -> Int] /\ age \in [Timers -> Nat] /\ early = FALSE
  BY DEF TimersTypes
<1> QED
  BY <1>3, <1>4

LEMMA LagGrows ==
    ASSUME TimersTypes, NEW n \in Nat, ClockTyped(clk'),
           Since(clk.tick, clk.overflows, clk', n), UNCHANGED <<reg, xLastTime>>,
           Switching <=> Switching', Lag + n < TickRange
    PROVE  Lag' = Lag + n /\ Base' = Base /\ Now' = Now + n
<1>1. clk.tick \in Instants /\ clk'.tick \in Instants
  BY DEF TimersTypes, ClockTyped
<1>2. Base \in Instants /\ Lag \in Instants /\ Now \in Nat
  BY TimeIs
<1>3. Base' = Base
  BY DEF Base
<1>4. Lag' = Lag + n
  BY <1>1, <1>2, <1>3, ClockAssumption DEF Lag, Since, Instants
<1> QED
  BY <1>2, <1>3, <1>4, ClockAssumption DEF Now, Instants

LEMMA StillOrdered ==
    ASSUME TimersTypes, NEW o \in Orders, o.timer \in Timers, OrderedAt(o), NEW n \in Nat,
           ClockTyped(clk'), Since(clk.tick, clk.overflows, clk', n),
           age'[o.timer] = age[o.timer] + n, age[o.timer] + n < TickRange
    PROVE  o.value + age'[o.timer] \in {clk'.tick, clk'.tick + TickRange}
<1>1. clk.tick \in Instants /\ clk'.tick \in Instants /\ o.value \in Instants
      /\ age[o.timer] \in Nat
  BY DEF TimersTypes, ClockTyped, Orders
<1>2. o.value + age[o.timer] \in {clk.tick, clk.tick + TickRange}
  BY DEF OrderedAt
<1> QED
  BY <1>1, <1>2, ClockAssumption DEF Since, Instants

\* What holds of the lists and of the daemon when so many ticks passed.
LEMMA TimersAfterTicks ==
    ASSUME TimersParameters, TimersInv, NEW n \in Nat, n < TickRange,
           ClockTyped(clk'), Since(clk.tick, clk.overflows, clk', n),
           clk'.forever = clk.forever,
           Daemon \in Timed(clk') <=> Daemon \in Timed(clk) /\ (n = 0 \/ Rest(clk, Daemon) > n),
           Daemon \in Timed(clk') => Rest(clk', Daemon) = Rest(clk, Daemon) - n,
           Elapse, UNCHANGED <<timerVars, order>>, Switching <=> Switching',
           pc[Daemon] # "callback" => pc'[Daemon] # "callback",
           pc[Daemon] # "reload" => pc'[Daemon] # "reload",
           pc[Daemon] \in {"reload", "callback"} => pc'[Daemon] = pc[Daemon],
           ~Empty \/ Busy => Lag + n < TickRange
    PROVE  /\ \A m \in Timers : TimerOK(m)'
           /\ Busy \/ ~Empty => Lag' = Lag + n /\ Now' = Now + n
<1>1. TimersTypes /\ LagOK /\ \A m \in Timers : TimerOK(m)
  BY DEF TimersInv
<1>2. Busy \/ ~Empty => Lag' = Lag + n /\ Base' = Base /\ Now' = Now + n
  BY <1>1, LagGrows DEF timerVars
<1>3. /\ due' = [m \in Timers |-> IF m \in active THEN due[m] - n ELSE 0]
      /\ due \in [Timers -> Int]
  BY <1>1, TicksElapse DEF TimersTypes
<1>4. ASSUME NEW m \in Timers
      PROVE  TimerOK(m)'
  <2>1. TimerOK(m) /\ due[m] \in Int /\ Now \in Nat /\ expiry[m] \in Instants
    BY <1>1, TimeIs DEF TimersTypes
  <2>2. /\ UNCHANGED <<current, overflown, expiry, active, reg>>
        /\ Expired' = Expired /\ At(m)' = At(m) /\ Listed' = Listed /\ At(m) \in Int
        /\ Expired \in Int
    BY <1>1, <2>1, ClockAssumption DEF timerVars, Expired, At, Listed, TimersTypes, Instants
  <2>3. /\ pc[Daemon] = "reload" <=> pc'[Daemon] = "reload"
        /\ pc[Daemon] = "callback" <=> pc'[Daemon] = "callback"
    OBVIOUS
  <2>4. CASE m \notin active
    <3>1. m \notin Listed /\ ~(pc[Daemon] = "reload" /\ reg.timer = m)
      BY <2>1, <2>4 DEF TimerOK
    <3>2. due'[m] = 0
      BY <1>3, <2>4
    <3> QED
      BY <2>1, <2>2, <2>3, <2>4, <3>1, <3>2 DEF TimerOK
  <2>5. CASE m \in active
    <3>1. m \in Listed \/ (pc[Daemon] = "reload" /\ reg.timer = m)
      BY <2>1, <2>5 DEF TimerOK
    <3>2. Busy \/ ~Empty
      BY <3>1 DEF Busy, Empty, Listed
    <3>3. due'[m] = due[m] - n /\ Now' = Now + n
      BY <1>2, <1>3, <2>5, <3>2
    <3>4. Daemon \in Timed(clk') => /\ Daemon \in Timed(clk)
                                    /\ Now + n + Rest(clk', Daemon) = Now + Rest(clk, Daemon)
      <4>1. Daemon \in Timed(clk) => Rest(clk, Daemon) \in Int
        BY <1>1, RestIs, TimersAssumption DEF TimersTypes
      <4> QED
        BY <2>1, <4>1
    <3>5. Period[m] \in Int
      BY TimersAssumption
    <3> QED
      <4>1. m \in active' <=> m \in Listed' \/ (pc'[Daemon] = "reload" /\ reg'.timer = m)
        BY <2>1, <2>2, <2>3 DEF TimerOK
      <4>2. ASSUME m \in Listed'
            PROVE  /\ due'[m] = At(m)' - Now' - (IF pc'[Daemon] = "callback" /\ reg'.timer = m
                                                 THEN Period[m] ELSE 0)
                   /\ At(m)' - Now' <= Period[m]
                   /\ Daemon \in Timed(clk') => Now' + Rest(clk', Daemon) <= At(m)'
        <5>1. /\ due[m] = At(m) - Now - (IF pc[Daemon] = "callback" /\ reg.timer = m
                                         THEN Period[m] ELSE 0)
              /\ At(m) - Now <= Period[m]
              /\ Daemon \in Timed(clk) => Now + Rest(clk, Daemon) <= At(m)
          BY <2>1, <2>2, <4>2 DEF TimerOK
        <5> QED
          BY <2>1, <2>2, <2>3, <3>3, <3>4, <3>5, <5>1
      <4>3. pc'[Daemon] = "reload" /\ reg'.timer = m =>
               m \in AutoReload /\ m \notin Listed' /\ due'[m] = Expired' - Now'
        BY <2>1, <2>2, <2>3, <3>3 DEF TimerOK
      <4>4. pc'[Daemon] = "callback" /\ reg'.timer = m =>
               due'[m] <= 0 /\ (m \in AutoReload <=> m \in Listed')
        BY <2>1, <2>2, <2>3, <3>3 DEF TimerOK
      <4> QED
        BY <4>1, <4>2, <4>3, <4>4 DEF TimerOK
  <2> QED
    BY <2>4, <2>5
<1> QED
  BY <1>2, <1>4

\* What holds of the orders and commands.
LEMMA OrdersAfterTicks ==
    ASSUME TimersParameters, TimersInv, NEW n \in Nat, n < TickRange, NEW k \in Nat,
           ClockTyped(clk'), Since(clk.tick, clk.overflows, clk', n),
           Elapse, UNCHANGED <<timerVars, order>>, Starting <=> Starting', Switching <=> Switching',
           n + xPendedTicks' = xPendedTicks + k, n <= xPendedTicks + k, xPendedTicks' \in Nat,
           \A t \in Orderers : pc'[t] = pc[t] /\ late'[t] \in Nat /\ late'[t] <= MaxLate[t]
                               /\ (pc[t] = "order" => late[t] + k <= late'[t]),
           Draining => Draining', late'[Daemon] \in Nat,
           commands # <<>> \/ Starting =>
               /\ \/ late[Daemon] + k <= late'[Daemon]
                  \/ Draining' /\ ~Draining /\ k = 0
               /\ late[Daemon] + k <= MaxLate[Daemon],
           pc'[Daemon] = "sampleStart" <=> pc[Daemon] = "sampleStart"
    PROVE  OrderOK' /\ CommandOK'
<1>1. TimersTypes /\ OrderOK /\ CommandOK
  BY DEF TimersInv
<1>2. /\ age' = [m \in Timers |-> IF m \in Ordered THEN age[m] + n ELSE 0]
      /\ age' \in [Timers -> Nat] /\ age \in [Timers -> Nat]
  BY <1>1, TicksElapse DEF TimersTypes
<1>3. UNCHANGED <<commands, reg, active, order>> /\ Ordered' = Ordered
  BY DEF timerVars, Ordered
<1>4. /\ xPendedTicks \in Nat /\ late[Daemon] \in Nat /\ late[Daemon] <= MaxLate[Daemon]
      /\ MaxLate[Daemon] \in Nat /\ Oldest = TickRange - 1 - 2 * MaxLate[Daemon]
      /\ Oldest' = Oldest /\ Oldest \in Int /\ TickRange \in Nat /\ TickRange > 1
  BY <1>1, TimeIs, RangeIs DEF Oldest
<1>5. OrderOK'
  <2>1. ASSUME NEW t \in Tasks, order[t].timer \in Timers
        PROVE  /\ t \in Orderers /\ pc'[t] = "order" /\ OrderedAt(order[t])'
               /\ age'[order[t].timer] + xPendedTicks' <= late'[t]
    <3>1. /\ t \in Orderers /\ pc[t] = "order" /\ OrderedAt(order[t])
          /\ age[order[t].timer] + xPendedTicks <= late[t]
      BY <1>1, <2>1 DEF OrderOK
    <3>2. order[t].timer \in Ordered
      BY DEF Ordered
    <3>3. /\ late[t] \in Nat /\ late'[t] \in Nat /\ late[t] + k <= late'[t]
          /\ late'[t] <= MaxLate[t] /\ MaxLate[t] \in Nat /\ MaxLate[t] < TickRange
      <4>1. MaxLate[t] + 2 * MaxLate[Daemon] < TickRange /\ MaxLate[t] \in Nat
        BY <3>1, ClockAssumption DEF TimersParameters
      <4>2. late[t] \in Nat
        BY <1>1 DEF TimersTypes
      <4> QED
        BY <1>4, <3>1, <4>1, <4>2
    <3>4. age'[order[t].timer] = age[order[t].timer] + n /\ age[order[t].timer] \in Nat
      BY <1>2, <2>1, <3>2
    <3>5. /\ age'[order[t].timer] + xPendedTicks' <= late'[t]
          /\ age[order[t].timer] + n < TickRange
      <4> PICK g \in Nat : g = age[order[t].timer]
        BY <3>4
      <4>1. g + xPendedTicks <= late[t] /\ age'[order[t].timer] = g + n
        BY <3>1, <3>4
      <4> QED
        <5>1. g + n + xPendedTicks' <= late'[t] /\ g + n < TickRange
          BY ONLY <1>4, <3>3, <4>1, n \in Nat, k \in Nat, xPendedTicks' \in Nat,
                  n + xPendedTicks' = xPendedTicks + k, n <= xPendedTicks + k,
                  g \in Nat, SMTT(60)
        <5> QED
          BY <4>1, <5>1
    <3>6. PICK o \in Orders : o = order[t]
      BY <1>1 DEF TimersTypes
    <3>7. o.value + age'[o.timer] \in {clk'.tick, clk'.tick + TickRange}
      BY <1>1, <2>1, <3>1, <3>4, <3>5, <3>6, StillOrdered
    <3>8. OrderedAt(order[t])'
      BY <1>3, <3>1, <3>6, <3>7 DEF OrderedAt
    <3> QED
      BY <3>1, <3>5, <3>8
  <2>2. \A t \in Orderers : pc'[t] = "order" => order[t].timer \in Timers
    BY <1>1 DEF OrderOK
  <2>3. \A t \in Tasks : order[t].timer \in Timers =>
            /\ \A u \in Tasks : order[u].timer = order[t].timer => u = t
            /\ \A i \in 1..Len(commands) : commands[i].timer # order[t].timer
            /\ reg.message.timer # order[t].timer
    BY <1>1 DEF OrderOK
  <2> QED
    BY <1>3, <2>1, <2>2, <2>3 DEF OrderOK
<1>6. ASSUME NEW o \in Orders, o.timer \in Timers \cap Ordered, OrderedAt(o), Age(o),
             commands # <<>> \/ Starting
      PROVE  /\ o.timer \notin active
             /\ o.value + age'[o.timer] \in {clk'.tick, clk'.tick + TickRange}
             /\ age'[o.timer] + xPendedTicks' <=
                  Oldest + (IF Draining' THEN MaxLate[Daemon] ELSE 0) + late'[Daemon]
             /\ age'[o.timer] = age[o.timer] + n
  <2>1. age'[o.timer] = age[o.timer] + n /\ age[o.timer] \in Nat
    BY <1>2, <1>6
  <2>2. age[o.timer] + xPendedTicks <=
            Oldest + (IF Draining THEN MaxLate[Daemon] ELSE 0) + late[Daemon]
    BY <1>6 DEF Age
  <2>3. /\ \/ late[Daemon] + k <= late'[Daemon]
           \/ Draining' /\ ~Draining /\ k = 0
        /\ late[Daemon] + k <= MaxLate[Daemon]
    BY <1>6
  <2>6. PICK g \in Nat : g = age[o.timer]
    BY <2>1
  <2>8. PICK d \in Nat, e \in Nat :
            /\ d = IF Draining THEN MaxLate[Daemon] ELSE 0
            /\ e = IF Draining' THEN MaxLate[Daemon] ELSE 0
            /\ d <= e /\ d <= MaxLate[Daemon]
            /\ Draining' /\ ~Draining => d = 0 /\ e = MaxLate[Daemon]
    <3>1. Draining => Draining'
      OBVIOUS
    <3> QED
      BY <1>4, <3>1
  <2>7. g + n < TickRange
    <3>1. g + xPendedTicks <= Oldest + MaxLate[Daemon] + late[Daemon]
      BY ONLY <1>4, <2>2, <2>6, <2>8
    <3> QED
      BY ONLY <1>4, <2>3, <2>6, <3>1, n \in Nat, k \in Nat,
              xPendedTicks' \in Nat, n <= xPendedTicks + k
  <2>4. o.value + age'[o.timer] \in {clk'.tick, clk'.tick + TickRange}
    BY <1>1, <1>6, <2>1, <2>6, <2>7, StillOrdered
  <2>5. age'[o.timer] + xPendedTicks' <=
                  Oldest + (IF Draining' THEN MaxLate[Daemon] ELSE 0) + late'[Daemon]
    <3>1. late'[Daemon] \in Nat /\ (Draining => Draining')
      OBVIOUS
    <3>2. g + xPendedTicks <=
            Oldest + (IF Draining THEN MaxLate[Daemon] ELSE 0) + late[Daemon]
      BY <2>2, <2>6
    <3>3. g + n + xPendedTicks' <=
                  Oldest + (IF Draining' THEN MaxLate[Daemon] ELSE 0) + late'[Daemon]
      BY ONLY <1>4, <2>3, <2>6, <2>8, <3>1, <3>2, n \in Nat, k \in Nat,
              xPendedTicks' \in Nat, n + xPendedTicks' = xPendedTicks + k
    <3> QED
      BY <2>1, <2>6, <3>3
  <2> QED
    BY <1>6, <2>1, <2>4, <2>5 DEF OrderedAt
<1>7. CommandOK'
  <2>1. ASSUME NEW i \in 1..Len(commands)
        PROVE  /\ commands[i].timer \in Timers /\ OrderedAt(commands[i])' /\ Age(commands[i])'
               /\ \A j \in 1..Len(commands) : commands[j].timer = commands[i].timer => j = i
               /\ reg.message.timer # commands[i].timer
    <3>1. /\ commands[i].timer \in Timers /\ OrderedAt(commands[i]) /\ Age(commands[i])
          /\ \A j \in 1..Len(commands) : commands[j].timer = commands[i].timer => j = i
          /\ reg.message.timer # commands[i].timer
      BY <1>1 DEF CommandOK
    <3>2. commands[i] \in Orders /\ commands # <<>>
      BY <1>1 DEF TimersTypes
    <3>3. commands[i].timer \in Ordered
      BY DEF Ordered
    <3>4. PICK o \in Orders : o = commands[i]
      BY <3>2
    <3>5. /\ o.timer \notin active
          /\ o.value + age'[o.timer] \in {clk'.tick, clk'.tick + TickRange}
          /\ age'[o.timer] + xPendedTicks' <=
               Oldest + (IF Draining' THEN MaxLate[Daemon] ELSE 0) + late'[Daemon]
      BY <1>6, <3>1, <3>2, <3>3, <3>4
    <3> QED
      BY <1>3, <1>4, <3>1, <3>4, <3>5 DEF OrderedAt, Age
  <2>2. ASSUME Starting
        PROVE  /\ OrderedAt(reg.message)' /\ Age(reg.message)'
               /\ pc'[Daemon] # "sampleStart" => Lag' <= age'[reg.message.timer]
    <3>1. PICK o \in Orders : o = reg.message
      BY <1>1 DEF TimersTypes
    <3>2. /\ o.timer \in Timers /\ OrderedAt(o) /\ Age(o)
          /\ pc[Daemon] # "sampleStart" => Lag <= age[o.timer]
      BY <1>1, <2>2, <3>1 DEF CommandOK, TimersInv, DaemonOK
    <3>3. o.timer \in Ordered
      BY <3>1 DEF Ordered
    <3>4. /\ o.timer \notin active
          /\ o.value + age'[o.timer] \in {clk'.tick, clk'.tick + TickRange}
          /\ age'[o.timer] + xPendedTicks' <=
               Oldest + (IF Draining' THEN MaxLate[Daemon] ELSE 0) + late'[Daemon]
          /\ age'[o.timer] = age[o.timer] + n
      BY <1>6, <2>2, <3>1, <3>2, <3>3
    <3>5. pc[Daemon] # "sampleStart" => Lag' = Lag + n /\ Lag \in Nat
      <4> SUFFICES ASSUME pc[Daemon] # "sampleStart" PROVE Lag' = Lag + n /\ Lag \in Nat
        OBVIOUS
      <4>1. age[o.timer] \in Nat /\ Lag \in Instants
        BY <1>1, <3>2, TimeIs DEF TimersTypes
      <4>2. age[o.timer] + xPendedTicks <=
                Oldest + (IF Draining THEN MaxLate[Daemon] ELSE 0) + late[Daemon]
        BY <3>2 DEF Age
      <4>3. Lag + n < TickRange
        BY <1>4, <2>2, <3>2, <4>1, <4>2, ClockAssumption DEF Instants
      <4> QED
        BY <1>1, <4>1, <4>3, LagGrows DEF timerVars, Instants
    <3>6. age[o.timer] \in Nat
      BY <1>1, <3>2 DEF TimersTypes
    <3>7. OrderedAt(reg.message)' /\ Age(reg.message)'
      BY <1>3, <1>4, <3>1, <3>4 DEF OrderedAt, Age
    <3>8. pc'[Daemon] # "sampleStart" => Lag' <= age'[o.timer]
      BY <3>2, <3>4, <3>5, <3>6
    <3> QED
      BY <1>3, <3>1, <3>7, <3>8
  <2>3. \A m \in Timers \ Ordered : age'[m] = 0
    BY <1>2
  <2> QED
    BY <1>3, <2>1, <2>2, <2>3 DEF CommandOK
<1> QED
  BY <1>5, <1>7

LEMMA TimersTickStep == TimersParameters /\ TimersInv /\ TimersTick => TimersInv'
<1> SUFFICES ASSUME TimersParameters, TimersInv, TimersTick PROVE TimersInv'
  OBVIOUS
<1> USE DEF TimersInv
<1>1. /\ UNCHANGED <<suspended, xPendingReadyList, pc, timerVars, order>> /\ Elapse
      /\ \A t \in Tasks : late[t] < MaxLate[t]
      /\ late' = Later(clk')
  BY DEF TimersTick, IncrementTick
<1>2. UNCHANGED <<current, overflown, expiry, active, xLastTime, commands, reg>>
  BY <1>1 DEF timerVars
<1>3. Daemon \in Tasks /\ Orderers \subseteq Tasks /\ MaxLate \in [Tasks -> Nat]
      /\ MaxPended \in Nat /\ Daemon \notin Orderers
  BY TimersAssumption, ClockAssumption
<1>4. PICK n \in {0, 1} :
          /\ Lasted(clk, clk', n)
          /\ n = 1 => suspended = NoTask
          /\ n + xPendedTicks' = xPendedTicks + 1 /\ n <= xPendedTicks + 1
          /\ xPendedTicks' \in 0..MaxPended /\ (suspended = NoTask => xPendedTicks' = 0)
          /\ n = 0 => xPendedTicks' = xPendedTicks + 1
          /\ n = 1 => xPendedTicks' = 0 /\ xPendedTicks = 0
  <2>1. CASE suspended = NoTask
    <3>1. clk' = Ticked(clk) /\ xPendedTicks' = xPendedTicks /\ xPendedTicks = 0
      BY <2>1 DEF TimersTick, IncrementTick, TimersTypes
    <3>2. Lasted(clk, clk', 1)
      BY <3>1, TickedIs DEF TimersTypes
    <3> QED
      BY <1>3, <2>1, <3>1, <3>2
  <2>2. CASE suspended # NoTask
    <3>1. /\ clk' = clk /\ xPendedTicks' = xPendedTicks + 1 /\ xPendedTicks < MaxPended
          /\ xPendedTicks \in Nat
      BY <1>3, <2>2 DEF TimersTick, IncrementTick, TimersTypes
    <3>2. Lasted(clk, clk', 0)
      <4>1. ClockTyped(clk) /\ Delayed(clk)
        BY DEF TimersTypes
      <4>2. Since(clk.tick, clk.overflows, clk, 0)
        BY <4>1, RangeIs DEF Since, ClockTyped, Instants
      <4>3. \A t \in Tasks : Rest(clk, t) \in Int /\ clk.left[t] \in Nat
        BY <4>1, RestIs DEF ClockTyped
      <4> QED
        BY <3>1, <4>1, <4>2, <4>3 DEF Lasted, Since
    <3> QED
      BY <1>3, <2>2, <3>1, <3>2
  <2> QED
    BY <2>1, <2>2
<1>5. /\ ClockTyped(clk') /\ Delayed(clk') /\ Since(clk.tick, clk.overflows, clk', n)
      /\ clk'.forever = clk.forever
      /\ \A t \in Tasks : /\ t \in Timed(clk') <=> t \in Timed(clk) /\ (n = 0 \/ Rest(clk, t) > n)
                          /\ t \in Timed(clk') => Rest(clk', t) = Rest(clk, t) - n
      /\ n \in Nat /\ n < TickRange
  BY <1>4, RangeIs DEF Lasted
<1>6. /\ Switching <=> Switching'
      /\ Starting <=> Starting'
      /\ Draining <=> Draining'
      /\ Busy <=> Busy' 
      /\ Empty <=> Empty'
  BY <1>1, <1>2 DEF Switching, Starting, Draining, Busy, Empty
<1>7. Asleep(clk') \subseteq Asleep(clk)
  <2>1. Timed(clk) \subseteq Tasks /\ Timed(clk') \subseteq Tasks
    BY <1>5 DEF TimersTypes, ClockTyped, Timed
  <2> QED
    BY <1>5, <2>1 DEF Asleep, Timed
<1>8. /\ \A t \in Tasks : late'[t] = IF t \in Asleep(clk') \/ pc[t] = "idle" THEN 0
                                     ELSE late[t] + 1
      /\ late' \in [Tasks -> Nat] /\ \A t \in Tasks : late'[t] <= MaxLate[t]
  <2>1. late \in [Tasks -> Nat] /\ MaxLate \in [Tasks -> Nat]
    BY <1>3 DEF TimersTypes
  <2>2. late' = [t \in Tasks |-> IF t \in Asleep(clk') \/ pc[t] = "idle" THEN 0
                                 ELSE late[t] + 1]
    BY <1>1, <2>1 DEF Later
  <2>3. \A t \in Tasks : late[t] + 1 <= MaxLate[t] /\ late[t] \in Nat /\ MaxLate[t] \in Nat
    BY <1>1, <2>1
  <2> QED
    BY <2>2, <2>3
<1>9. TimersTypes'
  <2>1. due' \in [Timers -> Int] /\ age' \in [Timers -> Nat] /\ early' = FALSE
    BY <1>1, <1>5, TicksElapse
  <2>2. Asleep(clk') \subseteq {Daemon}
    BY <1>7 DEF TimersTypes
  <2> QED
    BY <1>1, <1>2, <1>4, <1>5, <1>8, <2>1, <2>2 DEF TimersTypes
<1>10. pc[Daemon] # "idle" /\ (Daemon \notin Asleep(clk') => late'[Daemon] = late[Daemon] + 1)
  BY <1>3, <1>8 DEF TimersTypes, DaemonPlaces
<1>11. ~Empty \/ Busy => Lag + n < TickRange
  <2> SUFFICES ASSUME ~Empty \/ Busy PROVE Lag + n < TickRange
    OBVIOUS
  <2>1. /\ Lag \in Nat /\ Bound = TickRange - 1 - MaxLate[Daemon] /\ late[Daemon] \in Nat
        /\ MaxLate[Daemon] \in Nat /\ late[Daemon] + 1 <= MaxLate[Daemon] /\ TickRange \in Nat
        /\ xPendedTicks \in Nat
    BY <1>1, <1>3, TimeIs, RangeIs DEF Instants
  <2>2. CASE Daemon \notin Asleep(clk)
    <3>1. Lag + xPendedTicks <= Bound + late[Daemon]
      BY <2>2 DEF LagOK
    <3> QED
      BY <1>4, <2>1, <3>1
  <2>3. CASE Daemon \in Asleep(clk)
    <3>1. ~Busy
      BY <2>3 DEF DaemonOK, Busy
    <3>2. Daemon \in Timed(clk)
      BY <2>3, <3>1 DEF LagOK, Asleep, Timed
    <3>3. /\ Rest(clk, Daemon) > 0 /\ Lag + Rest(clk, Daemon) <= Bound
          /\ Rest(clk, Daemon) \in Int
      BY <1>3, <3>2, RestIs DEF LagOK, TimersTypes
    <3> QED
      BY <1>4, <2>1, <3>3
  <2> QED
    BY <2>2, <2>3
<1>12. (\A m \in Timers : TimerOK(m)') /\ (Busy \/ ~Empty => Lag' = Lag + n)
  BY <1>1, <1>3, <1>5, <1>6, <1>11, TimersAfterTicks
<1>13. OrderOK' /\ CommandOK'
  <2>1. \A t \in Orderers : /\ pc'[t] = pc[t] /\ late'[t] \in Nat /\ late'[t] <= MaxLate[t]
                            /\ pc[t] = "order" => late[t] + 1 <= late'[t]
    <3>1. \A t \in Orderers : t \notin Asleep(clk')
      BY <1>3, <1>7 DEF TimersTypes
    <3>2. \A t \in Tasks : late[t] \in Nat
      BY DEF TimersTypes
    <3> QED
      BY <1>1, <1>3, <1>8, <3>1, <3>2
  <2>2. commands # <<>> \/ Starting =>
           late[Daemon] + 1 <= late'[Daemon] /\ late[Daemon] + 1 <= MaxLate[Daemon]
    <3> SUFFICES ASSUME commands # <<>> \/ Starting
                 PROVE  late[Daemon] + 1 <= late'[Daemon] /\ late[Daemon] + 1 <= MaxLate[Daemon]
      OBVIOUS
    <3>1. Daemon \notin Asleep(clk)
      BY DEF DaemonOK, Starting, Switching
    <3>2. late'[Daemon] = late[Daemon] + 1 /\ late[Daemon] \in Nat /\ MaxLate[Daemon] \in Nat
      BY <1>3, <1>7, <1>10, <3>1 DEF TimersTypes
    <3> QED
      BY <1>1, <1>3, <3>2
  <2>3. late'[Daemon] \in Nat /\ xPendedTicks' \in Nat /\ 1 \in Nat
    BY <1>3, <1>4, <1>8
  <2> QED
    BY <1>1, <1>4, <1>5, <1>6, <2>1, <2>2, <2>3, OrdersAfterTicks
<1>14. DaemonOK'
  <2>1. HeadOf(current)' = HeadOf(current)
    BY <1>2 DEF HeadOf
  <2>2. pc[Daemon] = "resumeBlocked" => Lag' = 0
    <3> SUFFICES ASSUME pc[Daemon] = "resumeBlocked" PROVE Lag' = 0
      OBVIOUS
    <3>1. Lag = 0 /\ suspended = Daemon /\ suspended # NoTask
      BY <1>3, TasksAssumption DEF DaemonOK
    <3>2. n = 0
      BY <1>4, <3>1
    <3>3. Lag + n < TickRange
      BY <3>1, <3>2, RangeIs
    <3>4. Lag' = Lag + n
      BY <1>2, <1>5, <1>6, <3>3, LagGrows
    <3> QED
      BY <3>1, <3>2, <3>4
  <2> QED
    BY <1>1, <1>2, <1>6, <1>7, <2>1, <2>2 DEF DaemonOK
<1>15. LagOK'
  <2>1. Daemon \in clk'.forever => Empty'
    BY <1>5, <1>6 DEF LagOK
  <2>2. /\ Lag \in Nat /\ Bound = TickRange - 1 - MaxLate[Daemon] /\ late[Daemon] \in Nat
        /\ MaxLate[Daemon] \in Nat /\ late[Daemon] + 1 <= MaxLate[Daemon] /\ TickRange \in Nat
        /\ xPendedTicks \in Nat /\ Bound \in Int /\ Bound' = Bound
    BY <1>1, <1>3, TimeIs, RangeIs DEF Instants, Bound
  <2>3. ASSUME Daemon \in Timed(clk')
        PROVE  Rest(clk', Daemon) > 0 /\ Lag' + Rest(clk', Daemon) <= Bound
    <3>1. /\ Daemon \in Timed(clk) /\ Rest(clk, Daemon) \in Int
          /\ Rest(clk', Daemon) = Rest(clk, Daemon) - n /\ (n = 0 \/ Rest(clk, Daemon) > n)
      BY <1>3, <1>5, <2>3, RestIs DEF TimersTypes
    <3>2. Rest(clk, Daemon) > 0 /\ Lag + Rest(clk, Daemon) <= Bound
      BY <3>1 DEF LagOK
    <3>3. Lag + n < TickRange
      BY <1>5, <2>2, <3>1, <3>2
    <3>4. Lag' = Lag + n
      BY <1>2, <1>5, <1>6, <3>3, LagGrows
    <3> QED
      BY <1>5, <2>2, <3>1, <3>2, <3>4
  <2>4. ASSUME ~Empty \/ Busy, Daemon \notin Asleep(clk')
        PROVE  Lag' + xPendedTicks' <= Bound + late'[Daemon]
    <3>1. Lag' = Lag + n /\ late'[Daemon] = late[Daemon] + 1
      BY <1>10, <1>12, <2>4
    <3>2. CASE Daemon \notin Asleep(clk)
      <4>1. Lag + xPendedTicks <= Bound + late[Daemon]
        BY <2>4, <3>2 DEF LagOK
      <4> QED
        BY <1>4, <2>2, <3>1, <4>1
    <3>3. CASE Daemon \in Asleep(clk)
      <4>1. Daemon \in Timed(clk) /\ Daemon \notin Timed(clk')
        BY <1>5, <2>4, <3>3 DEF Asleep, Timed
      <4>2. n = 1
        BY <1>3, <1>4, <1>5, <4>1
      <4>3. /\ Rest(clk, Daemon) > 0 /\ Lag + Rest(clk, Daemon) <= Bound
            /\ Rest(clk, Daemon) \in Int
        BY <1>3, <4>1, RestIs DEF LagOK, TimersTypes
      <4> QED
        BY <1>4, <2>2, <3>1, <4>2, <4>3
    <3> QED
      BY <3>2, <3>3
  <2> QED
    BY <1>6, <2>1, <2>2, <2>3, <2>4 DEF LagOK
<1> QED
  BY <1>9, <1>12, <1>13, <1>14, <1>15

\* xTaskResumeAll, in the daemon.
LEMMA ResumeDaemonStep == TimersParameters /\ TimersInv /\ ResumeDaemon => TimersInv'
<1> SUFFICES ASSUME TimersParameters, TimersInv, ResumeDaemon PROVE TimersInv'
  OBVIOUS
<1> USE DEF TimersInv
<1>1. /\ suspended = Daemon /\ suspended' = NoTask /\ xPendingReadyList' = {}
      /\ xPendedTicks' = 0 /\ Elapse /\ UNCHANGED <<timerVars, order>>
  BY DEF ResumeDaemon, ResumeScheduler
<1>2. UNCHANGED <<current, overflown, expiry, active, xLastTime, commands, reg>>
  BY <1>1 DEF timerVars
<1>3. /\ Daemon \in Tasks /\ Orderers \subseteq Tasks /\ MaxLate \in [Tasks -> Nat]
      /\ MaxPended \in Nat /\ Daemon \notin Orderers /\ Daemon # NoTask
      /\ MaxPended + MaxLate[Daemon] < TickRange
  BY TimersAssumption, TasksAssumption, ClockAssumption DEF TimersParameters
<1>4. PICK n \in 0..MaxPended : n = xPendedTicks
  BY DEF TimersTypes
<1>5. n \in Nat /\ n < TickRange /\ n <= TickRange
  BY <1>3, <1>4, RangeIs
<1>6. /\ pc[Daemon] \in {"resumeSwitched", "resumeExpired", "resumeBlocked"}
      /\ pc' = [pc EXCEPT ![Daemon] = IF pc[Daemon] = "resumeExpired" THEN "expire" ELSE "receive"]
      /\ late' = IF pc[Daemon] = "resumeBlocked" THEN [late EXCEPT ![Daemon] = 0] ELSE late
  BY DEF ResumeDaemon, Go
<1>7. /\ pc'[Daemon] = IF pc[Daemon] = "resumeExpired" THEN "expire" ELSE "receive"
      /\ pc' \in [Tasks -> DaemonPlaces \cup {"idle", "order"}]
      /\ \A t \in Tasks : t # Daemon => pc'[t] = pc[t]
  BY <1>3, <1>6 DEF TimersTypes, DaemonPlaces
<1>8. PICK r : /\ Lasted(r, clk', n)
               /\ ClockTyped(r) /\ Delayed(r)
               /\ r.tick = clk.tick /\ r.overflows = clk.overflows
               /\ r.forever = clk.forever /\ Timed(r) = Timed(clk)
               /\ \A t \in Timed(r) : Rest(r, t) = Rest(clk, t)
  <2>1. /\ ClockTyped(clk) /\ Delayed(clk) /\ xPendedTicks \in Nat /\ xPendedTicks <= TickRange
        /\ xPendingReadyList = {} /\ ResumeScheduler
    BY <1>4, <1>5 DEF TimersTypes, ResumeDaemon
  <2> QED
    BY <1>4, <2>1, ResumeIs
<1>9. /\ ClockTyped(clk') /\ Delayed(clk') /\ Since(clk.tick, clk.overflows, clk', n)
      /\ clk'.forever = clk.forever
      /\ \A t \in Tasks : /\ t \in Timed(clk') <=> t \in Timed(clk) /\ (n = 0 \/ Rest(clk, t) > n)
                          /\ t \in Timed(clk') => Rest(clk', t) = Rest(clk, t) - n
  BY <1>8 DEF Lasted, Since
<1>10. /\ ~Switching /\ ~Switching' /\ ~Starting /\ ~Starting' /\ ~Draining
       /\ pc'[Daemon] = "receive" => Draining'
       /\ Empty <=> Empty'
       /\ Busy' => Busy
       /\ pc[Daemon] # "resumeBlocked" => Busy
       /\ ~Draining /\ pc'[Daemon] # "sampleStart" /\ pc[Daemon] # "sampleStart"
  BY <1>2, <1>6, <1>7 DEF Switching, Starting, Draining, Busy, Empty
<1>11. Asleep(clk') \subseteq Asleep(clk)
  <2>1. Timed(clk) \subseteq Tasks /\ Timed(clk') \subseteq Tasks
    BY <1>9 DEF TimersTypes, ClockTyped, Timed
  <2> QED
    BY <1>9, <2>1 DEF Asleep, Timed
<1>12. /\ late' \in [Tasks -> Nat] /\ \A t \in Tasks : late'[t] <= MaxLate[t]
       /\ \A t \in Tasks : t # Daemon => late'[t] = late[t]
       /\ late'[Daemon] = IF pc[Daemon] = "resumeBlocked" THEN 0 ELSE late[Daemon]
  <2>1. late \in [Tasks -> Nat] /\ MaxLate \in [Tasks -> Nat]
    BY <1>3 DEF TimersTypes
  <2>2. \A t \in Tasks : late[t] <= MaxLate[t] /\ late[t] \in Nat /\ MaxLate[t] \in Nat
    BY <2>1 DEF TimersTypes
  <2> QED
    BY <1>3, <1>6, <2>1, <2>2
<1>13. TimersTypes'
  <2>1. due' \in [Timers -> Int] /\ age' \in [Timers -> Nat] /\ early' = FALSE
    BY <1>1, <1>5, <1>9, TicksElapse
  <2>2. Asleep(clk') \subseteq {Daemon}
    BY <1>11 DEF TimersTypes
  <2>3. pc'[Daemon] \in DaemonPlaces /\ \A t \in Orderers : pc'[t] \in {"idle", "order"}
    BY <1>3, <1>7 DEF TimersTypes, DaemonPlaces
  <2>4. xPendedTicks' \in 0..MaxPended /\ suspended' \in {NoTask, Daemon}
    BY <1>1, <1>3
  <2> QED
    BY <1>1, <1>2, <1>7, <1>9, <1>12, <2>1, <2>2, <2>3, <2>4 DEF TimersTypes
<1>14. /\ Lag \in Nat /\ Bound = TickRange - 1 - MaxLate[Daemon] /\ late[Daemon] \in Nat
       /\ MaxLate[Daemon] \in Nat /\ late[Daemon] <= MaxLate[Daemon] /\ TickRange \in Nat
       /\ xPendedTicks \in Nat /\ Bound' = Bound /\ Bound \in Int
  BY TimeIs, RangeIs DEF Instants, Bound
<1>15. Lag + n < TickRange /\ (pc[Daemon] = "resumeBlocked" => Lag = 0)
  <2>1. CASE pc[Daemon] = "resumeBlocked"
    <3>1. Lag = 0
      BY <2>1 DEF DaemonOK
    <3> QED
      BY <1>5, <3>1
  <2>2. CASE pc[Daemon] # "resumeBlocked"
    <3>1. Daemon \notin Asleep(clk)
      BY <1>6, <2>2 DEF DaemonOK
    <3>2. Lag + xPendedTicks <= Bound + late[Daemon]
      BY <1>10, <2>2, <3>1 DEF LagOK
    <3> QED
      BY <1>4, <1>14, <2>2, <3>2
  <2> QED
    BY <2>1, <2>2
<1>16. Lag' = Lag + n
  BY <1>2, <1>5, <1>9, <1>10, <1>15, LagGrows
<1>17. \A m \in Timers : TimerOK(m)'
  <2>1. pc[Daemon] \notin {"reload", "callback"} /\ pc'[Daemon] \notin {"reload", "callback"}
    BY <1>6, <1>7
  <2> QED
    BY <1>1, <1>3, <1>5, <1>9, <1>10, <1>15, <2>1, TimersAfterTicks
<1>18. OrderOK' /\ CommandOK'
  <2>1. \A t \in Orderers : /\ pc'[t] = pc[t] /\ late'[t] \in Nat /\ late'[t] <= MaxLate[t]
                            /\ pc[t] = "order" => late[t] + 0 <= late'[t]
    <3>1. \A t \in Tasks : late[t] \in Nat
      BY DEF TimersTypes
    <3> QED
      BY <1>3, <1>7, <1>12, <3>1
  <2>2. commands # <<>> \/ Starting =>
           /\ \/ late[Daemon] + 0 <= late'[Daemon]
              \/ Draining' /\ ~Draining /\ 0 = 0
           /\ late[Daemon] + 0 <= MaxLate[Daemon]
    <3>1. late[Daemon] + 0 = late[Daemon]
      BY <1>14
    <3>2. late[Daemon] <= late'[Daemon] \/ (Draining' /\ ~Draining)
      BY <1>7, <1>10, <1>12, <1>14
    <3> QED
      BY <1>14, <3>1, <3>2
  <2>3. /\ late'[Daemon] \in Nat /\ xPendedTicks' \in Nat /\ 0 \in Nat
        /\ n + xPendedTicks' = xPendedTicks + 0 /\ n <= xPendedTicks + 0
    BY <1>1, <1>4, <1>5, <1>12, <1>14
  <2>4. (Starting <=> Starting') /\ (Switching <=> Switching') /\ (Draining => Draining')
        /\ (pc'[Daemon] = "sampleStart" <=> pc[Daemon] = "sampleStart")
    BY <1>10
  <2> QED
    BY <1>1, <1>5, <1>9, <2>1, <2>2, <2>3, <2>4, OrdersAfterTicks
<1>19. DaemonOK'
  <2>1. HeadOf(current)' = HeadOf(current)
    BY <1>2 DEF HeadOf
  <2>2. pc'[Daemon] \in {"receive", "expire"} /\ (pc'[Daemon] = "expire" => pc[Daemon] = "resumeExpired")
    BY <1>7
  <2>3. /\ suspended' # Daemon
        /\ Daemon \in Asleep(clk') => pc[Daemon] = "resumeBlocked" /\ commands = <<>>
        /\ reg.message.timer = NoTimer
    BY <1>1, <1>3, <1>6, <1>10, <1>11 DEF DaemonOK
  <2>4. Daemon \in Asleep(clk') => pc'[Daemon] = "receive"
    BY <1>7, <2>3
  <2> QED
    BY <1>2, <1>10, <2>1, <2>2, <2>3, <2>4 DEF DaemonOK
<1>20. LagOK'
  <2>1. Daemon \in clk'.forever => Empty'
    BY <1>9, <1>10 DEF LagOK
  <2>3. ASSUME Daemon \in Timed(clk')
        PROVE  Rest(clk', Daemon) > 0 /\ Lag' + Rest(clk', Daemon) <= Bound
    <3>1. /\ Daemon \in Timed(clk) /\ Rest(clk, Daemon) \in Int
          /\ Rest(clk', Daemon) = Rest(clk, Daemon) - n /\ (n = 0 \/ Rest(clk, Daemon) > n)
      BY <1>3, <1>9, <2>3, RestIs DEF TimersTypes
    <3>2. Rest(clk, Daemon) > 0 /\ Lag + Rest(clk, Daemon) <= Bound
      BY <3>1 DEF LagOK
    <3> QED
      BY <1>5, <1>14, <1>16, <3>1, <3>2
  <2>4. ASSUME ~Empty \/ Busy, Daemon \notin Asleep(clk')
        PROVE  Lag' + xPendedTicks' <= Bound + late'[Daemon]
    <3>1. CASE pc[Daemon] = "resumeBlocked"
      BY <1>1, <1>3, <1>4, <1>12, <1>14, <1>15, <1>16, <3>1
    <3>2. CASE pc[Daemon] # "resumeBlocked"
      <4>1. Daemon \notin Asleep(clk)
        BY <1>6, <3>2 DEF DaemonOK
      <4>2. Lag + xPendedTicks <= Bound + late[Daemon]
        BY <1>10, <3>2, <4>1 DEF LagOK
      <4> QED
        BY <1>1, <1>4, <1>12, <1>14, <1>16, <3>2, <4>2
    <3> QED
      BY <3>1, <3>2
  <2> QED
    BY <1>10, <1>14, <2>1, <2>3, <2>4 DEF LagOK
<1> QED
  BY <1>13, <1>17, <1>18, <1>19, <1>20

-------------------------------------------------------------------------------
\* The tasks that start timers

\* What they leave as it is.
LEMMA NotTheDaemon ==
    ASSUME UNCHANGED <<current, overflown, expiry, active, xLastTime, reg, due>>,
           pc'[Daemon] = pc[Daemon], clk'.tick = clk.tick,
           Daemon \in Timed(clk') =>
              Daemon \in Timed(clk) /\ Rest(clk', Daemon) = Rest(clk, Daemon)
    PROVE  /\ Lag' = Lag /\ Now' = Now /\ (Switching <=> Switching') /\ (Starting <=> Starting')
           /\ (Draining <=> Draining') /\ (Busy <=> Busy') /\ (Empty <=> Empty')
           /\ HeadOf(current)' = HeadOf(current)
           /\ \A m \in Timers : TimerOK(m) => TimerOK(m)'
<1>1. /\ (Switching <=> Switching') /\ (Starting <=> Starting')
      /\ (Draining <=> Draining') /\ (Busy <=> Busy') /\ (Empty <=> Empty')
  BY DEF Switching, Starting, Draining, Busy, Empty
<1>2. Base' = Base
  BY <1>1 DEF Base
<1>3. Lag' = Lag
  BY <1>2 DEF Lag
<1>4. Now' = Now
  BY <1>1, <1>2, <1>3 DEF Now
<1>5. HeadOf(current)' = HeadOf(current)
  BY DEF HeadOf
<1>6. ASSUME NEW m \in Timers, TimerOK(m)
      PROVE  TimerOK(m)'
  <2>1. At(m)' = At(m) /\ Listed' = Listed /\ Expired' = Expired
    BY DEF At, Listed, Expired
  <2> QED
    BY <1>4, <1>6, <2>1 DEF TimerOK
<1> QED
  BY <1>1, <1>3, <1>4, <1>5, <1>6

LEMMA ReadTickCountStep ==
    ASSUME TimersParameters, TimersInv, NEW t \in Orderers, ReadTickCount(t)
    PROVE  TimersInv'
<1> USE DEF TimersInv
<1>1. /\ t \in Tasks /\ t # Daemon /\ Daemon \in Tasks /\ NoTimer \notin Timers
      /\ Orderers \subseteq Tasks
  BY TimersAssumption DEF TimersParameters
<1>2. PICK m \in Timers \ (Ordered \cup active) :
          order' = [order EXCEPT ![t] = [timer |-> m, value |-> clk.tick]]
  BY DEF ReadTickCount
<1>3. PICK o : o = [timer |-> m, value |-> clk.tick]
  OBVIOUS
<1>4. clk.tick \in Instants /\ o \in Orders /\ o.timer = m /\ o.value = clk.tick
  <2>1. clk.tick \in Instants
    BY DEF TimersTypes, ClockTyped
  <2> QED
    BY <1>2, <1>3, <2>1 DEF Orders
<1>5. /\ order' \in [Tasks -> Orders] /\ order'[t] = o
      /\ \A u \in Tasks : u # t => order'[u] = order[u]
      /\ pc' \in [Tasks -> DaemonPlaces \cup {"idle", "order"}] /\ pc'[t] = "order"
      /\ \A u \in Tasks : u # t => pc'[u] = pc[u]
      /\ pc[t] = "idle"
  BY <1>1, <1>2, <1>3, <1>4 DEF TimersTypes, ReadTickCount, ClockAt, Go
<1>6. /\ UNCHANGED <<suspended, xPendingReadyList, clk, xPendedTicks, job, late, current,
                     overflown, expiry, active, xLastTime, commands, reg, due, age, early>>
      /\ suspended = NoTask
  BY DEF ReadTickCount, clockVars, timerVars, timersHistory
<1>7. pc'[Daemon] = pc[Daemon]
  BY <1>1, <1>5
<1>8. /\ Lag' = Lag /\ Now' = Now /\ (Switching <=> Switching') /\ (Starting <=> Starting')
      /\ (Draining <=> Draining') /\ (Busy <=> Busy') /\ (Empty <=> Empty')
      /\ HeadOf(current)' = HeadOf(current)
      /\ \A n \in Timers : TimerOK(n)'
  BY <1>6, <1>7, NotTheDaemon DEF Timed, Rest
<1>9. TimersTypes'
  <2>1. \A u \in Orderers : pc'[u] \in {"idle", "order"}
    BY <1>1, <1>5 DEF TimersTypes
  <2> QED
    BY <1>5, <1>6, <1>7, <2>1 DEF TimersTypes, Timed, Asleep
<1>10. DaemonOK'
  BY <1>6, <1>7, <1>8 DEF DaemonOK, Asleep
<1>11. LagOK'
  BY <1>6, <1>7, <1>8 DEF LagOK, Bound, Timed, Rest, Asleep
<1>12. /\ m \notin Ordered /\ m \notin active /\ m \in Timers
       /\ \A u \in Tasks : order[u].timer # m
       /\ \A i \in 1..Len(commands) : commands[i].timer # m
       /\ reg.message.timer # m
  BY <1>2 DEF Ordered
<1>13. OrderOK'
  <2>1. age[m] = 0 /\ xPendedTicks = 0 /\ late[t] \in Nat
    BY <1>1, <1>6, <1>12 DEF CommandOK, TimersTypes
  <2>2. ASSUME NEW u \in Tasks, order'[u].timer \in Timers
        PROVE  /\ u \in Orderers /\ pc'[u] = "order" /\ OrderedAt(order[u])'
               /\ age[order'[u].timer] + xPendedTicks <= late[u]
               /\ \A v \in Tasks : order'[v].timer = order'[u].timer => v = u
               /\ \A i \in 1..Len(commands) : commands[i].timer # order'[u].timer
               /\ reg.message.timer # order'[u].timer
    <3>1. CASE u = t
      <4>1. OrderedAt(order[u])'
        <5>1. clk.tick + 0 = clk.tick
          BY <1>4, RangeIs DEF Instants
        <5> QED
          BY <1>4, <1>5, <1>6, <1>12, <2>1, <3>1, <5>1 DEF OrderedAt
      <4> QED
        BY <1>4, <1>5, <1>12, <2>1, <3>1, <4>1
    <3>2. CASE u # t
      <4>1. order'[u] = order[u] /\ pc'[u] = pc[u]
        BY <1>5, <3>2
      <4>2. order[u].timer # m
        BY <1>12
      <4>3. OrderedAt(order[u])'
        BY <1>6, <2>2, <4>1 DEF OrderOK, OrderedAt
      <4> QED
        BY <1>4, <1>5, <2>2, <4>1, <4>2, <4>3 DEF OrderOK
    <3> QED
      BY <3>1, <3>2
  <2>3. \A u \in Orderers : pc'[u] = "order" => order'[u].timer \in Timers
    BY <1>1, <1>4, <1>5, <1>12 DEF OrderOK
  <2> QED
    BY <1>6, <2>2, <2>3 DEF OrderOK
<1>14. CommandOK'
  <2>1. \A i \in 1..Len(commands) : OrderedAt(commands[i])' /\ Age(commands[i])'
    BY <1>6, <1>8 DEF CommandOK, OrderedAt, Age, Oldest
  <2>2. Starting => OrderedAt(reg.message)' /\ Age(reg.message)'
    BY <1>6, <1>8 DEF CommandOK, OrderedAt, Age, Oldest
  <2>3. \A n \in Timers \ Ordered' : age[n] = 0
    <3>1. ASSUME NEW n \in Timers \ Ordered' PROVE n \notin Ordered
      <4> SUFFICES ASSUME n \in Ordered PROVE FALSE
        OBVIOUS
      <4>1. CASE \E u \in Tasks : order[u].timer = n
        <5>1. PICK u \in Tasks : order[u].timer = n
          BY <4>1
        <5>2. u # t
          BY <1>5, <3>1, <5>1, <1>1 DEF OrderOK
        <5>3. order'[u].timer = n
          BY <1>5, <5>1, <5>2
        <5> QED
          BY <3>1, <5>3 DEF Ordered
      <4>2. CASE n = reg.message.timer \/ \E i \in 1..Len(commands) : commands[i].timer = n
        BY <1>6, <3>1, <4>2 DEF Ordered
      <4> QED
        BY <4>1, <4>2 DEF Ordered
    <3> QED
      BY <3>1 DEF CommandOK
  <2> QED
    BY <1>6, <1>7, <1>8, <2>1, <2>2, <2>3 DEF CommandOK
<1> QED
  BY <1>8, <1>9, <1>10, <1>11, <1>13, <1>14

LEMMA SendCommandStep ==
    ASSUME TimersParameters, TimersInv, NEW t \in Orderers, SendCommand(t)
    PROVE  TimersInv'
<1> USE DEF TimersInv
<1>1. /\ t \in Tasks /\ t # Daemon /\ Daemon \in Tasks /\ NoTimer \notin Timers
      /\ Orderers \subseteq Tasks
  BY TimersAssumption DEF TimersParameters
<1>2. /\ UNCHANGED <<suspended, xPendingReadyList, xPendedTicks, job, current,
                     overflown, expiry, active, xLastTime, reg, due, age, early>>
      /\ suspended = NoTask /\ pc[t] = "order" /\ commands' = Append(commands, order[t])
      /\ order' = [order EXCEPT ![t] = NoOrder] /\ late' = [late EXCEPT ![t] = 0]
      /\ pc' = [pc EXCEPT ![t] = "idle"] /\ clk' = Removed(clk, {Daemon} \cap Asleep(clk))
  BY DEF SendCommand, ClockAt, Go, timersHistory
<1>3. PICK o \in Orders : o = order[t]
  BY <1>1 DEF TimersTypes
<1>4. NoOrder \in Orders /\ NoOrder.timer = NoTimer
  BY RangeIs DEF NoOrder, Orders, Instants
<1>5. /\ order' \in [Tasks -> Orders] /\ order'[t] = NoOrder
      /\ \A u \in Tasks : u # t => order'[u] = order[u]
      /\ pc' \in [Tasks -> DaemonPlaces \cup {"idle", "order"}] /\ pc'[t] = "idle"
      /\ \A u \in Tasks : u # t => pc'[u] = pc[u]
      /\ late' \in [Tasks -> Nat] /\ \A u \in Tasks : late'[u] <= MaxLate[u]
      /\ \A u \in Tasks : u # t => late'[u] = late[u]
  <2>1. /\ late \in [Tasks -> Nat] /\ MaxLate \in [Tasks -> Nat]
        /\ \A u \in Tasks : late[u] <= MaxLate[u]
    BY ClockAssumption DEF TimersTypes
  <2>2. \A u \in Tasks : late'[u] = IF u = t THEN 0 ELSE late[u]
    BY <1>2, <2>1
  <2>3. late' \in [Tasks -> Nat] /\ \A u \in Tasks : late'[u] <= MaxLate[u]
    <3>1. \A u \in Tasks : late'[u] \in Nat /\ late'[u] <= MaxLate[u]
      <4>1. \A u \in Tasks : MaxLate[u] \in Nat
        BY <2>1
      <4> QED
        BY <2>1, <2>2, <4>1
    <3> QED
      BY <1>2, <2>1, <3>1
  <2> QED
    BY <1>1, <1>2, <1>4, <2>2, <2>3 DEF TimersTypes
<1>6. /\ ClockTyped(clk') /\ Delayed(clk') /\ clk'.tick = clk.tick
      /\ clk'.forever = clk.forever \ ({Daemon} \cap Asleep(clk))
      /\ Timed(clk') = Timed(clk) \ ({Daemon} \cap Asleep(clk))
      /\ \A u \in Timed(clk') : Rest(clk', u) = Rest(clk, u)
  BY <1>2, RemovedRight DEF TimersTypes
<1>7. pc'[Daemon] = pc[Daemon] /\ late'[Daemon] = late[Daemon]
  BY <1>1, <1>5
<1>8. Asleep(clk') = {}
  <2>1. Asleep(clk) \subseteq {Daemon}
    BY DEF TimersTypes
  <2> QED
    BY <1>6, <2>1 DEF Asleep, Timed
<1>9. /\ Lag' = Lag /\ Now' = Now /\ (Switching <=> Switching') /\ (Starting <=> Starting')
      /\ (Draining <=> Draining') /\ (Busy <=> Busy') /\ (Empty <=> Empty')
      /\ HeadOf(current)' = HeadOf(current)
      /\ \A n \in Timers : TimerOK(n)'
  <2>1. Daemon \notin Timed(clk')
    BY <1>8 DEF Asleep, Timed
  <2> QED
    BY <1>2, <1>6, <1>7, <2>1, NotTheDaemon
<1>10. /\ commands \in Seq(Orders) /\ commands' \in Seq(Orders)
       /\ Len(commands') = Len(commands) + 1 /\ Len(commands) \in Nat
       /\ commands'[Len(commands) + 1] = o
       /\ \A i \in 1..Len(commands) : commands'[i] = commands[i]
  <2>1. commands \in Seq(Orders)
    BY DEF TimersTypes
  <2> QED
    BY <1>2, <1>3, <2>1
<1>11. TimersTypes'
  <2>1. \A u \in Orderers : pc'[u] \in {"idle", "order"}
    BY <1>1, <1>5 DEF TimersTypes
  <2> QED
    BY <1>2, <1>5, <1>6, <1>7, <1>8, <1>10, <2>1 DEF TimersTypes
<1>12. DaemonOK'
  BY <1>2, <1>7, <1>8, <1>9 DEF DaemonOK
<1>13. LagOK'
  <2>1. Daemon \notin Timed(clk') /\ Daemon \notin clk'.forever
    BY <1>8 DEF Asleep, Timed
  <2>2. ASSUME ~Empty \/ Busy PROVE Lag + xPendedTicks <= Bound + late[Daemon]
    <3>1. /\ Lag \in Nat /\ late[Daemon] \in Nat /\ xPendedTicks = 0 /\ Bound \in Int
      <4>1. xPendedTicks = 0
        BY <1>2 DEF TimersTypes
      <4> QED
        BY <4>1, TimeIs DEF Instants
    <3>2. CASE Daemon \notin Asleep(clk)
      BY <2>2, <3>2 DEF LagOK
    <3>3. CASE Daemon \in Asleep(clk)
      <4>1. Daemon \in Timed(clk)
        BY <2>2, <3>3 DEF LagOK, Asleep, Timed, DaemonOK, Busy
      <4>2. Rest(clk, Daemon) > 0 /\ Lag + Rest(clk, Daemon) <= Bound /\ Rest(clk, Daemon) \in Int
        BY <1>1, <4>1, RestIs DEF LagOK, TimersTypes
      <4> QED
        BY <3>1, <4>2
    <3> QED
      BY <3>2, <3>3
  <2> QED
    BY <1>2, <1>7, <1>8, <1>9, <2>1, <2>2 DEF LagOK, Bound
<1>14. /\ o.timer \in Timers /\ OrderedAt(o) /\ age[o.timer] + xPendedTicks <= late[t]
       /\ \A u \in Tasks : order[u].timer = o.timer => u = t
       /\ \A i \in 1..Len(commands) : commands[i].timer # o.timer
       /\ reg.message.timer # o.timer
  BY <1>1, <1>2, <1>3 DEF OrderOK
<1>15. Age(o)
  <2>1. MaxLate[t] + 2 * MaxLate[Daemon] < TickRange /\ MaxLate[t] \in Nat
    BY <1>1, ClockAssumption DEF TimersParameters
  <2>2. late[t] \in Nat /\ late[t] <= MaxLate[t]
    BY <1>1 DEF TimersTypes
  <2>3. /\ late[Daemon] \in Nat /\ Oldest = TickRange - 1 - 2 * MaxLate[Daemon]
        /\ MaxLate[Daemon] \in Nat /\ xPendedTicks \in Nat /\ age[o.timer] \in Nat
        /\ Oldest \in Int
    BY <1>14, TimeIs DEF TimersTypes
  <2>4. age[o.timer] + xPendedTicks <= Oldest
    <3>1. PICK g \in Nat : g = age[o.timer]
      BY <2>3
    <3>2. g + xPendedTicks <= late[t]
      BY <1>14, <3>1
    <3>3. g + xPendedTicks <= Oldest
      BY ONLY <2>1, <2>2, <2>3, <3>2, RangeIs, g \in Nat
    <3> QED
      BY <3>1, <3>3
  <2>5. PICK d \in Nat : d = IF Draining THEN MaxLate[Daemon] ELSE 0
    BY <2>3
  <2>6. age[o.timer] + xPendedTicks <= Oldest + d + late[Daemon]
    BY <2>3, <2>4, <2>5
  <2> QED
    BY <2>5, <2>6 DEF Age
<1>16. OrderOK'
  <2>1. ASSUME NEW u \in Tasks, order'[u].timer \in Timers
        PROVE  /\ u \in Orderers /\ pc'[u] = "order" /\ OrderedAt(order[u])'
               /\ age[order'[u].timer] + xPendedTicks <= late'[u]
               /\ \A v \in Tasks : order'[v].timer = order'[u].timer => v = u
               /\ \A i \in 1..Len(commands') : commands'[i].timer # order'[u].timer
               /\ reg.message.timer # order'[u].timer
    <3>1. u # t /\ order'[u] = order[u] /\ pc'[u] = pc[u] /\ late'[u] = late[u]
      BY <1>1, <1>4, <1>5, <2>1
    <3>2. OrderedAt(order[u])'
      BY <1>2, <1>6, <2>1, <3>1 DEF OrderOK, OrderedAt
    <3>3. order[u].timer # o.timer
      BY <1>14, <3>1
    <3>4. \A v \in Tasks : order'[v].timer = order'[u].timer => v = u
      BY <1>4, <1>5, <2>1, <1>1, <3>1 DEF OrderOK
    <3>5. \A i \in 1..Len(commands') : commands'[i].timer # order'[u].timer
      <4> SUFFICES ASSUME NEW i \in 1..Len(commands') PROVE commands'[i].timer # order'[u].timer
        OBVIOUS
      <4>1. i \in 1..Len(commands) \/ i = Len(commands) + 1
        BY <1>10
      <4> QED
        BY <1>10, <2>1, <3>1, <3>3, <4>1 DEF OrderOK
    <3> QED
      BY <2>1, <3>1, <3>2, <3>4, <3>5 DEF OrderOK
  <2>2. \A u \in Orderers : pc'[u] = "order" => order'[u].timer \in Timers
    BY <1>1, <1>5 DEF OrderOK
  <2> QED
    BY <1>2, <2>1, <2>2 DEF OrderOK
<1>17. CommandOK'
  <2>1. ASSUME NEW i \in 1..Len(commands')
        PROVE  /\ commands'[i].timer \in Timers /\ OrderedAt(commands[i])' /\ Age(commands[i])'
               /\ \A j \in 1..Len(commands') : commands'[j].timer = commands'[i].timer => j = i
               /\ reg.message.timer # commands'[i].timer
    <3>1. \A j \in 1..Len(commands') : \/ j \in 1..Len(commands) /\ commands'[j] = commands[j]
                                       \/ j = Len(commands) + 1 /\ commands'[j] = o
      BY <1>10
    <3>2. PICK c : c = commands'[i]
      OBVIOUS
    <3>3. c.timer \in Timers /\ OrderedAt(c) /\ Age(c) /\ reg.message.timer # c.timer
      BY <1>14, <1>15, <2>1, <3>1, <3>2 DEF CommandOK
    <3>4. \A j \in 1..Len(commands') : commands'[j].timer = commands'[i].timer => j = i
      <4> SUFFICES ASSUME NEW j \in 1..Len(commands'), commands'[j].timer = commands'[i].timer
                   PROVE  j = i
        OBVIOUS
      <4>1. \/ j \in 1..Len(commands) /\ commands'[j] = commands[j]
            \/ j = Len(commands) + 1 /\ commands'[j] = o
        BY <3>1
      <4>2. \/ i \in 1..Len(commands) /\ commands'[i] = commands[i]
            \/ i = Len(commands) + 1 /\ commands'[i] = o
        BY <3>1
      <4> QED
        BY <1>14, <4>1, <4>2 DEF CommandOK
    <3> QED
      BY <1>2, <1>6, <1>7, <1>9, <3>2, <3>3, <3>4 DEF OrderedAt, Age, Oldest
  <2>2. Starting => OrderedAt(reg.message)' /\ Age(reg.message)'
    BY <1>2, <1>6, <1>7, <1>9 DEF CommandOK, OrderedAt, Age, Oldest
  <2>3. \A n \in Timers \ Ordered' : age[n] = 0
    <3>1. ASSUME NEW n \in Timers \ Ordered' PROVE n \notin Ordered
      <4> SUFFICES ASSUME n \in Ordered PROVE FALSE
        OBVIOUS
      <4>1. CASE \E u \in Tasks : order[u].timer = n
        <5>1. PICK u \in Tasks : order[u].timer = n
          BY <4>1
        <5>2. CASE u = t
          <6>1. commands'[Len(commands) + 1].timer = n /\ Len(commands) + 1 \in 1..Len(commands')
            BY <1>3, <1>10, <5>1, <5>2
          <6> QED
            BY <3>1, <6>1 DEF Ordered
        <5>3. CASE u # t
          BY <1>5, <3>1, <5>1, <5>3 DEF Ordered
        <5> QED
          BY <5>2, <5>3
      <4>2. CASE n = reg.message.timer
        BY <1>2, <3>1, <4>2 DEF Ordered
      <4>3. CASE \E i \in 1..Len(commands) : commands[i].timer = n
        <5>1. PICK i \in 1..Len(commands) : commands[i].timer = n
          BY <4>3
        <5>2. i \in 1..Len(commands') /\ commands'[i].timer = n
          BY <1>10, <5>1
        <5> QED
          BY <3>1, <5>2 DEF Ordered
      <4> QED
        BY <4>1, <4>2, <4>3 DEF Ordered
    <3> QED
      BY <3>1 DEF CommandOK
  <2> QED
    BY <1>2, <1>7, <1>9, <2>1, <2>2, <2>3 DEF CommandOK
<1> QED
  BY <1>9, <1>11, <1>12, <1>13, <1>16, <1>17

-------------------------------------------------------------------------------
\* The steps of the daemon

RegisterTypes ==
    [next : Instants, empty : BOOLEAN, timer : Timers \cup {NoTimer},
     expired : Instants, now : Instants, sampled : Instants,
     then : {"next", "receive", "switch"},
     back : {"next", "resumeSwitched", "start"}, message : Orders]

LEMMA RegistersIs ==
    ASSUME TimersTypes
    PROVE  /\ reg \in RegisterTypes /\ Registers \in RegisterTypes
           /\ NoOrder \in Orders /\ NoOrder.timer = NoTimer
           /\ Registers.next = 0 /\ Registers.empty = TRUE /\ Registers.timer = NoTimer
           /\ Registers.expired = 0 /\ Registers.now = 0 /\ Registers.sampled = 0
           /\ Registers.then = "next" /\ Registers.back = "next" /\ Registers.message = NoOrder
<1>1. 0 \in Instants
  BY RangeIs DEF Instants
<1>2. NoOrder \in Orders /\ NoOrder.timer = NoTimer
  BY <1>1 DEF NoOrder, Orders
<1>3. Registers \in RegisterTypes
  BY <1>1, <1>2 DEF Registers, RegisterTypes
<1> QED
  BY <1>2, <1>3 DEF TimersTypes, RegisterTypes, Registers

LEMMA DaemonGoes ==
    ASSUME TimersTypes, NEW place \in DaemonPlaces, pc' = [pc EXCEPT ![Daemon] = place]
    PROVE  /\ pc' \in [Tasks -> DaemonPlaces \cup {"idle", "order"}] /\ pc'[Daemon] = place
           /\ pc'[Daemon] \in DaemonPlaces
           /\ \A t \in Orderers : pc'[t] = pc[t] /\ pc'[t] \in {"idle", "order"}
<1>1. Daemon \in Tasks /\ Orderers \subseteq Tasks /\ Daemon \notin Orderers
  BY TimersAssumption
<1> QED
  BY <1>1 DEF TimersTypes

\* The orders are not its concern.
LEMMA OrdersKept ==
    ASSUME TimersParameters, OrderOK, UNCHANGED <<order, late, xPendedTicks>>,
           clk'.tick = clk.tick, \A t \in Orderers : pc'[t] = pc[t],
           \A m \in Timers :
               \/ m \in active' \/ age'[m] # age[m] \/ reg'.message.timer = m
               \/ \E i \in 1..Len(commands') : commands'[i].timer = m
               => \/ m \in active \/ reg.message.timer = m
                  \/ \E i \in 1..Len(commands) : commands[i].timer = m
    PROVE  OrderOK'
<1>1. ASSUME NEW t \in Tasks, order[t].timer \in Timers
      PROVE  /\ t \in Orderers /\ pc'[t] = "order" /\ OrderedAt(order[t])'
             /\ age'[order[t].timer] + xPendedTicks <= late[t]
             /\ \A u \in Tasks : order[u].timer = order[t].timer => u = t
             /\ \A i \in 1..Len(commands') : commands'[i].timer # order[t].timer
             /\ reg'.message.timer # order[t].timer
  <2>1. /\ t \in Orderers /\ pc[t] = "order" /\ OrderedAt(order[t])
        /\ age[order[t].timer] + xPendedTicks <= late[t]
        /\ \A u \in Tasks : order[u].timer = order[t].timer => u = t
        /\ \A i \in 1..Len(commands) : commands[i].timer # order[t].timer
        /\ reg.message.timer # order[t].timer
    BY <1>1 DEF OrderOK
  <2>2. PICK m \in Timers : m = order[t].timer
    BY <1>1
  <2>3. m \notin active
    BY <2>1, <2>2 DEF OrderedAt
  <2>4. /\ m \notin active' /\ age'[m] = age[m] /\ reg'.message.timer # m
        /\ \A i \in 1..Len(commands') : commands'[i].timer # m
    BY <2>1, <2>2, <2>3
  <2> QED
    BY <2>1, <2>2, <2>4 DEF OrderedAt
<1>2. \A t \in Orderers : pc'[t] = "order" => order[t].timer \in Timers
  BY DEF OrderOK
<1> QED
  BY <1>1, <1>2 DEF OrderOK

\* Nor, most of the time, are the commands.
LEMMA CommandsKept ==
    ASSUME TimersParameters, TimersInv,
           UNCHANGED <<order, late, xPendedTicks, commands, age>>, reg'.message = reg.message,
           clk'.tick = clk.tick, active' \subseteq active, Draining => Draining',
           Starting' => /\ Starting
                        /\ pc'[Daemon] # "sampleStart" => Lag' <= age[reg.message.timer]
    PROVE  CommandOK'
<1>1. Ordered' = Ordered
  BY DEF Ordered
<1>2. PICK d, e : /\ d = IF Draining THEN MaxLate[Daemon] ELSE 0
                  /\ e = IF Draining' THEN MaxLate[Daemon] ELSE 0
                  /\ d = e \/ (d = 0 /\ e = MaxLate[Daemon])
  OBVIOUS
<1>3. ASSUME NEW o, OrderedAt(o), Age(o), age[o.timer] \in Nat, xPendedTicks \in Nat,
             late[Daemon] \in Nat, Oldest \in Int, MaxLate[Daemon] \in Nat
      PROVE  /\ o.timer \notin active'
             /\ o.value + age[o.timer] \in {clk'.tick, clk'.tick + TickRange}
             /\ age[o.timer] + xPendedTicks <=
                  Oldest + (IF Draining' THEN MaxLate[Daemon] ELSE 0) + late[Daemon]
  <2>1. age[o.timer] + xPendedTicks <= Oldest + d + late[Daemon]
    BY <1>2, <1>3 DEF Age
  <2>2. age[o.timer] + xPendedTicks <= Oldest + e + late[Daemon]
    BY <1>2, <1>3, <2>1
  <2> QED
    BY <1>2, <1>3, <2>2 DEF OrderedAt
<1>4. CommandOK /\ TimersTypes
  BY DEF TimersInv
<1>5. xPendedTicks \in Nat /\ late[Daemon] \in Nat /\ Oldest \in Int /\ MaxLate[Daemon] \in Nat
  BY <1>4, TimeIs
<1>6. ASSUME NEW i \in 1..Len(commands)
      PROVE  OrderedAt(commands[i])' /\ Age(commands[i])'
  <2>1. PICK o : o = commands[i]
    OBVIOUS
  <2>2. OrderedAt(o) /\ Age(o) /\ age[o.timer] \in Nat
    BY <1>4, <2>1 DEF CommandOK, TimersTypes
  <2> QED
    BY <1>3, <1>5, <2>1, <2>2 DEF OrderedAt, Age, Oldest
<1>7. ASSUME Starting'
      PROVE  OrderedAt(reg.message)' /\ Age(reg.message)'
  <2>1. PICK o : o = reg.message
    OBVIOUS
  <2>2. OrderedAt(o) /\ Age(o) /\ age[o.timer] \in Nat
    <3>1. Starting /\ reg.message.timer \in Timers
      BY <1>7 DEF TimersInv, DaemonOK
    <3> QED
      BY <1>4, <2>1, <3>1 DEF CommandOK, TimersTypes
  <2> QED
    BY <1>3, <1>5, <2>1, <2>2 DEF OrderedAt, Age, Oldest
<1> QED
  BY <1>1, <1>4, <1>6, <1>7 DEF CommandOK

LEMMA GetNextExpireTimeStep ==
    TimersParameters /\ TimersInv /\ GetNextExpireTime => TimersInv'
<1> SUFFICES ASSUME TimersParameters, TimersInv, GetNextExpireTime PROVE TimersInv'
  OBVIOUS
<1> USE DEF TimersInv
<1>1. /\ UNCHANGED <<xPendingReadyList, clk, xPendedTicks, job, late, order, current, overflown,
                     expiry, active, xLastTime, commands, due, age, early>>
      /\ pc[Daemon] = "next" /\ suspended = NoTask /\ suspended' = Daemon
      /\ pc' = [pc EXCEPT ![Daemon] = "sample"] /\ Daemon \notin Asleep(clk)
  BY DEF GetNextExpireTime, ClockAt, ClockRuns, Go, clockVars, timersHistory
<1>2. PICK next \in Instants : next = IF current = {} THEN 0 ELSE expiry[HeadOf(current)]
  <2>1. CASE current = {}
    BY <2>1, RangeIs DEF Instants
  <2>2. CASE current # {}
    <3>1. HeadOf(current) \in Timers /\ expiry \in [Timers -> Instants]
      BY <2>2, HeadIs DEF TimersTypes
    <3> QED
      BY <2>2, <3>1
  <2> QED
    BY <2>1, <2>2
<1>3. /\ reg' \in RegisterTypes /\ reg'.next = next /\ reg'.empty = (current = {})
      /\ reg'.message = NoOrder /\ NoOrder.timer = NoTimer /\ reg'.timer = NoTimer
  <2>1. reg' = [Registers EXCEPT !.empty = (current = {}), !.next = next]
    BY <1>2 DEF GetNextExpireTime
  <2> QED
    BY <1>2, <2>1, RegistersIs DEF RegisterTypes
<1>4. /\ pc' \in [Tasks -> DaemonPlaces \cup {"idle", "order"}] /\ pc'[Daemon] = "sample"
      /\ pc'[Daemon] \in DaemonPlaces
      /\ \A t \in Orderers : pc'[t] = pc[t] /\ pc'[t] \in {"idle", "order"}
  <2>1. "sample" \in DaemonPlaces
    BY DEF DaemonPlaces
  <2> QED
    BY <1>1, <2>1, DaemonGoes
<1>5. /\ ~Switching /\ ~Switching' /\ ~Starting /\ ~Starting' /\ ~Draining /\ ~Draining'
      /\ (Empty' <=> Empty) /\ ~Busy /\ ~Busy'
  BY <1>1, <1>4 DEF Switching, Starting, Draining, Empty, Busy
<1>6. Lag' = Lag /\ Now' = Now /\ HeadOf(current)' = HeadOf(current)
  <2>1. Base' = Base
    BY <1>1, <1>5 DEF Base
  <2> QED
    BY <1>1, <1>5, <2>1 DEF Lag, Now, HeadOf
<1>7. TimersTypes'
  BY <1>1, <1>3, <1>4 DEF TimersTypes, RegisterTypes, Asleep
<1>8. DaemonOK'
  BY <1>1, <1>2, <1>3, <1>4, <1>5, <1>6, RegistersIs DEF DaemonOK, Asleep
<1>9. LagOK'
  BY <1>1, <1>5, <1>6 DEF LagOK, Bound, Timed, Rest, Asleep
<1>10. ASSUME NEW m \in Timers
       PROVE  TimerOK(m)'
  <2>1. TimerOK(m) /\ At(m)' = At(m) /\ Listed' = Listed
    BY <1>1 DEF At, Listed
  <2> QED
    BY <1>1, <1>4, <1>6, <2>1 DEF TimerOK, Timed, Rest
<1>11. reg.message.timer = NoTimer /\ reg'.message.timer = NoTimer /\ NoTimer \notin Timers
  BY <1>3, <1>5 DEF DaemonOK, TimersParameters
<1>12. OrderOK'
  BY <1>1, <1>4, <1>11, OrdersKept
<1>13. CommandOK'
  <2>1. Ordered' = Ordered
    BY <1>1, <1>11 DEF Ordered
  <2>2. \A i \in 1..Len(commands) : OrderedAt(commands[i])' /\ Age(commands[i])'
    BY <1>1, <1>5 DEF CommandOK, OrderedAt, Age, Oldest
  <2> QED
    BY <1>1, <1>5, <1>11, <2>1, <2>2 DEF CommandOK
<1> QED
  BY <1>7, <1>8, <1>9, <1>10, <1>12, <1>13

\* What a look at the time that finds no overflow or finds one does to the time.
LEMMA LookedAtTheTime ==
    ASSUME TimersTypes, ~Switching, clk'.tick = clk.tick,
           NEW time, time = clk.tick,
           \/ time < xLastTime /\ reg'.sampled = time /\ Switching'
           \/ time >= xLastTime /\ xLastTime' = time /\ ~Switching'
    PROVE  Lag' = 0 /\ Now' = Now
<1>1. clk.tick \in Instants /\ xLastTime \in Instants
  BY DEF TimersTypes, ClockTyped
<1>2. Base' = clk.tick
  BY DEF Base
<1>3. Lag' = 0
  BY <1>1, <1>2, RangeIs DEF Lag, Instants
<1>4. Base = xLastTime
  BY DEF Base
<1>5. Lag = IF clk.tick >= xLastTime THEN clk.tick - xLastTime
            ELSE clk.tick - xLastTime + TickRange
  BY <1>4 DEF Lag
<1>6. Now = xLastTime + Lag
  <2>1. Now = xLastTime + Lag + 0
    BY <1>4 DEF Now
  <2> QED
    BY <1>1, <1>5, <2>1, RangeIs DEF Instants
<1>7. Now' = IF Switching' THEN clk.tick + 0 + TickRange ELSE clk.tick + 0 + 0
  BY <1>2, <1>3 DEF Now
<1> QED
  BY <1>1, <1>3, <1>5, <1>6, <1>7, RangeIs DEF Instants

\* The timers in the lists while the daemon neither reloads one nor calls one back.
LEMMA TimersKept ==
    ASSUME NEW m \in Timers, TimerOK(m), UNCHANGED <<current, overflown, expiry, active, due>>,
           Now' = Now, pc[Daemon] \notin {"reload", "callback"},
           pc'[Daemon] \notin {"reload", "callback"},
           Daemon \in Timed(clk') /\ m \in Listed =>
              \/ Daemon \in Timed(clk) /\ Rest(clk', Daemon) = Rest(clk, Daemon)
              \/ Now + Rest(clk', Daemon) <= At(m)
    PROVE  TimerOK(m)'
<1>1. At(m)' = At(m) /\ Listed' = Listed
  BY DEF At, Listed
<1> QED
  BY <1>1 DEF TimerOK

LEMMA SampleForCommandStep ==
    TimersParameters /\ TimersInv /\ SampleForCommand => TimersInv'
<1> SUFFICES ASSUME TimersParameters, TimersInv, SampleForCommand PROVE TimersInv'
  OBVIOUS
<1> USE DEF TimersInv
<1>1. /\ UNCHANGED <<suspended, xPendingReadyList, clk, xPendedTicks, job, late, order, current,
                     overflown, expiry, active, commands, due, age, early>>
      /\ pc[Daemon] = "sampleStart" /\ suspended = NoTask /\ Daemon \notin Asleep(clk)
      /\ reg' = [reg EXCEPT !.now = clk.tick, !.sampled = clk.tick, !.back = "start"]
  BY DEF SampleForCommand, ClockAt, ClockRuns, clockVars, timersHistory, unchangedTasks
<1>2. PICK place \in {"switch", "start"} :
          /\ pc' = [pc EXCEPT ![Daemon] = place]
          /\ \/ place = "switch" /\ clk.tick < xLastTime /\ xLastTime' = xLastTime
             \/ place = "start" /\ ~(clk.tick < xLastTime) /\ xLastTime' = clk.tick
  BY DEF SampleForCommand, Go
<1>3. clk.tick \in Instants /\ xLastTime \in Instants /\ xLastTime' \in Instants
  BY <1>2 DEF TimersTypes, ClockTyped
<1>4. /\ reg' \in RegisterTypes /\ reg'.message = reg.message /\ reg'.sampled = clk.tick
      /\ reg'.back = "start"
  BY <1>1, <1>3, RegistersIs DEF RegisterTypes
<1>5. /\ pc' \in [Tasks -> DaemonPlaces \cup {"idle", "order"}] /\ pc'[Daemon] = place
      /\ pc'[Daemon] \in DaemonPlaces
      /\ \A t \in Orderers : pc'[t] = pc[t] /\ pc'[t] \in {"idle", "order"}
  <2>1. place \in DaemonPlaces
    BY <1>2 DEF DaemonPlaces
  <2> QED
    BY <1>2, <2>1, DaemonGoes
<1>6. /\ ~Switching /\ (Switching' <=> place = "switch") /\ Starting /\ Starting'
      /\ Draining /\ Draining' /\ (Empty' <=> Empty)
  BY <1>1, <1>2, <1>4, <1>5 DEF Switching, Starting, Draining, Empty
<1>7. Lag' = 0 /\ Now' = Now
  <2>1. \/ clk.tick < xLastTime /\ reg'.sampled = clk.tick /\ Switching'
        \/ clk.tick >= xLastTime /\ xLastTime' = clk.tick /\ ~Switching'
    BY <1>2, <1>3, <1>4, <1>6, RangeIs DEF Instants
  <2> QED
    BY <1>1, <1>6, <2>1, LookedAtTheTime
<1>8. HeadOf(current)' = HeadOf(current)
  BY <1>1 DEF HeadOf
<1>9. TimersTypes'
  BY <1>1, <1>3, <1>4, <1>5 DEF TimersTypes, RegisterTypes, Asleep
<1>10. DaemonOK'
  <2>1. suspended' # Daemon
    BY <1>1, TasksAssumption, TimersAssumption
  <2> QED
    BY <1>1, <1>2, <1>4, <1>5, <1>6, <2>1 DEF DaemonOK, Asleep
<1>11. LagOK'
  <2>1. Lag' + xPendedTicks' <= Bound' + late'[Daemon]
    <3>1. xPendedTicks = 0 /\ Bound' = Bound
      BY <1>1 DEF TimersTypes, Bound
    <3>2. Bound >= 0 /\ late[Daemon] \in Nat /\ Bound \in Int
      <4>1. MaxPended + MaxLate[Daemon] < TickRange /\ MaxPended \in Nat
        BY ClockAssumption DEF TimersParameters
      <4> QED
        BY <4>1, TimeIs, RangeIs
    <3> QED
      BY <1>1, <1>7, <3>1, <3>2
  <2>2. Daemon \notin Timed(clk') /\ Daemon \notin clk'.forever
    BY <1>1 DEF Asleep, Timed
  <2> QED
    BY <2>1, <2>2 DEF LagOK
<1>12. \A m \in Timers : TimerOK(m)'
  <2>1. Daemon \notin Timed(clk')
    BY <1>1 DEF Asleep, Timed
  <2>2. pc[Daemon] \notin {"reload", "callback"} /\ pc'[Daemon] \notin {"reload", "callback"}
    BY <1>1, <1>2, <1>5
  <2> QED
    BY <1>1, <1>7, <2>1, <2>2, TimersKept
<1>13. OrderOK'
  BY <1>1, <1>4, <1>5, OrdersKept
<1>14. CommandOK'
  <2>1. reg.message.timer \in Timers
    BY <1>6 DEF DaemonOK
  <2>2. Lag' <= age[reg.message.timer]
    BY <1>7, <2>1 DEF TimersTypes
  <2> QED
    BY <1>1, <1>4, <1>6, <2>2, CommandsKept
<1> QED
  BY <1>9, <1>10, <1>11, <1>12, <1>13, <1>14

\* The daemon falls asleep, for not longer than the first timer takes to expire.
LEMMA WaitForMessageIs ==
    ASSUME TimersParameters, TimersInv, pc[Daemon] = "sample", Daemon \notin Asleep(clk),
           clk.tick >= xLastTime, ~(~reg.empty /\ reg.next <= clk.tick), WaitForMessage
    PROVE  /\ ClockTyped(clk') /\ Delayed(clk') /\ clk'.tick = clk.tick
           /\ Asleep(clk') \subseteq {Daemon}
           /\ Daemon \in Asleep(clk') => commands = <<>>
           /\ Daemon \in clk'.forever => Empty
           /\ Daemon \in Timed(clk') =>
                 /\ Rest(clk', Daemon) > 0 /\ Rest(clk', Daemon) <= Bound
                 /\ \A m \in Listed : Now + Rest(clk', Daemon) <= At(m)
<1> USE DEF TimersInv
<1>1. CASE commands # <<>>
  <2>1. clk' = clk
    BY <1>1 DEF WaitForMessage
  <2> QED
    BY <2>1 DEF TimersTypes, Asleep, Timed
<1>2. CASE commands = <<>>
  <2>1. /\ ClockTyped(clk) /\ Delayed(clk) /\ clk.tick \in Instants /\ Daemon \in Tasks
        /\ reg.next \in Instants /\ Asleep(clk) = {} /\ xLastTime \in Instants
        /\ current \subseteq Timers /\ overflown \subseteq Timers
        /\ expiry \in [Timers -> Instants]
    BY TimersAssumption DEF TimersTypes, ClockTyped
  <2>2. /\ reg.empty = (current = {})
        /\ reg.next = IF current = {} THEN 0 ELSE expiry[HeadOf(current)]
    BY DEF DaemonOK
  <2>3. clk' = AddToDelayedList(clk, Daemon, (reg.next - clk.tick) % TickRange,
                                reg.empty /\ overflown = {})
    BY <1>2 DEF WaitForMessage
  <2>4. Now = clk.tick
    <3>1. ~Switching
      BY DEF Switching
    <3>2. Base = xLastTime
      BY <3>1 DEF Base
    <3> QED
      BY <2>1, <3>1, <3>2, RangeIs DEF Now, Lag, Instants
  <2>5. CASE Empty
    <3>1. reg.empty /\ overflown = {}
      BY <2>2, <2>5 DEF Empty
    <3>2. clk' = [clk EXCEPT !.forever = clk.forever \cup {Daemon}]
      BY <2>3, <3>1 DEF AddToDelayedList
    <3>3. /\ clk'.tick = clk.tick /\ clk'.overflows = clk.overflows
          /\ clk'.delayed = clk.delayed /\ clk'.overflow = clk.overflow
          /\ clk'.forever = clk.forever \cup {Daemon} /\ clk'.wakeAt = clk.wakeAt
          /\ clk'.nextUnblock = clk.nextUnblock /\ clk'.left = clk.left
          /\ ClockTyped(clk')
      BY <2>1, <3>2 DEF ClockTyped
    <3>4. Delayed(clk')
      BY <2>1, <3>3 DEF Delayed, Asleep
    <3>5. Timed(clk') = {} /\ Asleep(clk') = {Daemon}
      BY <2>1, <3>3 DEF Timed, Asleep
    <3> QED
      BY <1>2, <2>5, <3>3, <3>4, <3>5
  <2>6. CASE ~Empty
    <3>1. ~(reg.empty /\ overflown = {})
      BY <2>2, <2>6 DEF Empty
    <3>2. PICK n \in Instants : n = (reg.next - clk.tick) % TickRange
                                /\ n = IF reg.next >= clk.tick THEN reg.next - clk.tick
                                       ELSE reg.next - clk.tick + TickRange
      <4>1. (reg.next - clk.tick) % TickRange =
                IF reg.next >= clk.tick THEN reg.next - clk.tick
                ELSE reg.next - clk.tick + TickRange
        BY <2>1, DifferenceOfInstants
      <4> QED
        BY <2>1, <4>1, RangeIs DEF Instants
    <3>3. clk' = Added(clk, Daemon, n)
      <4>1. AddToDelayedList(clk, Daemon, n, reg.empty /\ overflown = {}) =
            AddToDelayedList(clk, Daemon, n, FALSE)
        BY <3>1 DEF AddToDelayedList
      <4> QED
        BY <2>3, <3>2, <4>1 DEF Added
    <3>4. \A m \in Listed : At(m) - clk.tick <= Period[m] /\ At(m) \in Int
                            /\ Period[m] <= Bound /\ m \in Timers
      <4> TAKE m \in Listed
      <4>1. m \in Timers /\ TimerOK(m) /\ expiry[m] \in Instants
        BY <2>1 DEF Listed
      <4>2. At(m) - Now <= Period[m]
        BY <4>1 DEF TimerOK
      <4>3. Period[m] + MaxLate[Daemon] < TickRange /\ Period[m] \in Nat
        BY <4>1, TimersAssumption DEF TimersParameters
      <4>4. Period[m] <= Bound
        BY <4>3, TimeIs, RangeIs
      <4> QED
        BY <2>4, <4>1, <4>2, <4>4, RangeIs DEF At, Instants
    <3>5. /\ n > 0 /\ n <= Bound
          /\ \A m \in Listed : clk.tick + n <= At(m)
      <4>1. CASE current # {}
        <5>1. PICK h \in current : h = HeadOf(current) /\ \A m \in current : expiry[h] <= expiry[m]
          BY <2>1, <4>1, HeadIs
        <5>2. /\ reg.next = expiry[h] /\ reg.next > clk.tick /\ h \in Timers /\ h \in Listed
              /\ expiry[h] \in Instants
          <6>1. reg.next = expiry[h] /\ h \in Timers /\ h \in Listed /\ expiry[h] \in Instants
            BY <2>1, <2>2, <4>1, <5>1 DEF Listed
          <6>2. ~(reg.next <= clk.tick)
            BY <2>2, <4>1
          <6> QED
            BY <2>1, <6>1, <6>2, RangeIs DEF Instants
        <5>3. n = expiry[h] - clk.tick
          BY <2>1, <3>2, <5>2, RangeIs DEF Instants
        <5>4. At(h) = expiry[h]
          <6>1. h \notin overflown
            BY <5>1 DEF TimersTypes
          <6> QED
            BY <5>2, <6>1, RangeIs DEF At, Instants
        <5>5. n > 0 /\ n <= Bound
          <6>1. Period[h] \in Nat /\ Bound \in Int
            BY <5>2, TimersAssumption, TimeIs
          <6> QED
            BY <2>1, <3>4, <5>2, <5>3, <5>4, <6>1, RangeIs DEF Instants
        <5>6. ASSUME NEW m \in Listed PROVE clk.tick + n <= At(m)
          <6>1. m \in Timers /\ expiry[m] \in Instants
            BY <2>1 DEF Listed
          <6>2. CASE m \in overflown
            BY <2>1, <5>2, <5>3, <6>1, <6>2, RangeIs DEF At, Instants
          <6>3. CASE m \notin overflown
            <7>1. expiry[h] <= expiry[m]
              BY <5>1, <6>3 DEF Listed
            <7> QED
              BY <2>1, <5>2, <5>3, <6>1, <6>3, <7>1, RangeIs DEF At, Instants
          <6> QED
            BY <6>2, <6>3
        <5> QED
          BY <5>5, <5>6
      <4>2. CASE current = {}
        <5>1. PICK h \in overflown : TRUE
          BY <2>6, <4>2 DEF Empty
        <5>2. /\ h \in Listed /\ h \in Timers /\ expiry[h] \in Instants
              /\ At(h) = expiry[h] + TickRange
          BY <2>1, <5>1 DEF Listed, At
        <5>3. reg.next = 0
          BY <2>2, <4>2
        <5>4. Period[h] <= Bound /\ Period[h] \in 1..(TickRange - 1) /\ Bound \in Int
          BY <3>4, <5>2, TimersAssumption, TimeIs
        <5>5. clk.tick > 0 /\ n = TickRange - clk.tick
          <6>1. At(h) - clk.tick <= Period[h]
            BY <3>4, <5>2
          <6> QED
            <7>1. PICK p \in 1..(TickRange - 1), e \in Instants, i \in Instants :
                      p = Period[h] /\ e = expiry[h] /\ i = clk.tick
              BY <2>1, <5>2, <5>4
            <7>2. e + TickRange - i <= p
              BY <5>2, <6>1, <7>1, RangeIs DEF Instants
            <7>3. i > 0
              BY <7>1, <7>2, RangeIs DEF Instants
            <7>4. n = IF 0 >= i THEN 0 - i ELSE 0 - i + TickRange
              BY <3>2, <5>3, <7>1
            <7> QED
              BY <7>1, <7>3, <7>4, RangeIs DEF Instants
        <5>6. n > 0 /\ n <= Bound
          <6>1. At(h) - clk.tick <= Period[h]
            BY <3>4, <5>2
          <6> QED
            BY <2>1, <5>2, <5>4, <5>5, <6>1, RangeIs DEF Instants
        <5>7. ASSUME NEW m \in Listed PROVE clk.tick + n <= At(m)
          <6>1. m \in overflown /\ expiry[m] \in Instants
            BY <2>1, <4>2 DEF Listed
          <6> QED
            BY <2>1, <5>5, <6>1, RangeIs DEF At, Instants
        <5> QED
          BY <5>6, <5>7
      <4> QED
        BY <4>1, <4>2
    <3>6. /\ ClockTyped(clk') /\ Delayed(clk') /\ clk'.tick = clk.tick
          /\ clk'.forever = clk.forever /\ Timed(clk') = Timed(clk) \cup {Daemon}
          /\ Rest(clk', Daemon) = n
      <4>1. n # 0
        BY <3>5
      <4>2. Daemon \notin Asleep(clk)
        OBVIOUS
      <4> QED
        BY <2>1, <3>3, <4>1, <4>2, AddIs
    <3>7. Asleep(clk') = {Daemon} /\ Daemon \notin clk'.forever
      BY <2>1, <3>6 DEF Asleep, Timed
    <3> QED
      BY <1>2, <2>4, <3>5, <3>6, <3>7
  <2> QED
    BY <2>5, <2>6
<1> QED
  BY <1>1, <1>2

LEMMA SampleTimeNowStep ==
    TimersParameters /\ TimersInv /\ SampleTimeNow => TimersInv'
<1> SUFFICES ASSUME TimersParameters, TimersInv, SampleTimeNow PROVE TimersInv'
  OBVIOUS
<1> USE DEF TimersInv
<1>1. /\ UNCHANGED <<suspended, xPendingReadyList, xPendedTicks, job, late, order, current,
                     overflown, expiry, active, commands, due, age, early>>
      /\ pc[Daemon] = "sample" /\ Daemon \notin Asleep(clk)
      /\ reg' = [Registers EXCEPT !.now = clk.tick, !.sampled = clk.tick,
                                  !.back = "resumeSwitched"]
  BY DEF SampleTimeNow, ClockAt, ClockRuns, timersHistory
<1>2. PICK place \in {"switch", "resumeExpired", "resumeBlocked"} :
          /\ pc' = [pc EXCEPT ![Daemon] = place]
          /\ \/ /\ place = "switch" /\ clk.tick < xLastTime
                /\ xLastTime' = xLastTime /\ clk' = clk
             \/ /\ place = "resumeExpired" /\ ~(clk.tick < xLastTime)
                /\ xLastTime' = clk.tick /\ clk' = clk
                /\ ~reg.empty /\ reg.next <= clk.tick
             \/ /\ place = "resumeBlocked" /\ ~(clk.tick < xLastTime) /\ xLastTime' = clk.tick
                /\ ~(~reg.empty /\ reg.next <= clk.tick) /\ WaitForMessage
  BY DEF SampleTimeNow, Go
<1>3. /\ clk.tick \in Instants /\ xLastTime \in Instants /\ xLastTime' \in Instants
      /\ (~(clk.tick < xLastTime) => clk.tick >= xLastTime) /\ Daemon \in Tasks
  <2>1. clk.tick \in Instants /\ xLastTime \in Instants
    BY DEF TimersTypes, ClockTyped
  <2> QED
    BY <1>2, <2>1, RangeIs, TimersAssumption DEF Instants
<1>4. /\ reg' \in RegisterTypes /\ reg'.message = NoOrder /\ reg'.sampled = clk.tick
      /\ reg'.back = "resumeSwitched" /\ reg'.now = clk.tick /\ NoOrder.timer = NoTimer
      /\ reg'.timer = NoTimer
  BY <1>1, <1>3, RegistersIs DEF RegisterTypes
<1>5. /\ pc' \in [Tasks -> DaemonPlaces \cup {"idle", "order"}] /\ pc'[Daemon] = place
      /\ pc'[Daemon] \in DaemonPlaces
      /\ \A t \in Orderers : pc'[t] = pc[t] /\ pc'[t] \in {"idle", "order"}
  <2>1. place \in DaemonPlaces
    BY <1>2 DEF DaemonPlaces
  <2> QED
    BY <1>2, <2>1, DaemonGoes
<1>6. /\ ~Switching /\ (Switching' <=> place = "switch") /\ ~Starting /\ ~Starting'
      /\ ~Draining /\ ~Draining' /\ (Empty' <=> Empty) /\ ~Busy
      /\ (Busy' <=> place # "resumeBlocked")
  BY <1>1, <1>2, <1>4, <1>5 DEF Switching, Starting, Draining, Empty, Busy
<1>7. /\ ClockTyped(clk') /\ Delayed(clk') /\ clk'.tick = clk.tick
      /\ Asleep(clk') \subseteq {Daemon}
      /\ Daemon \in Asleep(clk') => commands = <<>> /\ place = "resumeBlocked"
      /\ Daemon \in clk'.forever => Empty
      /\ Daemon \in Timed(clk') =>
            /\ Rest(clk', Daemon) > 0 /\ Rest(clk', Daemon) <= Bound
            /\ \A m \in Listed : Now + Rest(clk', Daemon) <= At(m)
  <2>1. CASE place = "resumeBlocked"
    BY <1>1, <1>2, <1>3, <2>1, WaitForMessageIs
  <2>2. CASE place # "resumeBlocked"
    <3>1. clk' = clk
      BY <1>2, <2>2
    <3> QED
      BY <1>1, <3>1 DEF TimersTypes, Asleep, Timed
  <2> QED
    BY <2>1, <2>2
<1>8. Lag' = 0 /\ Now' = Now
  <2>1. \/ clk.tick < xLastTime /\ reg'.sampled = clk.tick /\ Switching'
        \/ clk.tick >= xLastTime /\ xLastTime' = clk.tick /\ ~Switching'
    BY <1>2, <1>3, <1>4, <1>6
  <2> QED
    BY <1>6, <1>7, <2>1, LookedAtTheTime
<1>9. HeadOf(current)' = HeadOf(current)
  BY <1>1 DEF HeadOf
<1>10. TimersTypes'
  BY <1>1, <1>3, <1>4, <1>5, <1>7 DEF TimersTypes, RegisterTypes
<1>11. DaemonOK'
  <2>1. suspended' = Daemon
    BY <1>1 DEF DaemonOK
  <2>2. place = "resumeExpired" => /\ current # {} /\ reg'.now = xLastTime'
                                   /\ expiry[HeadOf(current)] <= reg'.now
    <3> SUFFICES ASSUME place = "resumeExpired"
                 PROVE  /\ current # {} /\ reg'.now = xLastTime'
                        /\ expiry[HeadOf(current)] <= reg'.now
      OBVIOUS
    <3>1. ~reg.empty /\ reg.next <= clk.tick /\ xLastTime' = clk.tick
      BY <1>2
    <3>2. /\ reg.empty = (current = {})
          /\ reg.next = IF current = {} THEN 0 ELSE expiry[HeadOf(current)]
      BY <1>1 DEF DaemonOK
    <3> QED
      BY <1>4, <3>1, <3>2
  <2> QED
    BY <1>1, <1>2, <1>4, <1>5, <1>6, <1>7, <1>8, <1>9, <2>1, <2>2 DEF DaemonOK
<1>12. LagOK'
  <2>1. /\ xPendedTicks \in Nat /\ xPendedTicks <= MaxPended /\ Bound' = Bound
        /\ MaxPended <= Bound /\ late[Daemon] \in Nat /\ Bound \in Int /\ MaxPended \in Nat
    <3>1. MaxPended + MaxLate[Daemon] < TickRange /\ MaxPended \in Nat
      BY ClockAssumption DEF TimersParameters
    <3>2. xPendedTicks \in 0..MaxPended
      BY DEF TimersTypes
    <3> QED
      BY <3>1, <3>2, TimeIs, RangeIs DEF Bound
  <2>2. Lag' + xPendedTicks' <= Bound' + late'[Daemon]
    BY <1>1, <1>8, <2>1
  <2>3. Daemon \in Timed(clk') => Rest(clk', Daemon) > 0 /\ Lag' + Rest(clk', Daemon) <= Bound'
    BY <1>3, <1>7, <1>8, <2>1, RestIs
  <2> QED
    BY <1>6, <1>7, <2>2, <2>3 DEF LagOK
<1>13. \A m \in Timers : TimerOK(m)'
  <2>1. pc[Daemon] \notin {"reload", "callback"} /\ pc'[Daemon] \notin {"reload", "callback"}
    BY <1>1, <1>2, <1>5
  <2> QED
    BY <1>1, <1>7, <1>8, <2>1, TimersKept
<1>14. reg.message.timer = NoTimer /\ reg'.message.timer = NoTimer /\ NoTimer \notin Timers
  BY <1>4, <1>6 DEF DaemonOK, TimersParameters
<1>15. OrderOK'
  BY <1>1, <1>5, <1>7, <1>14, OrdersKept
<1>16. CommandOK'
  <2>1. Ordered' = Ordered
    BY <1>1, <1>14 DEF Ordered
  <2>2. \A i \in 1..Len(commands) : OrderedAt(commands[i])' /\ Age(commands[i])'
    BY <1>1, <1>6, <1>7 DEF CommandOK, OrderedAt, Age, Oldest
  <2> QED
    BY <1>1, <1>6, <1>14, <2>1, <2>2 DEF CommandOK
<1> QED
  BY <1>10, <1>11, <1>12, <1>13, <1>15, <1>16

\* A timer of the current list has expired.
LEMMA ProcessExpiredTimerIs ==
    ASSUME TimersParameters, TimersInv, NEW m \in current, NEW now \in Instants,
           NEW then \in {"receive", "switch"}, expiry[m] <= now, now <= Now,
           ProcessExpiredTimer(m, now, then), Daemon \notin Asleep(clk),
           pc[Daemon] \notin {"reload", "callback"},
           UNCHANGED <<clk, due>>
    PROVE  /\ reg' \in RegisterTypes /\ reg'.timer = m /\ reg'.now = now /\ reg'.then = then
           /\ reg'.message = reg.message /\ reg'.sampled = reg.sampled /\ reg'.back = reg.back
           /\ current' \subseteq current /\ overflown' = overflown
           /\ expiry' \in [Timers -> Instants] /\ active' \subseteq active
           /\ pc' \in [Tasks -> DaemonPlaces \cup {"idle", "order"}]
           /\ pc'[Daemon] \in {"reload", "callback"} /\ pc'[Daemon] \in DaemonPlaces
           /\ \A t \in Orderers : pc'[t] = pc[t] /\ pc'[t] \in {"idle", "order"}
           /\ Now' = Now => \A n \in Timers : TimerOK(n)'
<1> USE DEF TimersInv
<1>1. /\ m \in Timers /\ m \notin overflown /\ expiry \in [Timers -> Instants]
      /\ expiry[m] \in Instants /\ current \subseteq Timers /\ overflown \subseteq Timers
  BY DEF TimersTypes
<1>2. /\ current' = current \ {m} /\ overflown' = overflown \ {m}
      /\ expiry' = [expiry EXCEPT ![m] = 0]
      /\ reg' = [reg EXCEPT !.timer = m, !.expired = expiry[m], !.now = now, !.then = then]
  BY DEF ProcessExpiredTimer, RemovedFromLists
<1>3. PICK place \in {"reload", "callback"} :
          /\ pc' = [pc EXCEPT ![Daemon] = place]
          /\ active' = IF m \in AutoReload THEN active ELSE active \ {m}
          /\ place = "reload" <=> m \in AutoReload
  BY DEF ProcessExpiredTimer, Go
<1>4. /\ reg' \in RegisterTypes /\ reg'.timer = m /\ reg'.expired = expiry[m]
      /\ reg'.now = now /\ reg'.then = then
      /\ reg'.message = reg.message /\ reg'.sampled = reg.sampled /\ reg'.back = reg.back
  BY <1>1, <1>2, RegistersIs DEF RegisterTypes
<1>5. /\ pc' \in [Tasks -> DaemonPlaces \cup {"idle", "order"}] /\ pc'[Daemon] = place
      /\ pc'[Daemon] \in DaemonPlaces
      /\ \A t \in Orderers : pc'[t] = pc[t] /\ pc'[t] \in {"idle", "order"}
  <2>1. place \in DaemonPlaces
    BY <1>3 DEF DaemonPlaces
  <2> QED
    BY <1>3, <2>1, DaemonGoes
<1>6. expiry' \in [Timers -> Instants] /\ \A n \in Timers : n # m => expiry'[n] = expiry[n]
  BY <1>1, <1>2, RangeIs DEF Instants
<1>7. Listed' = Listed \ {m} /\ m \in Listed /\ overflown' = overflown
  BY <1>1, <1>2 DEF Listed
<1>8. ASSUME Now' = Now, NEW n \in Timers
      PROVE  TimerOK(n)'
  <2>1. TimerOK(n) /\ TimerOK(m) /\ Now \in Nat /\ due[m] \in Int
    BY <1>1, TimeIs DEF TimersTypes
  <2>2. CASE n = m
    <3>1. due[m] = At(m) - Now /\ At(m) = expiry[m]
      <4>1. At(m) = expiry[m] + 0
        BY <1>1 DEF At
      <4>2. due[m] = At(m) - Now - 0
        BY <1>7, <2>1 DEF TimerOK
      <4> QED
        BY <1>1, <2>1, <4>1, <4>2, RangeIs DEF Instants
    <3>2. m \notin Listed' /\ due[m] = expiry[m] - Now /\ due[m] <= 0
      BY <1>1, <1>7, <2>1, <3>1, RangeIs DEF Instants
    <3>3. Expired' = expiry[m]
      BY <1>4 DEF Expired
    <3>4. m \in active
      BY <1>7, <2>1 DEF TimerOK
    <3> QED
      BY <1>3, <1>4, <1>5, <1>8, <2>2, <3>2, <3>3, <3>4 DEF TimerOK
  <2>3. CASE n # m
    <3>1. At(n)' = At(n) /\ (n \in Listed' <=> n \in Listed) /\ (n \in active' <=> n \in active)
      BY <1>3, <1>6, <1>7, <2>3 DEF At
    <3>2. Daemon \notin Timed(clk') /\ reg'.timer # n
      BY <1>4, <2>3 DEF Asleep, Timed
    <3> QED
      BY <1>8, <2>1, <3>1, <3>2 DEF TimerOK
  <2> QED
    BY <2>2, <2>3
<1> QED
  BY <1>2, <1>3, <1>4, <1>5, <1>6, <1>7, <1>8

LEMMA ExpireStep == TimersParameters /\ TimersInv /\ Expire => TimersInv'
<1> SUFFICES ASSUME TimersParameters, TimersInv, Expire PROVE TimersInv'
  OBVIOUS
<1> USE DEF TimersInv
<1>1. /\ UNCHANGED <<suspended, xPendingReadyList, clk, xPendedTicks, job, late, order,
                     xLastTime, commands, due, age, early>>
      /\ pc[Daemon] = "expire" /\ Daemon \notin Asleep(clk)
  BY DEF Expire, ClockAt, ClockRuns, clockVars, timersHistory, unchangedTasks
<1>2. PICK m \in current : m = HeadOf(current) /\ expiry[m] <= reg.now
  BY <1>1, HeadIs DEF DaemonOK, TimersTypes
<1>3. reg.now = xLastTime /\ reg.now \in Instants /\ reg.now <= Now /\ ~Switching
  <2>1. reg.now = xLastTime /\ reg.now \in Instants /\ ~Switching
    BY <1>1 DEF DaemonOK, TimersTypes, Switching
  <2>2. Base = xLastTime
    BY <2>1 DEF Base
  <2> QED
    BY <2>1, <2>2, TimeIs, RangeIs DEF Instants
<1>4. /\ reg' \in RegisterTypes /\ reg'.timer = m /\ reg'.now = reg.now /\ reg'.then = "receive"
      /\ reg'.message = reg.message /\ reg'.sampled = reg.sampled /\ reg'.back = reg.back
      /\ current' \subseteq current /\ overflown' = overflown
      /\ expiry' \in [Timers -> Instants] /\ active' \subseteq active
      /\ pc' \in [Tasks -> DaemonPlaces \cup {"idle", "order"}]
      /\ pc'[Daemon] \in {"reload", "callback"} /\ pc'[Daemon] \in DaemonPlaces
      /\ \A t \in Orderers : pc'[t] = pc[t] /\ pc'[t] \in {"idle", "order"}
      /\ Now' = Now => \A n \in Timers : TimerOK(n)'
  <2>1. ProcessExpiredTimer(m, reg.now, "receive")
    BY <1>2 DEF Expire
  <2>2. PICK now \in Instants : now = reg.now
    BY <1>3
  <2>3. ProcessExpiredTimer(m, now, "receive") /\ expiry[m] <= now /\ now <= Now
    BY <1>2, <1>3, <2>1, <2>2
  <2> QED
    BY <1>1, <2>2, <2>3, ProcessExpiredTimerIs
<1>5. /\ ~Switching' /\ ~Starting /\ ~Starting' /\ ~Draining /\ Draining' /\ Busy /\ Busy'
  BY <1>1, <1>4 DEF Switching, Starting, Draining, Busy
<1>6. Lag' = Lag /\ Now' = Now
  <2>1. Base' = Base
    BY <1>1, <1>3, <1>5 DEF Base
  <2> QED
    BY <1>1, <1>3, <1>5, <2>1 DEF Lag, Now
<1>7. TimersTypes'
  BY <1>1, <1>4 DEF TimersTypes, RegisterTypes, Asleep
<1>8. DaemonOK'
  <2>1. m \in Timers
    BY DEF TimersTypes
  <2> QED
    BY <1>1, <1>3, <1>4, <1>5, <2>1 DEF DaemonOK, Asleep
<1>9. LagOK'
  <2>1. Daemon \notin Timed(clk) /\ Daemon \notin clk.forever
    BY <1>1 DEF Asleep, Timed
  <2> QED
    BY <1>1, <1>5, <1>6, <2>1 DEF LagOK, Bound
<1>10. OrderOK'
  BY <1>1, <1>4, OrdersKept
<1>11. CommandOK'
  BY <1>1, <1>4, <1>5, CommandsKept
<1> QED
  BY <1>4, <1>6, <1>7, <1>8, <1>9, <1>10, <1>11

LEMMA RunCallbackStep == TimersParameters /\ TimersInv /\ RunCallback => TimersInv'
<1> SUFFICES ASSUME TimersParameters, TimersInv, RunCallback PROVE TimersInv'
  OBVIOUS
<1> USE DEF TimersInv
<1>1. /\ UNCHANGED <<suspended, xPendingReadyList, clk, xPendedTicks, job, late, order, current,
                     overflown, expiry, active, xLastTime, commands, age>>
      /\ pc[Daemon] = "callback" /\ Daemon \notin Asleep(clk)
      /\ reg' = [reg EXCEPT !.timer = NoTimer, !.expired = 0]
      /\ pc' = [pc EXCEPT ![Daemon] = reg.then] /\ Callback(reg.timer)
  BY DEF RunCallback, ClockAt, ClockRuns, clockVars, unchangedTasks, Go, Callback
<1>2. PICK m \in Timers : m = reg.timer
  BY <1>1 DEF DaemonOK
<1>3. /\ early' = (early \/ due[m] > 0)
      /\ due' = [due EXCEPT ![m] = IF m \in AutoReload THEN due[m] + Period[m] ELSE 0]
  BY <1>1, <1>2 DEF Callback, TimersTypes
<1>4. /\ TimerOK(m) /\ due[m] \in Int /\ due[m] <= 0 /\ (m \in AutoReload <=> m \in Listed)
      /\ due[m] <= 0 => ~(due[m] > 0)
  BY <1>1, <1>2 DEF TimerOK, TimersTypes
<1>5. /\ reg' \in RegisterTypes /\ reg'.timer = NoTimer /\ reg'.then = reg.then
      /\ reg'.message = reg.message /\ reg'.sampled = reg.sampled /\ reg'.back = reg.back
      /\ reg.then \in {"receive", "switch"} /\ reg'.now = reg.now
  <2>1. reg.then \in {"receive", "switch"}
    BY <1>1 DEF DaemonOK, TimersTypes
  <2> QED
    BY <1>1, <2>1, RegistersIs, RangeIs DEF RegisterTypes, Instants
<1>6. /\ pc' \in [Tasks -> DaemonPlaces \cup {"idle", "order"}] /\ pc'[Daemon] = reg.then
      /\ pc'[Daemon] \in DaemonPlaces
      /\ \A t \in Orderers : pc'[t] = pc[t] /\ pc'[t] \in {"idle", "order"}
  <2>1. PICK place \in DaemonPlaces : place = reg.then
    BY <1>5 DEF DaemonPlaces
  <2>2. pc' = [pc EXCEPT ![Daemon] = place]
    BY <1>1, <2>1
  <2> QED
    BY <2>1, <2>2, DaemonGoes
<1>7. /\ (Switching' <=> Switching) /\ (Starting <=> Starting') /\ (Draining <=> Draining')
      /\ Busy /\ (Empty' <=> Empty)
  BY <1>1, <1>5, <1>6 DEF Switching, Starting, Draining, Busy, Empty
<1>8. Lag' = Lag /\ Now' = Now
  <2>1. Base' = Base
    BY <1>1, <1>5, <1>7 DEF Base
  <2> QED
    BY <1>1, <1>7, <2>1 DEF Lag, Now
<1>9. due' \in [Timers -> Int] /\ early' = FALSE
      /\ due'[m] = (IF m \in AutoReload THEN due[m] + Period[m] ELSE 0)
      /\ \A n \in Timers : n # m => due'[n] = due[n]
  <2>1. Period[m] \in Int /\ due \in [Timers -> Int]
    BY TimersAssumption DEF TimersTypes
  <2>2. (IF m \in AutoReload THEN due[m] + Period[m] ELSE 0) \in Int
    BY <1>4, <2>1
  <2>3. early = FALSE
    BY DEF TimersTypes
  <2> QED
    BY <1>3, <1>4, <2>1, <2>2, <2>3
<1>10. TimersTypes'
  BY <1>1, <1>5, <1>6, <1>9 DEF TimersTypes, RegisterTypes, Asleep
<1>11. DaemonOK'
  BY <1>1, <1>5, <1>6, <1>7 DEF DaemonOK, Asleep, Switching
<1>12. LagOK'
  <2>1. Daemon \notin Timed(clk) /\ Daemon \notin clk.forever
    BY <1>1 DEF Asleep, Timed
  <2> QED
    BY <1>1, <1>7, <1>8, <2>1 DEF LagOK, Bound
<1>13. ASSUME NEW n \in Timers
       PROVE  TimerOK(n)'
  <2>1. TimerOK(n) /\ At(n)' = At(n) /\ Listed' = Listed
    BY <1>1 DEF At, Listed
  <2>2. /\ Daemon \notin Timed(clk') /\ pc'[Daemon] # "reload" /\ pc'[Daemon] # "callback"
    BY <1>1, <1>5, <1>6 DEF Asleep, Timed
  <2>3. CASE n = m
    <3>1. m \in Listed => due'[m] = At(m) - Now
      <4> SUFFICES ASSUME m \in Listed PROVE due'[m] = At(m) - Now
        OBVIOUS
      <4>1. due[m] = At(m) - Now - Period[m]
        BY <1>1, <1>2, <1>4 DEF TimerOK
      <4>2. At(m) \in Int /\ Now \in Int /\ Period[m] \in Int
        BY TimeIs, AtIs
      <4> QED
        BY <1>4, <1>9, <4>1, <4>2
    <3>2. At(m) \in Int /\ Now \in Int
      BY TimeIs, AtIs
    <3> QED
      BY <1>1, <1>8, <2>1, <2>2, <2>3, <3>1, <3>2 DEF TimerOK
  <2>4. CASE n # m
    BY <1>1, <1>2, <1>8, <1>9, <2>1, <2>2, <2>4 DEF TimerOK
  <2> QED
    BY <2>3, <2>4
<1>14. OrderOK'
  BY <1>1, <1>5, <1>6, OrdersKept
<1>15. CommandOK'
  <2>1. Starting => Starting' /\ (pc'[Daemon] # "sampleStart" => Lag' <= age[reg.message.timer])
    BY <1>1, <1>7, <1>8 DEF CommandOK
  <2> QED
    BY <1>1, <1>5, <1>7, <2>1, CommandsKept
<1> QED
  BY <1>10, <1>11, <1>12, <1>13, <1>14, <1>15

\* One turn of the loop of prvReloadTimer.
LEMMA ReloadTimerStep == TimersParameters /\ TimersInv /\ ReloadTimer => TimersInv'
<1> SUFFICES ASSUME TimersParameters, TimersInv, ReloadTimer PROVE TimersInv'
  OBVIOUS
<1> USE DEF TimersInv
<1>1. /\ UNCHANGED <<suspended, xPendingReadyList, clk, xPendedTicks, job, late, order, active,
                     xLastTime, commands, age>>
      /\ pc[Daemon] = "reload" /\ Daemon \notin Asleep(clk)
  BY DEF ReloadTimer, ClockAt, ClockRuns, clockVars, unchangedTasks, timersHistory, Callback
<1>2. PICK m \in Timers, now \in Instants, from \in Instants :
          m = reg.timer /\ now = reg.now /\ from = reg.expired
  BY <1>1 DEF DaemonOK, TimersTypes
<1>3. /\ TimerOK(m) /\ m \in AutoReload /\ m \notin Listed /\ due[m] = Expired - Now
      /\ m \in active /\ Now \in Nat /\ due[m] \in Int /\ Period[m] \in 1..(TickRange - 1)
  BY <1>1, <1>2, TimeIs, TimersAssumption DEF TimerOK, TimersTypes
<1>4. now <= Now /\ now = (IF Switching THEN TickRange - 1 ELSE xLastTime)
  <2>1. now = (IF Switching THEN TickRange - 1 ELSE xLastTime)
    BY <1>1, <1>2 DEF DaemonOK
  <2>2. CASE Switching
    BY <2>1, <2>2, TimeIs, RangeIs DEF Instants
  <2>3. CASE ~Switching
    <3>1. Base = xLastTime
      BY <2>3 DEF Base
    <3> QED
      BY <2>1, <2>3, <3>1, TimeIs, RangeIs DEF Instants
  <2> QED
    BY <2>1, <2>2, <2>3
<1>5. PICK x \in Int : /\ x = Expired /\ x <= now /\ x > now - TickRange
                       /\ from = IF x >= 0 THEN x ELSE x + TickRange
  BY <1>2, RangeIs DEF Expired, Instants
<1>6. PICK again : again = (from + Period[m]) % TickRange
  OBVIOUS
<1>7. /\ again \in Instants
      /\ ProcessNow(m, again, now, from) <=> x + Period[m] <= now
      /\ x + Period[m] <= now =>
            again = IF x + Period[m] >= 0 THEN x + Period[m] ELSE x + Period[m] + TickRange
      /\ x + Period[m] > now =>
            x + Period[m] = IF again <= now THEN again + TickRange ELSE again
  BY <1>5, <1>6, ProcessNowIs
<1>8. \/ /\ x + Period[m] <= now
         /\ reg' = [reg EXCEPT !.expired = again] /\ Callback(m)
         /\ UNCHANGED <<pc, current, overflown, expiry>>
      \/ /\ x + Period[m] > now
         /\ InsertInActiveList(m, again, now) /\ pc' = [pc EXCEPT ![Daemon] = "callback"]
         /\ UNCHANGED <<reg, due, age, early>>
  <2>1. IF ProcessNow(m, again, now, from)
        THEN /\ reg' = [reg EXCEPT !.expired = again] /\ Callback(m)
             /\ UNCHANGED <<pc, current, overflown, expiry>>
        ELSE /\ InsertInActiveList(m, again, now) /\ Go(Daemon, "callback")
             /\ UNCHANGED <<reg, timersHistory>>
    BY <1>2, <1>6 DEF ReloadTimer
  <2>2. x + Period[m] <= now \/ x + Period[m] > now
    BY <1>3, <1>5, RangeIs DEF Instants
  <2> QED
    BY <1>7, <2>1, <2>2 DEF Go, timersHistory
<1>9. due[m] = x - Now /\ due[m] <= 0
  BY <1>3, <1>4, <1>5, RangeIs DEF Instants
<1>10. Daemon \notin Timed(clk) /\ Daemon \notin clk.forever
  BY <1>1 DEF Asleep, Timed
<1>11. CASE /\ x + Period[m] <= now
            /\ reg' = [reg EXCEPT !.expired = again] /\ Callback(m)
            /\ UNCHANGED <<pc, current, overflown, expiry>>
  <2>1. /\ reg' \in RegisterTypes /\ reg'.expired = again /\ reg'.timer = m /\ reg'.now = now
        /\ reg'.then = reg.then /\ reg'.back = reg.back /\ reg'.sampled = reg.sampled
        /\ reg'.message = reg.message
    BY <1>2, <1>7, <1>11, RegistersIs DEF RegisterTypes
  <2>2. /\ (Switching' <=> Switching) /\ (Starting <=> Starting') /\ (Draining <=> Draining')
        /\ (Busy <=> Busy') /\ (Empty' <=> Empty)
    BY <1>1, <1>11, <2>1 DEF Switching, Starting, Draining, Busy, Empty
  <2>3. Lag' = Lag /\ Now' = Now
    <3>1. Base' = Base
      BY <1>1, <2>1, <2>2 DEF Base
    <3> QED
      BY <1>1, <2>2, <3>1 DEF Lag, Now
  <2>4. /\ due' \in [Timers -> Int] /\ early' = FALSE /\ due'[m] = due[m] + Period[m]
        /\ \A n \in Timers : n # m => due'[n] = due[n]
    <3>1. due \in [Timers -> Int] /\ early = FALSE /\ due[m] + Period[m] \in Int
      BY <1>3 DEF TimersTypes
    <3>2. ~(due[m] > 0)
      BY <1>3, <1>9
    <3> QED
      BY <1>3, <1>11, <3>1, <3>2 DEF Callback
  <2>5. TimersTypes'
    BY <1>1, <1>11, <2>1, <2>4 DEF TimersTypes, RegisterTypes, Asleep
  <2>6. DaemonOK'
    BY <1>1, <1>2, <1>11, <2>1, <2>2 DEF DaemonOK, Asleep
  <2>7. LagOK'
    BY <1>1, <1>10, <2>2, <2>3 DEF LagOK, Bound
  <2>8. ASSUME NEW n \in Timers
        PROVE  TimerOK(n)'
    <3>1. TimerOK(n) /\ At(n)' = At(n) /\ Listed' = Listed
      BY <1>11 DEF At, Listed
    <3>2. CASE n = m
      <4>1. Expired' = x + Period[m]
        BY <1>2, <1>3, <1>5, <1>7, <1>11, <2>1, RangeIs DEF Expired, Instants
      <4>2. due'[m] = Expired' - Now'
        BY <1>3, <1>5, <1>9, <2>3, <2>4, <4>1
      <4> QED
        BY <1>1, <1>3, <1>11, <2>1, <3>1, <3>2, <4>2 DEF TimerOK
    <3>3. CASE n # m
      BY <1>1, <1>2, <1>10, <1>11, <2>1, <2>3, <2>4, <3>1, <3>3 DEF TimerOK
    <3> QED
      BY <3>2, <3>3
  <2>9. OrderOK'
    BY <1>1, <1>11, <2>1, OrdersKept
  <2>10. CommandOK'
    <3>1. Starting => Starting' /\ (pc'[Daemon] # "sampleStart" => Lag' <= age[reg.message.timer])
      BY <1>1, <2>2, <2>3 DEF CommandOK
    <3> QED
      BY <1>1, <2>1, <2>2, <3>1, CommandsKept
  <2> QED
    BY <2>5, <2>6, <2>7, <2>8, <2>9, <2>10
<1>12. CASE /\ x + Period[m] > now
            /\ InsertInActiveList(m, again, now) /\ pc' = [pc EXCEPT ![Daemon] = "callback"]
            /\ UNCHANGED <<reg, due, age, early>>
  <2>1. /\ expiry' = [expiry EXCEPT ![m] = again] /\ expiry' \in [Timers -> Instants]
        /\ expiry'[m] = again /\ \A n \in Timers : n # m => expiry'[n] = expiry[n]
        /\ \/ again <= now /\ overflown' = overflown \cup {m} /\ current' = current
           \/ ~(again <= now) /\ current' = current \cup {m} /\ overflown' = overflown
        /\ current' \subseteq Timers /\ overflown' \subseteq Timers
        /\ current' \cap overflown' = {} /\ m \notin current /\ m \notin overflown
    BY <1>3, <1>7, <1>12 DEF InsertInActiveList, TimersTypes, Listed
  <2>2. /\ pc' \in [Tasks -> DaemonPlaces \cup {"idle", "order"}] /\ pc'[Daemon] = "callback"
        /\ pc'[Daemon] \in DaemonPlaces
        /\ \A t \in Orderers : pc'[t] = pc[t] /\ pc'[t] \in {"idle", "order"}
    <3>1. "callback" \in DaemonPlaces
      BY DEF DaemonPlaces
    <3> QED
      BY <1>12, <3>1, DaemonGoes
  <2>3. /\ (Switching' <=> Switching) /\ (Starting <=> Starting') /\ (Draining <=> Draining')
        /\ Busy /\ Busy'
    BY <1>1, <1>12, <2>2 DEF Switching, Starting, Draining, Busy
  <2>4. Lag' = Lag /\ Now' = Now
    <3>1. Base' = Base
      BY <1>1, <1>12, <2>3 DEF Base
    <3> QED
      BY <1>1, <2>3, <3>1 DEF Lag, Now
  <2>5. TimersTypes'
    BY <1>1, <1>12, <2>1, <2>2 DEF TimersTypes, Asleep
  <2>6. DaemonOK'
    BY <1>1, <1>12, <2>2, <2>3 DEF DaemonOK, Asleep
  <2>7. LagOK'
    BY <1>1, <1>10, <2>3, <2>4 DEF LagOK, Bound
  <2>8. Listed' = Listed \cup {m}
    BY <2>1 DEF Listed
  <2>9. ASSUME NEW n \in Timers
        PROVE  TimerOK(n)'
    <3>1. TimerOK(n)
      OBVIOUS
    <3>2. CASE n = m
      <4>1. At(m)' = x + Period[m]
        <5>1. CASE again <= now
          <6>1. At(m)' = again + TickRange
            BY <2>1, <5>1 DEF At
          <6> QED
            BY <1>7, <1>12, <5>1, <6>1
        <5>2. CASE ~(again <= now)
          <6>1. At(m)' = again + 0
            BY <2>1, <5>2 DEF At
          <6> QED
            BY <1>7, <1>12, <5>2, <6>1, RangeIs DEF Instants
        <5> QED
          BY <5>1, <5>2
      <4>2. due'[m] = At(m)' - Now' - Period[m] /\ At(m)' - Now' <= Period[m]
        BY <1>3, <1>5, <1>9, <1>12, <2>4, <4>1
      <4> QED
        BY <1>1, <1>2, <1>3, <1>9, <1>10, <1>12, <2>2, <2>8, <3>1, <3>2, <4>2 DEF TimerOK
    <3>3. CASE n # m
      <4>1. At(n)' = At(n) /\ (n \in Listed' <=> n \in Listed)
        BY <2>1, <2>8, <3>3 DEF At
      <4> QED
        BY <1>1, <1>2, <1>10, <1>12, <2>2, <2>4, <3>1, <3>3, <4>1 DEF TimerOK
    <3> QED
      BY <3>2, <3>3
  <2>10. OrderOK'
    BY <1>1, <1>12, <2>2, OrdersKept
  <2>11. CommandOK'
    <3>1. Starting => Starting' /\ (pc'[Daemon] # "sampleStart" => Lag' <= age[reg.message.timer])
      BY <1>1, <2>3, <2>4 DEF CommandOK
    <3> QED
      BY <1>1, <1>12, <2>3, <3>1, CommandsKept
  <2> QED
    BY <2>5, <2>6, <2>7, <2>9, <2>10, <2>11
<1> QED
  BY <1>8, <1>11, <1>12

\* prvSwitchTimerLists.
LEMMA SwitchTimerListsStep == TimersParameters /\ TimersInv /\ SwitchTimerLists => TimersInv'
<1> SUFFICES ASSUME TimersParameters, TimersInv, SwitchTimerLists PROVE TimersInv'
  OBVIOUS
<1> USE DEF TimersInv
<1>1. /\ UNCHANGED <<suspended, xPendingReadyList, clk, xPendedTicks, job, late, order,
                     commands, due, age, early>>
      /\ pc[Daemon] = "switch" /\ Daemon \notin Asleep(clk)
      /\ Daemon \notin Timed(clk) /\ Daemon \notin clk.forever
  BY DEF SwitchTimerLists, ClockAt, ClockRuns, clockVars, timersHistory, unchangedTasks,
         Asleep, Timed
<1>2. /\ Switching /\ (Draining <=> reg.back = "start") /\ Busy
      /\ (Starting <=> reg.back = "start")
      /\ Now = Base + Lag + TickRange /\ Base = reg.sampled /\ Base \in Instants /\ Lag \in Instants
      /\ Now \in Nat
  <2>1. Switching /\ (Draining <=> reg.back = "start") /\ Busy /\ (Starting <=> reg.back = "start")
    BY <1>1 DEF Switching, Draining, Busy, Starting
  <2> QED
    BY <1>1, <2>1, TimeIs DEF Base
<1>3. CASE current # {}
  <2>1. PICK m \in current : m = HeadOf(current)
    BY <1>3, HeadIs DEF TimersTypes
  <2>2. PICK now \in Instants : now = portMAX_DELAY /\ now = TickRange - 1
    BY RangeIs DEF portMAX_DELAY, Instants
  <2>3. ProcessExpiredTimer(m, now, "switch") /\ xLastTime' = xLastTime
    BY <1>3, <2>1, <2>2 DEF SwitchTimerLists
  <2>4. expiry[m] <= now /\ now <= Now
    <3>1. expiry[m] \in Instants
      BY <2>1 DEF TimersTypes
    <3> QED
      BY <1>2, <2>2, <3>1, RangeIs DEF Instants
  <2>5. /\ reg' \in RegisterTypes /\ reg'.timer = m /\ reg'.now = now /\ reg'.then = "switch"
        /\ reg'.message = reg.message /\ reg'.sampled = reg.sampled /\ reg'.back = reg.back
        /\ current' \subseteq current /\ overflown' = overflown
        /\ expiry' \in [Timers -> Instants] /\ active' \subseteq active
        /\ pc' \in [Tasks -> DaemonPlaces \cup {"idle", "order"}]
        /\ pc'[Daemon] \in {"reload", "callback"} /\ pc'[Daemon] \in DaemonPlaces
        /\ \A t \in Orderers : pc'[t] = pc[t] /\ pc'[t] \in {"idle", "order"}
        /\ Now' = Now => \A n \in Timers : TimerOK(n)'
    BY <1>1, <2>3, <2>4, ProcessExpiredTimerIs
  <2>6. /\ Switching' /\ (Starting' <=> Starting) /\ (Draining' <=> Draining) /\ Busy'
    BY <1>1, <1>2, <2>5 DEF Switching, Starting, Draining, Busy
  <2>7. Lag' = Lag /\ Now' = Now
    <3>1. Base' = Base
      BY <1>2, <2>5, <2>6 DEF Base
    <3> QED
      BY <1>1, <1>2, <2>6, <3>1 DEF Lag, Now
  <2>8. TimersTypes'
    BY <1>1, <2>3, <2>5 DEF TimersTypes, RegisterTypes, Asleep
  <2>9. DaemonOK'
    <3>1. m \in Timers
      BY DEF TimersTypes
    <3> QED
      BY <1>1, <1>2, <2>2, <2>5, <2>6, <3>1 DEF DaemonOK, Asleep
  <2>10. LagOK'
    BY <1>1, <1>2, <2>6, <2>7 DEF LagOK, Bound
  <2>11. OrderOK'
    BY <1>1, <2>5, OrdersKept
  <2>12. CommandOK'
    <3>1. Starting => Starting' /\ (pc'[Daemon] # "sampleStart" => Lag' <= age[reg.message.timer])
      BY <1>1, <2>6, <2>7 DEF CommandOK
    <3> QED
      BY <1>1, <2>5, <2>6, <3>1, CommandsKept
  <2> QED
    BY <2>5, <2>7, <2>8, <2>9, <2>10, <2>11, <2>12
<1>4. CASE current = {}
  <2>1. /\ current' = overflown /\ overflown' = {} /\ xLastTime' = reg.sampled
        /\ pc' = [pc EXCEPT ![Daemon] = reg.back] /\ UNCHANGED <<expiry, active, reg>>
    BY <1>4 DEF SwitchTimerLists, Go
  <2>2. reg.back \in {"resumeSwitched", "start"} /\ reg.sampled \in Instants
    BY <1>2 DEF DaemonOK, TimersTypes
  <2>3. /\ pc' \in [Tasks -> DaemonPlaces \cup {"idle", "order"}] /\ pc'[Daemon] = reg.back
        /\ pc'[Daemon] \in DaemonPlaces
        /\ \A t \in Orderers : pc'[t] = pc[t] /\ pc'[t] \in {"idle", "order"}
    <3>1. PICK place \in DaemonPlaces : place = reg.back
      BY <2>2 DEF DaemonPlaces
    <3>2. pc' = [pc EXCEPT ![Daemon] = place]
      BY <2>1, <3>1
    <3> QED
      BY <3>1, <3>2, DaemonGoes
  <2>4. /\ ~Switching' /\ (Starting' <=> Starting) /\ (Draining' <=> Draining) /\ Busy'
        /\ (Empty' <=> Empty) /\ Listed' = Listed
    BY <1>2, <1>4, <2>1, <2>2, <2>3 DEF Switching, Starting, Draining, Busy, Empty, Listed
  <2>5. Lag' = Lag /\ Now' = Now - TickRange
    <3>1. Base' = Base
      BY <1>2, <2>1, <2>4 DEF Base
    <3>2. Lag' = Lag
      BY <1>1, <3>1 DEF Lag
    <3>3. Now' = Base + Lag + 0
      BY <2>4, <3>1, <3>2 DEF Now
    <3> QED
      BY <1>2, <3>2, <3>3, RangeIs DEF Instants
  <2>6. TimersTypes'
    BY <1>1, <1>4, <2>1, <2>2, <2>3 DEF TimersTypes, Asleep
  <2>7. DaemonOK'
    BY <1>1, <1>2, <2>1, <2>2, <2>3, <2>4 DEF DaemonOK, Asleep
  <2>8. LagOK'
    BY <1>1, <1>2, <2>4, <2>5 DEF LagOK, Bound
  <2>9. ASSUME NEW n \in Timers
        PROVE  TimerOK(n)'
    <3>1. TimerOK(n)
      OBVIOUS
    <3>2. pc'[Daemon] # "reload" /\ pc'[Daemon] # "callback"
      BY <2>2, <2>3
    <3>3. n \in Listed => At(n)' = At(n) - TickRange /\ At(n) \in Int
      <4> SUFFICES ASSUME n \in Listed PROVE At(n)' = At(n) - TickRange /\ At(n) \in Int
        OBVIOUS
      <4>1. n \in overflown /\ expiry[n] \in Instants
        BY <1>4 DEF Listed, TimersTypes
      <4>2. At(n) = expiry[n] + TickRange /\ At(n)' = expiry[n] + 0
        BY <2>1, <4>1 DEF At
      <4> QED
        BY <4>1, <4>2, RangeIs DEF Instants
    <3>4. n \in Listed => At(n)' - Now' = At(n) - Now /\ At(n)' - Now' - 0 = At(n) - Now - 0
      BY <1>2, <2>5, <3>3, RangeIs
    <3> QED
      BY <1>1, <2>1, <2>4, <3>1, <3>2, <3>4 DEF TimerOK
  <2>10. OrderOK'
    BY <1>1, <2>1, <2>3, OrdersKept
  <2>11. CommandOK'
    <3>1. Starting => Starting' /\ (pc'[Daemon] # "sampleStart" => Lag' <= age[reg.message.timer])
      BY <1>1, <2>4, <2>5 DEF CommandOK
    <3> QED
      BY <1>1, <2>1, <2>4, <3>1, CommandsKept
  <2> QED
    BY <2>6, <2>7, <2>8, <2>9, <2>10, <2>11
<1> QED
  BY <1>3, <1>4

\* prvProcessReceivedCommands.
LEMMA ReceiveCommandStep == TimersParameters /\ TimersInv /\ ReceiveCommand => TimersInv'
<1> SUFFICES ASSUME TimersParameters, TimersInv, ReceiveCommand PROVE TimersInv'
  OBVIOUS
<1> USE DEF TimersInv
<1>1. /\ UNCHANGED <<suspended, xPendingReadyList, clk, xPendedTicks, job, late, order,
                     active, xLastTime, due, age, early>>
      /\ pc[Daemon] = "receive" /\ Daemon \notin Asleep(clk) /\ suspended = NoTask
      /\ Daemon \notin Timed(clk) /\ Daemon \notin clk.forever
  BY DEF ReceiveCommand, ClockAt, ClockRuns, clockVars, timersHistory, unchangedTasks,
         Asleep, Timed
<1>2. /\ ~Switching /\ ~Starting /\ Draining /\ ~Busy /\ reg.message.timer = NoTimer
      /\ NoTimer \notin Timers /\ suspended # Daemon
  BY <1>1, TasksAssumption, TimersAssumption
  DEF Switching, Starting, Draining, Busy, DaemonOK, TimersParameters
<1>3. CASE commands = <<>>
  <2>1. /\ UNCHANGED <<current, overflown, expiry, reg, commands>>
        /\ pc' = [pc EXCEPT ![Daemon] = "next"]
    BY <1>3 DEF ReceiveCommand, Go
  <2>2. /\ pc' \in [Tasks -> DaemonPlaces \cup {"idle", "order"}] /\ pc'[Daemon] = "next"
        /\ pc'[Daemon] \in DaemonPlaces
        /\ \A t \in Orderers : pc'[t] = pc[t] /\ pc'[t] \in {"idle", "order"}
    <3>1. "next" \in DaemonPlaces
      BY DEF DaemonPlaces
    <3> QED
      BY <2>1, <3>1, DaemonGoes
  <2>3. ~Switching' /\ ~Starting' /\ ~Busy' /\ (Empty' <=> Empty)
    BY <2>1, <2>2 DEF Switching, Starting, Busy, Empty
  <2>4. Lag' = Lag /\ Now' = Now
    <3>1. Base' = Base
      BY <1>1, <1>2, <2>3 DEF Base
    <3> QED
      BY <1>1, <1>2, <2>3, <3>1 DEF Lag, Now
  <2>5. TimersTypes'
    BY <1>1, <2>1, <2>2 DEF TimersTypes, Asleep
  <2>6. DaemonOK'
    BY <1>1, <1>2, <2>1, <2>2, <2>3 DEF DaemonOK, Asleep
  <2>7. LagOK'
    BY <1>1, <2>3, <2>4 DEF LagOK, Bound
  <2>8. \A m \in Timers : TimerOK(m)'
    <3>1. pc[Daemon] \notin {"reload", "callback"} /\ pc'[Daemon] \notin {"reload", "callback"}
      BY <1>1, <2>2
    <3> QED
      BY <1>1, <2>1, <2>4, <3>1, TimersKept
  <2>9. OrderOK'
    BY <1>1, <2>1, <2>2, OrdersKept
  <2>10. CommandOK'
    <3>1. Ordered' = Ordered
      BY <1>1, <2>1 DEF Ordered
    <3> QED
      BY <1>1, <1>3, <2>1, <2>3, <3>1 DEF CommandOK
  <2> QED
    BY <2>5, <2>6, <2>7, <2>8, <2>9, <2>10
<1>4. CASE commands # <<>>
  <2>1. /\ commands \in Seq(Orders) /\ Len(commands) \in Nat /\ Len(commands) > 0
        /\ 1 \in 1..Len(commands) /\ Head(commands) = commands[1]
        /\ Tail(commands) \in Seq(Orders) /\ Len(Tail(commands)) = Len(commands) - 1
        /\ \A i \in 1..Len(Tail(commands)) :
              Tail(commands)[i] = commands[i + 1] /\ i + 1 \in 1..Len(commands) /\ i + 1 # 1
    <3>1. commands \in Seq(Orders)
      BY DEF TimersTypes
    <3> QED
      BY <1>4, <3>1
  <2>2. PICK o \in Orders : o = commands[1]
    BY <2>1
  <2>3. /\ o.timer \in Timers /\ OrderedAt(o) /\ Age(o)
        /\ \A j \in 1..Len(commands) : commands[j].timer = o.timer => j = 1
    BY <2>1, <2>2 DEF CommandOK
  <2>4. PICK m \in Timers : m = o.timer
    BY <2>3
  <2>5. m \notin active /\ m \notin Listed
    <3>1. m \notin active /\ TimerOK(m)
      BY <2>3, <2>4 DEF OrderedAt
    <3> QED
      BY <3>1 DEF TimerOK
  <2>6. /\ current' = current /\ overflown' = overflown
        /\ expiry' = [expiry EXCEPT ![m] = 0]
        /\ reg' = [Registers EXCEPT !.message = o] /\ commands' = Tail(commands)
        /\ pc' = [pc EXCEPT ![Daemon] = "sampleStart"]
    <3>1. RemovedFromLists(m)
      BY <1>4, <2>1, <2>2, <2>4 DEF ReceiveCommand
    <3>2. reg' = [Registers EXCEPT !.message = o] /\ commands' = Tail(commands)
          /\ pc' = [pc EXCEPT ![Daemon] = "sampleStart"]
      BY <1>4, <2>1, <2>2 DEF ReceiveCommand, Go
    <3> QED
      BY <2>5, <3>1, <3>2 DEF RemovedFromLists, Listed
  <2>7. /\ reg' \in RegisterTypes /\ reg'.message = o /\ reg'.timer = NoTimer
    BY <2>2, <2>6, RegistersIs DEF RegisterTypes
  <2>8. /\ pc' \in [Tasks -> DaemonPlaces \cup {"idle", "order"}] /\ pc'[Daemon] = "sampleStart"
        /\ pc'[Daemon] \in DaemonPlaces
        /\ \A t \in Orderers : pc'[t] = pc[t] /\ pc'[t] \in {"idle", "order"}
    <3>1. "sampleStart" \in DaemonPlaces
      BY DEF DaemonPlaces
    <3> QED
      BY <2>6, <3>1, DaemonGoes
  <2>9. expiry' \in [Timers -> Instants] /\ \A n \in Timers : n # m => expiry'[n] = expiry[n]
    BY <2>6, RangeIs DEF TimersTypes, Instants
  <2>10. ~Switching' /\ Starting' /\ Draining' /\ ~Busy' /\ (Empty' <=> Empty) /\ Listed' = Listed
    BY <2>6, <2>8 DEF Switching, Starting, Draining, Busy, Empty, Listed
  <2>11. Lag' = Lag /\ Now' = Now
    <3>1. Base' = Base
      BY <1>1, <1>2, <2>10 DEF Base
    <3> QED
      BY <1>1, <1>2, <2>10, <3>1 DEF Lag, Now
  <2>12. TimersTypes'
    BY <1>1, <2>1, <2>6, <2>7, <2>8, <2>9 DEF TimersTypes, RegisterTypes, Asleep
  <2>13. DaemonOK'
    BY <1>1, <1>2, <2>3, <2>7, <2>8, <2>10 DEF DaemonOK, Asleep
  <2>14. LagOK'
    BY <1>1, <2>10, <2>11 DEF LagOK, Bound
  <2>15. ASSUME NEW n \in Timers
         PROVE  TimerOK(n)'
    <3>1. TimerOK(n)
      OBVIOUS
    <3>2. n \in Listed => At(n)' = At(n)
      BY <2>5, <2>6, <2>9 DEF At
    <3> QED
      BY <1>1, <2>6, <2>8, <2>10, <2>11, <3>1, <3>2 DEF TimerOK
  <2>16. OrderOK'
    <3>1. \A n \in Timers :
             reg'.message.timer = n \/ (\E i \in 1..Len(commands') : commands'[i].timer = n)
             => \E i \in 1..Len(commands) : commands[i].timer = n
      BY <2>1, <2>2, <2>6, <2>7
    <3> QED
      BY <1>1, <2>8, <3>1, OrdersKept
  <2>17. CommandOK'
    <3>1. ASSUME NEW i \in 1..Len(commands')
          PROVE  /\ commands'[i].timer \in Timers /\ OrderedAt(commands[i])' /\ Age(commands[i])'
                 /\ \A j \in 1..Len(commands') : commands'[j].timer = commands'[i].timer => j = i
                 /\ reg'.message.timer # commands'[i].timer
      <4>1. /\ commands'[i] = commands[i + 1] /\ i + 1 \in 1..Len(commands) /\ i + 1 # 1
            /\ i \in Nat
        BY <2>1, <2>6
      <4>2. PICK c : c = commands[i + 1]
        OBVIOUS
      <4>3. /\ c.timer \in Timers /\ OrderedAt(c) /\ Age(c) /\ c.timer # o.timer
            /\ \A j \in 1..Len(commands) : commands[j].timer = c.timer => j = i + 1
        BY <2>3, <4>1, <4>2 DEF CommandOK
      <4>4. OrderedAt(commands[i])' /\ Age(commands[i])'
        BY <1>1, <1>2, <2>10, <4>1, <4>2, <4>3 DEF OrderedAt, Age, Oldest
      <4>5. \A j \in 1..Len(commands') : commands'[j].timer = commands'[i].timer => j = i
        <5> SUFFICES ASSUME NEW j \in 1..Len(commands'), commands'[j].timer = commands'[i].timer
                     PROVE  j = i
          OBVIOUS
        <5>1. commands'[j] = commands[j + 1] /\ j + 1 \in 1..Len(commands) /\ j \in Nat
          BY <2>1, <2>6
        <5>2. j + 1 = i + 1
          BY <4>1, <4>2, <4>3, <5>1
        <5> QED
          BY <4>1, <5>1, <5>2
      <4> QED
        BY <2>7, <4>1, <4>2, <4>3, <4>4, <4>5
    <3>2. OrderedAt(reg.message)' /\ Age(reg.message)'
      BY <1>1, <1>2, <2>3, <2>7, <2>10 DEF OrderedAt, Age, Oldest
    <3>3. ASSUME NEW n \in Timers \ Ordered'
          PROVE  age[n] = 0
      <4>1. n \notin Ordered
        <5> SUFFICES ASSUME n \in Ordered PROVE FALSE
          OBVIOUS
        <5>1. CASE \E u \in Tasks : order[u].timer = n
          BY <1>1, <3>3, <5>1 DEF Ordered
        <5>2. CASE n = reg.message.timer
          BY <1>2, <5>2
        <5>3. CASE \E i \in 1..Len(commands) : commands[i].timer = n
          <6>1. PICK i \in 1..Len(commands) : commands[i].timer = n
            BY <5>3
          <6>2. CASE i = 1
            BY <2>2, <2>7, <3>3, <6>1, <6>2 DEF Ordered
          <6>3. CASE i # 1
            <7>1. PICK j \in Int : j = i - 1
              OBVIOUS
            <7>2. j \in 1..Len(commands') /\ commands'[j] = commands[i]
              <8>1. j \in 1..Len(Tail(commands)) /\ j + 1 = i
                BY <2>1, <6>3, <7>1
              <8> QED
                BY <2>1, <2>6, <8>1
            <7> QED
              BY <3>3, <6>1, <7>2 DEF Ordered
          <6> QED
            BY <6>2, <6>3
        <5> QED
          BY <5>1, <5>2, <5>3 DEF Ordered
      <4> QED
        BY <4>1 DEF CommandOK
    <3> QED
      BY <1>1, <2>8, <3>1, <3>2, <3>3 DEF CommandOK
  <2> QED
    BY <2>12, <2>13, <2>14, <2>15, <2>16, <2>17
<1> QED
  BY <1>3, <1>4

\* tmrCOMMAND_START.
LEMMA StartTimerStep == TimersParameters /\ TimersInv /\ StartTimer => TimersInv'
<1> SUFFICES ASSUME TimersParameters, TimersInv, StartTimer PROVE TimersInv'
  OBVIOUS
<1> USE DEF TimersInv
<1>1. /\ UNCHANGED <<suspended, xPendingReadyList, clk, xPendedTicks, job, late, order,
                     xLastTime, commands, early>>
      /\ pc[Daemon] = "start" /\ Daemon \notin Asleep(clk) /\ suspended = NoTask
      /\ Daemon \notin Timed(clk) /\ Daemon \notin clk.forever
  BY DEF StartTimer, ClockAt, ClockRuns, clockVars, unchangedTasks, Asleep, Timed
<1>2. /\ ~Switching /\ Starting /\ Draining /\ Busy /\ suspended # Daemon /\ NoTimer \notin Timers
  BY <1>1, TasksAssumption, TimersAssumption
  DEF Switching, Starting, Draining, Busy, TimersParameters
<1>3. PICK o \in Orders : o = reg.message
  BY DEF TimersTypes
<1>4. PICK m \in Timers, from \in Instants : m = o.timer /\ from = o.value
  BY <1>2, <1>3 DEF DaemonOK, Orders
<1>5. PICK g \in Nat : g = age[m]
  BY DEF TimersTypes
<1>6. /\ m \notin active /\ from + g \in {clk.tick, clk.tick + TickRange} /\ Lag <= g
      /\ g + xPendedTicks <= Oldest + MaxLate[Daemon] + late[Daemon]
  <2>1. OrderedAt(o) /\ Age(o) /\ Lag <= g
    BY <1>1, <1>2, <1>3, <1>4, <1>5 DEF CommandOK
  <2> QED
    BY <1>2, <1>4, <1>5, <2>1 DEF OrderedAt, Age
<1>7. /\ Base = xLastTime /\ Now = xLastTime + Lag /\ Now \in Nat /\ Lag \in Nat
      /\ Now \in {clk.tick, clk.tick + TickRange} /\ clk.tick \in Instants
      /\ xLastTime \in Instants /\ reg.sampled = xLastTime
  <2>1. Base = xLastTime /\ reg.sampled = xLastTime
    BY <1>1, <1>2 DEF Base, DaemonOK
  <2> QED
    BY <1>2, <2>1, TimeIs DEF Instants
<1>8. g < TickRange
  <2>1. /\ late[Daemon] \in Nat /\ late[Daemon] <= MaxLate[Daemon] /\ MaxLate[Daemon] \in Nat
        /\ Oldest = TickRange - 1 - 2 * MaxLate[Daemon] /\ xPendedTicks \in Nat /\ Oldest \in Int
    BY TimeIs
  <2> QED
    BY ONLY <1>6, <2>1, RangeIs, g \in Nat
<1>9. PICK now \in Instants : now = xLastTime
  BY <1>7
<1>10. PICK x \in Int : /\ x = Now - g /\ x <= now /\ x > now - TickRange
                        /\ from = IF x >= 0 THEN x ELSE x + TickRange
  <2>1. PICK x \in Int : x = Now - g
    BY <1>7
  <2>2. x <= now /\ x > now - TickRange
    BY <1>6, <1>7, <1>8, <1>9, <2>1, RangeIs DEF Instants
  <2>3. from = x \/ from = x + TickRange \/ from = x - TickRange
    BY <1>6, <1>7, <2>1, RangeIs DEF Instants
  <2>4. from = IF x >= 0 THEN x ELSE x + TickRange
    BY <2>2, <2>3, RangeIs DEF Instants
  <2> QED
    BY <2>1, <2>2, <2>4
<1>11. PICK first : first = (from + Period[m]) % TickRange
  OBVIOUS
<1>12. /\ first \in Instants
       /\ ProcessNow(m, first, now, from) <=> x + Period[m] <= now
       /\ x + Period[m] <= now =>
             first = IF x + Period[m] >= 0 THEN x + Period[m] ELSE x + Period[m] + TickRange
       /\ x + Period[m] > now =>
             x + Period[m] = IF first <= now THEN first + TickRange ELSE first
  BY <1>10, <1>11, ProcessNowIs
<1>13. Period[m] \in 1..(TickRange - 1) /\ (x + Period[m] <= now \/ x + Period[m] > now)
  <2>1. Period[m] \in 1..(TickRange - 1)
    BY TimersAssumption
  <2> QED
    BY <2>1, RangeIs DEF Instants
<1>14. /\ due' = [due EXCEPT ![m] = Period[m] - g] /\ age' = [age EXCEPT ![m] = 0]
  BY <1>3, <1>4, <1>5 DEF StartTimer
<1>15. /\ due' \in [Timers -> Int] /\ age' \in [Timers -> Nat]
       /\ due'[m] = Period[m] - g /\ age'[m] = 0
       /\ \A n \in Timers : n # m => due'[n] = due[n] /\ age'[n] = age[n]
  BY <1>13, <1>14 DEF TimersTypes
<1>16. PICK place \in {"reload", "callback", "receive"} :
       /\ pc' = [pc EXCEPT ![Daemon] = place]
       /\ \/ /\ x + Period[m] <= now
             /\ place = IF m \in AutoReload THEN "reload" ELSE "callback"
             /\ reg' = [Registers EXCEPT !.timer = m, !.expired = first, !.now = now,
                                         !.then = "receive"]
             /\ UNCHANGED <<current, overflown, expiry>>
             /\ active' = IF m \notin AutoReload THEN active \ {m} ELSE active \cup {m}
          \/ /\ x + Period[m] > now /\ place = "receive" /\ InsertInActiveList(m, first, now)
             /\ reg' = Registers /\ active' = active \cup {m}
  <2>1. PICK over : over = ProcessNow(m, first, now, from)
    OBVIOUS
  <2>2. /\ IF over
           THEN /\ Go(Daemon, IF m \in AutoReload THEN "reload" ELSE "callback")
                /\ reg' = [Registers EXCEPT !.timer = m, !.expired = first,
                                            !.now = now, !.then = "receive"]
                /\ UNCHANGED <<current, overflown, expiry>>
           ELSE /\ InsertInActiveList(m, first, now)
                /\ Go(Daemon, "receive")
                /\ reg' = Registers
        /\ active' = IF over /\ m \notin AutoReload THEN active \ {m} ELSE active \cup {m}
    BY <1>3, <1>4, <1>7, <1>9, <1>11, <2>1 DEF StartTimer
  <2>3. CASE x + Period[m] <= now
    <3>1. ProcessNow(m, first, now, from) = TRUE
      BY <1>12, <2>3 DEF ProcessNow
    <3>2. CASE m \in AutoReload
      BY <2>1, <2>2, <2>3, <3>1, <3>2 DEF Go
    <3>3. CASE m \notin AutoReload
      BY <2>1, <2>2, <2>3, <3>1, <3>3 DEF Go
    <3> QED
      BY <3>2, <3>3
  <2>4. CASE x + Period[m] > now
    <3>1. ~(x + Period[m] <= now)
      BY <1>13, <2>4, RangeIs DEF Instants
    <3>2. ProcessNow(m, first, now, from) = FALSE
      BY <1>12, <3>1 DEF ProcessNow
    <3> QED
      BY <2>1, <2>2, <2>4, <3>2 DEF Go
  <2> QED
    BY <1>13, <2>3, <2>4
<1>17. /\ pc' \in [Tasks -> DaemonPlaces \cup {"idle", "order"}] /\ pc'[Daemon] = place
       /\ pc'[Daemon] \in DaemonPlaces
       /\ \A t \in Orderers : pc'[t] = pc[t] /\ pc'[t] \in {"idle", "order"}
  <2>1. place \in DaemonPlaces
    BY <1>16 DEF DaemonPlaces
  <2> QED
    BY <1>16, <2>1, DaemonGoes
<1>18. /\ reg' \in RegisterTypes /\ reg'.message = NoOrder /\ NoOrder.timer = NoTimer
       /\ x + Period[m] <= now => /\ reg'.timer = m /\ reg'.expired = first
                                  /\ reg'.now = now /\ reg'.then = "receive"
       /\ x + Period[m] > now => reg'.timer = NoTimer
  <2>1. CASE reg' = Registers /\ x + Period[m] > now
    <3>1. ~(x + Period[m] <= now)
      BY <1>13, <2>1, RangeIs DEF Instants
    <3> QED
      BY <2>1, <3>1, RegistersIs
  <2>2. CASE /\ reg' = [Registers EXCEPT !.timer = m, !.expired = first, !.now = now,
                                         !.then = "receive"]
             /\ x + Period[m] <= now
    <3>1. ~(x + Period[m] > now)
      BY <1>13, <2>2, RangeIs DEF Instants
    <3> QED
      BY <1>12, <2>2, <3>1, RegistersIs DEF RegisterTypes
  <2> QED
    BY <1>16, <2>1, <2>2
<1>19. place # "receive" => reg'.then = "receive"
  BY <1>16, <1>18
<1>20. ~Switching' /\ ~Starting' /\ Draining'
  BY <1>16, <1>17, <1>19 DEF Switching, Starting, Draining
<1>21. Lag' = Lag /\ Now' = Now
  <2>1. Base' = Base
    BY <1>1, <1>2, <1>20 DEF Base
  <2> QED
    BY <1>1, <1>2, <1>20, <2>1 DEF Lag, Now
<1>22. /\ m \notin Listed /\ m \notin current /\ m \notin overflown
       /\ current \subseteq Timers /\ overflown \subseteq Timers /\ current \cap overflown = {}
       /\ expiry \in [Timers -> Instants] /\ active \subseteq Timers
  <2>1. TimerOK(m)
    OBVIOUS
  <2> QED
    BY <1>6, <2>1 DEF TimerOK, Listed, TimersTypes
<1>23. /\ expiry' \in [Timers -> Instants] /\ current' \subseteq Timers /\ overflown' \subseteq Timers
       /\ current' \cap overflown' = {} /\ active' \subseteq Timers
       /\ active' \subseteq active \cup {m} /\ \A n \in Timers : n # m => (n \in active' <=> n \in active)
       /\ \A n \in Timers : n # m => /\ At(n)' = At(n) /\ (n \in Listed' <=> n \in Listed)
  <2>1. CASE /\ UNCHANGED <<current, overflown, expiry>>
             /\ active' = IF m \notin AutoReload THEN active \ {m} ELSE active \cup {m}
    BY <1>22, <2>1 DEF At, Listed
  <2>2. CASE InsertInActiveList(m, first, now) /\ active' = active \cup {m}
    <3>1. /\ expiry' = [expiry EXCEPT ![m] = first]
          /\ \/ overflown' = overflown \cup {m} /\ current' = current
             \/ current' = current \cup {m} /\ overflown' = overflown
      BY <2>2 DEF InsertInActiveList
    <3>2. /\ expiry' \in [Timers -> Instants]
          /\ \A n \in Timers : n # m => expiry'[n] = expiry[n]
      BY <1>12, <1>22, <3>1
    <3> QED
      BY <1>22, <2>2, <3>1, <3>2 DEF At, Listed
  <2> QED
    BY <1>16, <2>1, <2>2
<1>24. TimersTypes'
  BY <1>1, <1>15, <1>17, <1>18, <1>23 DEF TimersTypes, RegisterTypes, Asleep
<1>25. DaemonOK'
  BY <1>1, <1>2, <1>9, <1>16, <1>17, <1>18, <1>20 DEF DaemonOK, Asleep
<1>26. LagOK'
  BY <1>1, <1>2, <1>21 DEF LagOK, Bound
<1>27. TimerOK(m)'
  <2>1. Now' = x + g /\ due'[m] = x + Period[m] - Now' /\ now <= Now /\ now \in Int
        /\ Period[m] \in Int /\ Now' - Now = 0
    BY <1>7, <1>9, <1>10, <1>13, <1>15, <1>21, RangeIs DEF Instants
  <2>2. CASE x + Period[m] <= now
    <3>1. /\ UNCHANGED <<current, overflown, expiry>>
          /\ place = IF m \in AutoReload THEN "reload" ELSE "callback"
          /\ active' = IF m \notin AutoReload THEN active \ {m} ELSE active \cup {m}
      <4>1. ~(x + Period[m] > now)
        BY <1>13, <2>2, RangeIs DEF Instants
      <4> QED
        BY <1>16, <4>1
    <3>2. Listed' = Listed
      BY <3>1 DEF Listed
    <3>3. Expired' = x + Period[m]
      BY <1>10, <1>12, <1>13, <1>18, <2>2, RangeIs DEF Expired, Instants
    <3>4. due'[m] = Expired' - Now' /\ due'[m] <= 0
      BY <1>7, <1>10, <1>13, <1>21, <2>1, <2>2, <3>3, RangeIs DEF Instants
    <3> QED
      BY <1>1, <1>17, <1>18, <1>22, <2>2, <3>1, <3>2, <3>4 DEF TimerOK
  <2>3. CASE x + Period[m] > now
    <3>1. /\ InsertInActiveList(m, first, now) /\ place = "receive" /\ active' = active \cup {m}
      <4>1. ~(x + Period[m] <= now)
        BY <1>13, <2>3, RangeIs DEF Instants
      <4> QED
        BY <1>16, <4>1
    <3>2. /\ expiry'[m] = first
          /\ \/ first <= now /\ overflown' = overflown \cup {m} /\ current' = current
             \/ ~(first <= now) /\ current' = current \cup {m} /\ overflown' = overflown
      BY <1>22, <3>1 DEF InsertInActiveList
    <3>3. At(m)' = x + Period[m]
      <4>1. CASE first <= now
        <5>1. At(m)' = first + TickRange
          BY <3>2, <4>1 DEF At
        <5> QED
          BY <1>12, <2>3, <4>1, <5>1
      <4>2. CASE ~(first <= now)
        <5>1. At(m)' = first + 0
          BY <1>22, <3>2, <4>2 DEF At
        <5> QED
          BY <1>12, <2>3, <4>2, <5>1, RangeIs DEF Instants
      <4> QED
        BY <4>1, <4>2
    <3>4. m \in Listed' /\ m \in active'
      BY <3>1, <3>2 DEF Listed
    <3>5. due'[m] = At(m)' - Now' - 0 /\ At(m)' - Now' <= Period[m]
      BY <1>7, <1>10, <1>13, <1>21, <2>1, <3>3
    <3> QED
      BY <1>1, <1>17, <1>18, <2>3, <3>1, <3>4, <3>5 DEF TimerOK
  <2> QED
    BY <1>13, <2>2, <2>3
<1>28. ASSUME NEW n \in Timers, n # m
       PROVE  TimerOK(n)'
  <2>1. TimerOK(n)
    OBVIOUS
  <2>2. ~(pc'[Daemon] \in {"reload", "callback"} /\ reg'.timer = n)
    BY <1>13, <1>16, <1>17, <1>18, <1>28
  <2>3. /\ At(n)' = At(n) /\ (n \in Listed' <=> n \in Listed) /\ (n \in active' <=> n \in active)
        /\ due'[n] = due[n]
    BY <1>15, <1>23, <1>28
  <2> QED
    BY <1>1, <1>21, <2>1, <2>2, <2>3 DEF TimerOK
<1>29. OrderOK'
  <2>1. \A n \in Timers :
            n \in active' \/ age'[n] # age[n] => n \in active \/ reg.message.timer = n
    BY <1>3, <1>4, <1>15, <1>23
  <2> QED
    BY <1>1, <1>2, <1>17, <1>18, <2>1, OrdersKept
<1>30. CommandOK'
  <2>1. ASSUME NEW i \in 1..Len(commands)
        PROVE  OrderedAt(commands[i])' /\ Age(commands[i])'
    <3>1. PICK c : c = commands[i]
      OBVIOUS
    <3>2. c.timer \in Timers /\ OrderedAt(c) /\ Age(c) /\ c.timer # m
      BY <1>3, <1>4, <3>1 DEF CommandOK
    <3>3. age'[c.timer] = age[c.timer] /\ c.timer \notin active'
      BY <1>15, <1>23, <3>2 DEF OrderedAt
    <3> QED
      BY <1>1, <1>2, <1>20, <3>1, <3>2, <3>3 DEF OrderedAt, Age, Oldest
  <2>2. ASSUME NEW n \in Timers \ Ordered'
        PROVE  age'[n] = 0
    <3>1. CASE n = m
      BY <1>15, <3>1
    <3>2. CASE n # m
      <4>1. n \notin Ordered
        BY <1>1, <1>3, <1>4, <2>2, <3>2 DEF Ordered
      <4> QED
        BY <1>15, <3>2, <4>1 DEF CommandOK
    <3> QED
      BY <3>1, <3>2
  <2>3. \A i \in 1..Len(commands) : commands[i].timer \in Timers
    BY DEF CommandOK
  <2> QED
    BY <1>1, <1>2, <1>18, <1>20, <2>1, <2>2, <2>3 DEF CommandOK
<1> QED
  BY <1>24, <1>25, <1>26, <1>27, <1>28, <1>29, <1>30

-------------------------------------------------------------------------------
LEMMA TimersSteps ==
    ASSUME TimersParameters, TimersInv,
           [TimersNext]_<<suspended, xPendingReadyList, pc, clockVars, timerVars, order,
                          timersHistory>>
    PROVE  TimersInv'
<1>1. CASE UNCHANGED <<suspended, xPendingReadyList, pc, clockVars, timerVars, order,
                       timersHistory>>
  <2>1. UNCHANGED <<suspended, xPendingReadyList, pc, clk, xPendedTicks, job, late, current,
                    overflown, expiry, active, xLastTime, commands, reg, order, due, age, early>>
    BY <1>1 DEF clockVars, timerVars, timersHistory
  <2>2. /\ Lag' = Lag /\ Now' = Now /\ (Switching <=> Switching') /\ (Starting <=> Starting')
        /\ (Draining <=> Draining') /\ (Busy <=> Busy') /\ (Empty <=> Empty')
        /\ HeadOf(current)' = HeadOf(current)
        /\ \A m \in Timers : TimerOK(m) => TimerOK(m)'
    BY <2>1, NotTheDaemon DEF Timed, Rest
  <2>3. TimersTypes'
    BY <2>1 DEF TimersInv, TimersTypes, Asleep
  <2>4. DaemonOK'
    BY <2>1, <2>2 DEF TimersInv, DaemonOK, Asleep
  <2>5. LagOK'
    BY <2>1, <2>2 DEF TimersInv, LagOK, Bound, Timed, Rest, Asleep
  <2>6. OrderOK'
    BY <2>1, OrdersKept DEF TimersInv
  <2>7. CommandOK'
    <3>1. Starting /\ pc'[Daemon] # "sampleStart" => Lag' <= age[reg.message.timer]
      BY <2>1, <2>2 DEF TimersInv, CommandOK
    <3> QED
      BY <2>1, <2>2, <3>1, CommandsKept
  <2> QED
    BY <2>2, <2>3, <2>4, <2>5, <2>6, <2>7 DEF TimersInv
<1>2. CASE TimersTick
  BY <1>2, TimersTickStep
<1>3. CASE DaemonStep
  BY <1>3, GetNextExpireTimeStep, SampleTimeNowStep, ResumeDaemonStep, ExpireStep,
     ReloadTimerStep, RunCallbackStep, SwitchTimerListsStep, ReceiveCommandStep,
     SampleForCommandStep, StartTimerStep DEF DaemonStep
<1>4. ASSUME NEW t \in Orderers, ReadTickCount(t) \/ SendCommand(t)
      PROVE  TimersInv'
  BY <1>4, ReadTickCountStep, SendCommandStep
<1> QED
  BY <1>1, <1>2, <1>3, <1>4 DEF TimersNext

\* A step of the timers has nobody sleep but the daemon.
LEMMA InvIsExactToo == TimersParameters /\ TimersInv => TimeIsExact
<1> SUFFICES ASSUME TimersParameters, TimersInv, NEW t \in Sleepers
             PROVE  t \notin Asleep(clk) /\ pc[t] # "giveUp" /\ pc[t] # "blocked"
  BY DEF TimeIsExact
<1>1. t \in Tasks /\ t # Daemon
  BY ClockAssumption DEF TimersParameters
<1>2. pc[t] \in DaemonPlaces \cup {"idle", "order"} /\ Asleep(clk) \subseteq {Daemon}
  BY <1>1 DEF TimersInv, TimersTypes
<1> QED
  BY <1>1, <1>2 DEF DaemonPlaces

\* No callback of a software timer runs before its timer has run for a whole period, and
\* the daemon never sleeps past the expiry of a timer: for every range of the tick count,
\* any timers and periods, through the overflow of the tick count between the order to start a
\* timer, the command and its handling, as long as nobody is so late that it comes around.
THEOREM TimersAreOnTime == TimersParameters => (TimersSpec => []OnTime)
<1> SUFFICES ASSUME TimersParameters PROVE TimersSpec => []OnTime
  OBVIOUS
<1>1. TimersInit => TimersInv
  BY TimersStarts
<1>2. TimersInv /\ [TimersNext]_<<suspended, xPendingReadyList, pc, clockVars, timerVars, order,
                                  timersHistory>> => TimersInv'
  BY TimersSteps
<1>3. TimersInv => OnTime
  BY InvFiresOnTime, InvIsExactToo DEF OnTime
<1> QED
  BY <1>1, <1>2, <1>3, PTL DEF TimersSpec
===============================================================================
