------------------------------ MODULE TaskNotify ------------------------------
(***************************************************************************)
(* The task notifications of the kernel, as far as the program uses them:  *)
(* ulTaskNotifyTake(pdTRUE, timeout) in a task and xTaskNotifyFromISR(task,*)
(* 1, eSetValueWithOverwrite) in an interrupt handler.  The value of a     *)
(* notification belongs to the task and stays until it is taken.           *)
(***************************************************************************)
EXTENDS Naturals

CONSTANT Tasks

VARIABLES
    ulNotifiedValue,
    ucNotifyState,
    delayed         \* the tasks in a delayed list because of a take

notifyVars == <<ulNotifiedValue, ucNotifyState, delayed>>

NotifyTypeOK ==
    /\ ulNotifiedValue \in [Tasks -> 0..1]
    /\ ucNotifyState \in [Tasks -> {"NOT_WAITING", "WAITING", "RECEIVED"}]
    /\ delayed \subseteq Tasks

NotifyInit ==
    /\ ulNotifiedValue = [t \in Tasks |-> 0]
    /\ ucNotifyState = [t \in Tasks |-> "NOT_WAITING"]
    /\ delayed = {}

\* The first critical section of ulTaskNotifyTake: a pending value is not
\* waited for.
TakeEnter(t) ==
    /\ IF ulNotifiedValue[t] = 0
       THEN /\ ucNotifyState' = [ucNotifyState EXCEPT ![t] = "WAITING"]
            /\ delayed' = delayed \cup {t}
       ELSE UNCHANGED <<ucNotifyState, delayed>>
    /\ UNCHANGED ulNotifiedValue

\* The second one, entered after the yield; the value it returns is the one
\* before the step.
TakeExit(t) ==
    /\ t \notin delayed
    /\ ulNotifiedValue' = [ulNotifiedValue EXCEPT ![t] = 0]
    /\ ucNotifyState' = [ucNotifyState EXCEPT ![t] = "NOT_WAITING"]
    /\ UNCHANGED delayed

\* The wait is over for the clock: the value stays 0 unless a notification
\* comes before the task runs.
TakeExpires(t) ==
    /\ t \in delayed
    /\ delayed' = delayed \ {t}
    /\ UNCHANGED <<ulNotifiedValue, ucNotifyState>>

NotifyFromISR(t) ==
    /\ ulNotifiedValue' = [ulNotifiedValue EXCEPT ![t] = 1]
    /\ ucNotifyState' = [ucNotifyState EXCEPT ![t] = "RECEIVED"]
    /\ delayed' = IF ucNotifyState[t] = "WAITING" THEN delayed \ {t} ELSE delayed
===============================================================================
