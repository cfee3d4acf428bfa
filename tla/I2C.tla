--------------------------------- MODULE I2C ----------------------------------
(***************************************************************************)
(* The I2C driver, src/src/keijo/i2c/PicoI2C.cpp, with the tasks that      *)
(* share a bus.  A transaction fills the command FIFO, enables the         *)
(* interrupt and waits up to a second for the notification that the        *)
(* handler sends at the stop condition; the handler stores received bytes  *)
(* and goes on filling.  The interrupt is disabled only after the wait.    *)
(*                                                                         *)
(* The controller is external: it executes commands one at a time, keeps   *)
(* what it receives in a second FIFO as deep as the first, and loses a     *)
(* byte that finds it full; a device may refuse a byte, which empties the  *)
(* command FIFO and holds it empty; a stop condition is remembered until   *)
(* it is cleared.  It may also stop for ever at any command (a device that *)
(* holds the clock).  Of the bytes only the number matters.                *)
(***************************************************************************)
EXTENDS TaskNotify, Integers, Sequences

CONSTANTS
    Wants,          \* what each task asks for: sets of [w, r] lengths
    NoTask,
    FifoDepth,       \* 16
    RxLevel,        \* the level of the receive interrupt, 15
    MaxRefusals     \* bound: how many bytes devices refuse

ASSUME I2CAssumption ==
    /\ NoTask \notin Tasks
    /\ Wants \in [Tasks -> SUBSET [w : Nat, r : Nat]]
    /\ \A t \in Tasks : \A q \in Wants[t] : q.w + q.r > 0
    /\ FifoDepth \in Nat \ {0} /\ RxLevel \in 1..FifoDepth
    /\ MaxRefusals \in Nat

VARIABLES
    stage,             \* where each task is
    access,         \* the task that holds the mutex
    task_to_notify,
    want,           \* wlength and rlength of the transaction
    ctr,            \* wctr, rctr, rcnt and restart_on_next
    count,          \* the value that transaction returns
    irqOn,     \* the interrupt at the NVIC
    handler,            \* where the handler is
    hw              \* the controller

\* History.
VARIABLES
    issued,         \* the commands written in this transaction
    moved,          \* the bytes of this transaction that crossed the bus
    stored,         \* how many bytes this transaction stored to its buffer
    refused,        \* did a device refuse a byte of this transaction?
    refusals,
    timedOut        \* did any transaction end by timeout?

history == <<issued, moved, stored, refused, refusals, timedOut>>
i2cVars == <<notifyVars, stage, access, task_to_notify, want, ctr, count, irqOn,
          handler, hw, history>>

Idle == [kind |-> "none", restart |-> FALSE, stop |-> FALSE]
Commands == [kind : {"none", "write", "read"}, restart : BOOLEAN, stop : BOOLEAN]
Masks == {"STOP_DET", "TX_EMPTY", "RX_FULL"}

I2CTypeOK ==
    /\ NotifyTypeOK
    /\ stage \in [Tasks -> {"idle", "take", "wait", "counted"}]
    /\ access \in Tasks \cup {NoTask}
    /\ task_to_notify \in Tasks \cup {NoTask}
    /\ want \in [w : Nat, r : Nat]
    /\ ctr \in [wctr : 0..want.w, rctr : 0..want.r, rcnt : 0..want.r,
                restart : BOOLEAN]
    /\ count \in 0..(want.w + want.r)
    /\ irqOn \in BOOLEAN /\ handler \in {"none", "fill", "stop"}
    /\ hw.tx \in Seq(Commands) /\ Len(hw.tx) <= FifoDepth
    /\ hw.busy \in Commands /\ hw.rx \in 0..FifoDepth
    /\ hw.stop \in BOOLEAN /\ hw.abort \in BOOLEAN
    /\ hw.mask \subseteq Masks

I2CInit ==
    /\ NotifyInit
    /\ stage = [t \in Tasks |-> "idle"]
    /\ access = NoTask /\ task_to_notify = NoTask
    /\ want = [w |-> 0, r |-> 0] /\ count = 0
    /\ ctr = [wctr |-> 0, rctr |-> 0, rcnt |-> 0, restart |-> FALSE]
    /\ irqOn = FALSE /\ handler = "none"
    /\ hw = [tx |-> <<>>, busy |-> Idle, rx |-> 0, stop |-> FALSE,
             abort |-> FALSE, mask |-> {}]
    /\ issued = <<>> /\ moved = [w |-> 0, r |-> 0] /\ stored = 0
    /\ refused = FALSE /\ refusals = 0 /\ timedOut = FALSE

-------------------------------------------------------------------------------
\* Filling the command FIFO, as functions of the counters c and the controller
\* h: what is written, and the counters afterwards.

\* While a refusal is not cleared the FIFO stays empty whatever is written.
Fit(h, n) ==
    IF h.abort \/ n <= FifoDepth - Len(h.tx) THEN n ELSE FifoDepth - Len(h.tx)

\* Variant of TxCommands that stops after the write even if a read follows.
TxCommandsStop(c, n) ==
    [i \in 1..n |-> [kind |-> "write", restart |-> c.restart /\ i = 1,
                     stop |-> i = c.wctr]]

TxCommands(c, n) ==
    [i \in 1..n |-> [kind |-> "write", restart |-> c.restart /\ i = 1,
                     stop |-> i = c.wctr /\ c.rctr = 0]]

RxCommands(c, n) ==
    [i \in 1..n |-> [kind |-> "read", restart |-> c.restart /\ i = 1,
                     stop |-> i = c.rctr]]

Put(h, cmds) == IF h.abort THEN h ELSE [h EXCEPT !.tx = @ \o cmds]

\* tx_fill_fifo: a read that follows the last write needs a restart.
tx_fill_fifo(c, h) ==
    LET n == Fit(h, c.wctr)
    IN  [cmds |-> TxCommands(c, n),
         ctr |-> [c EXCEPT !.wctr = @ - n,
                           !.restart = (n = c.wctr /\ c.rctr > 0) \/ (@ /\ n = 0)]]

rx_fill_fifo(c, h) ==
    LET n == Fit(h, c.rctr)
    IN  [cmds |-> RxCommands(c, n),
         ctr |-> [c EXCEPT !.rctr = @ - n, !.restart = @ /\ n = 0]]

-------------------------------------------------------------------------------
\* transaction(addr, wbuffer, wlength, rbuffer, rlength) in task t.

\* enable = 0 empties both FIFOs.  Whether it also ends the command under way,
\* and forgets a stop condition or a refusal, is left open.
Disabled ==
    { [hw EXCEPT !.tx = <<>>, !.rx = 0, !.busy = b, !.stop = s, !.abort = a] :
        b \in {hw.busy, Idle}, s \in {hw.stop, FALSE}, a \in {hw.abort, FALSE} }

\* From taking the mutex to enabling the interrupt.
Begin(t) ==
    /\ handler = "none" /\ stage[t] = "idle" /\ access = NoTask
    /\ access' = t /\ task_to_notify' = t
    /\ \E q \in Wants[t], h \in Disabled :
        LET c == [wctr |-> q.w, rctr |-> q.r, rcnt |-> q.r, restart |-> FALSE]
            fill == IF q.w > 0 THEN tx_fill_fifo(c, h) ELSE rx_fill_fifo(c, h)
        IN  /\ want' = q
            /\ ctr' = fill.ctr
            /\ hw' = [Put(h, fill.cmds) EXCEPT !.mask = Masks]
            /\ issued' = fill.cmds
    /\ irqOn' = TRUE
    /\ stage' = [stage EXCEPT ![t] = "take"]
    /\ count' = 0
    /\ moved' = [w |-> 0, r |-> 0] /\ stored' = 0 /\ refused' = FALSE
    /\ UNCHANGED <<notifyVars, handler, refusals, timedOut>>

Take(t) ==
    /\ handler = "none" /\ stage[t] = "take"
    /\ TakeEnter(t)
    /\ stage' = [stage EXCEPT ![t] = "wait"]
    /\ UNCHANGED <<access, task_to_notify, want, ctr, count, irqOn, handler, hw,
                   history>>

\* The second in pdMS_TO_TICKS(1000) is over.
Timeout(t) ==
    /\ handler = "none" /\ stage[t] = "wait"
    /\ TakeExpires(t)
    /\ UNCHANGED <<stage, access, task_to_notify, want, ctr, count, irqOn, handler,
                   hw, history>>

\* Variant of Returned that forgets the bytes not yet received.
ReturnedUnread(value) ==
    IF value = 0 THEN 0 ELSE want.w + want.r - ctr.wctr

Returned(value) ==
    IF value = 0 THEN 0 ELSE want.w + want.r - (ctr.rcnt + ctr.wctr)

\* Variant of Woken that goes on waiting until there is a notification.
WokenInsists(t) ==
    /\ handler = "none" /\ stage[t] = "wait"
    /\ TakeExit(t)
    /\ count' = Returned(ulNotifiedValue[t])
    /\ timedOut' = (timedOut \/ ulNotifiedValue[t] = 0)
    /\ stage' = [stage EXCEPT ![t] = IF ulNotifiedValue[t] = 0 THEN "take" ELSE "counted"]
    /\ UNCHANGED <<access, task_to_notify, want, ctr, irqOn, handler, hw,
                   issued, moved, stored, refused, refusals>>

\* ulTaskNotifyTake returns and the count is computed: the interrupt is still
\* enabled.
Woken(t) ==
    /\ handler = "none" /\ stage[t] = "wait"
    /\ TakeExit(t)
    /\ count' = Returned(ulNotifiedValue[t])
    /\ timedOut' = (timedOut \/ ulNotifiedValue[t] = 0)
    /\ stage' = [stage EXCEPT ![t] = "counted"]
    /\ UNCHANGED <<access, task_to_notify, want, ctr, irqOn, handler, hw,
                   issued, moved, stored, refused, refusals>>

\* irq_set_enabled(irqn, false), and the mutex is given.
Release(t) ==
    /\ handler = "none" /\ stage[t] = "counted"
    /\ irqOn' = FALSE
    /\ access' = NoTask
    /\ stage' = [stage EXCEPT ![t] = "idle"]
    /\ UNCHANGED <<notifyVars, task_to_notify, want, ctr, count, handler, hw, history>>

-------------------------------------------------------------------------------
\* The interrupt handler; the controller goes on meanwhile.

intr_stat ==
    { s \in hw.mask : \/ s = "STOP_DET" /\ hw.stop
                      \/ s = "TX_EMPTY" /\ hw.tx = <<>>
                      \/ s = "RX_FULL" /\ hw.rx >= RxLevel }

\* Variant of Drained that stores whatever the FIFO holds.
DrainedAll == hw.rx

Drained == IF hw.rx <= ctr.rcnt THEN hw.rx ELSE ctr.rcnt

\* while (rcnt > 0 && rxflr > 0): store a byte.
IsrDrain ==
    /\ handler = "none" /\ irqOn /\ intr_stat # {}
    /\ handler' = "fill"
    /\ ctr' = [ctr EXCEPT !.rcnt = IF Drained <= @ THEN @ - Drained ELSE 0]
    /\ hw' = [hw EXCEPT !.rx = @ - Drained]
    /\ stored' = stored + Drained
    /\ UNCHANGED <<notifyVars, stage, access, task_to_notify, want, count, irqOn,
                   issued, moved, refused, refusals, timedOut>>

\* With nothing left to command, TX_EMPTY is masked.
IsrFill ==
    /\ handler = "fill"
    /\ handler' = "stop"
    /\ IF "TX_EMPTY" \in intr_stat
       THEN LET fill == IF ctr.wctr > 0 THEN tx_fill_fifo(ctr, hw)
                                        ELSE rx_fill_fifo(ctr, hw)
                done == fill.ctr.wctr = 0 /\ fill.ctr.rctr = 0
            IN  /\ ctr' = fill.ctr
                /\ hw' = [Put(hw, fill.cmds) EXCEPT
                            !.mask = IF done THEN Masks \ {"TX_EMPTY"} ELSE @]
                /\ issued' = issued \o fill.cmds
       ELSE UNCHANGED <<ctr, hw, issued>>
    /\ UNCHANGED <<notifyVars, stage, access, task_to_notify, want, count, irqOn,
                   moved, stored, refused, refusals, timedOut>>

\* Variant of Acknowledged that leaves the stop condition standing.
AcknowledgedNot == [hw EXCEPT !.mask = {}]

Acknowledged == [hw EXCEPT !.mask = {}, !.stop = FALSE]

IsrStop ==
    /\ handler = "stop"
    /\ handler' = "none"
    /\ IF "STOP_DET" \in intr_stat
       THEN hw' = Acknowledged /\ NotifyFromISR(task_to_notify)
       ELSE UNCHANGED <<hw, notifyVars>>
    /\ UNCHANGED <<stage, access, task_to_notify, want, ctr, count, irqOn, history>>

-------------------------------------------------------------------------------
\* The controller and the devices.

Fetch ==
    /\ hw.busy = Idle /\ hw.tx # <<>>
    /\ hw' = [hw EXCEPT !.busy = Head(hw.tx), !.tx = Tail(hw.tx)]
    /\ UNCHANGED <<notifyVars, stage, access, task_to_notify, want, ctr, count,
                   irqOn, handler, history>>

\* The command is executed, with a stop condition if it asks for one.
Execute ==
    /\ hw.busy # Idle
    /\ hw' = [hw EXCEPT
                !.busy = Idle,
                !.stop = @ \/ hw.busy.stop,
                !.rx = IF hw.busy.kind = "read" /\ @ < FifoDepth THEN @ + 1 ELSE @]
    /\ moved' = [w |-> IF hw.busy.kind = "write" THEN moved.w + 1 ELSE moved.w,
                 r |-> IF hw.busy.kind = "read" THEN moved.r + 1 ELSE moved.r]
    /\ UNCHANGED <<notifyVars, stage, access, task_to_notify, want, ctr, count,
                   irqOn, handler, issued, stored, refused, refusals, timedOut>>

\* The device refuses the byte or its address: the controller flushes the
\* commands and issues a stop of its own.
Refuse ==
    /\ hw.busy.kind # "none" /\ refusals < MaxRefusals
    /\ hw' = [hw EXCEPT !.busy = [Idle EXCEPT !.stop = TRUE], !.tx = <<>>,
                        !.abort = TRUE]
    /\ refused' = TRUE
    /\ refusals' = refusals + 1
    /\ UNCHANGED <<notifyVars, stage, access, task_to_notify, want, ctr, count,
                   irqOn, handler, issued, moved, stored, timedOut>>

-------------------------------------------------------------------------------
I2CIsr == IsrDrain \/ IsrFill \/ IsrStop
Attend(t) == Take(t) \/ Timeout(t) \/ Woken(t) \/ Release(t)
I2CTask(t) == Begin(t) \/ Attend(t)

I2CNext == I2CIsr \/ Fetch \/ Execute \/ Refuse \/ \E t \in Tasks : I2CTask(t)

I2CSpec == I2CInit /\ [][I2CNext]_i2cVars

\* The handler runs when its interrupt is pending, the tick counts on and the
\* tasks are scheduled.  Nothing is assumed of the controller.
I2CFairSpec ==
    /\ I2CSpec
    /\ WF_i2cVars(I2CIsr)
    /\ \A t \in Tasks : WF_i2cVars(Attend(t))

-------------------------------------------------------------------------------
\* The commands of a transaction: writes first, a restart in front of the
\* reads, one stop at the end.
Frame(q) ==
    [i \in 1..(q.w + q.r) |->
        [kind |-> IF i <= q.w THEN "write" ELSE "read",
         restart |-> q.w > 0 /\ i = q.w + 1,
         stop |-> i = q.w + q.r]]

\* However the filling is split between the task and the interrupts, what the
\* controller is told is a prefix of the transaction's frame.
FrameIsWhole == issued = SubSeq(Frame(want), 1, Len(issued))

\* The handler never stores beyond the end of the buffer it was given, and
\* never a byte that was not received.
WithinBuffer == stored <= want.r /\ stored + ctr.rcnt = want.r

\* A transaction is one frame of its length, and a read stays within the buffer
\* it was given, however the FIFOs are filled and emptied.
TransactionIsWhole == FrameIsWhole /\ WithinBuffer

\* As long as no transaction has timed out, a returned count that equals the
\* lengths means that every byte crossed the bus: except for a write that the
\* device refused, whose bytes the flushed FIFO swallows and the count calls
\* written.
FullCountMeansMoved ==
    \A t \in Tasks :
        stage[t] = "counted" /\ count = want.w + want.r /\ ~timedOut
            => moved = want \/ (refused /\ want.r = 0)

\* As long as no transaction has timed out, the controller is never disabled
\* while it executes another task's commands or has a stop to report.
NeverCutShort ==
    [][(\E t \in Tasks : Begin(t)) =>
           timedOut \/ (hw.tx = <<>> /\ hw.busy = Idle /\ ~hw.stop)]_i2cVars

\* No step misleads anybody by its count, and none cuts another's frame short.
TransfersAreHonest == [][FullCountMeansMoved']_i2cVars /\ NeverCutShort

\* Every transaction returns, whatever the bus does, and so the mutex is given back.
TransactionReturns == \A t \in Tasks : access = t ~> access = NoTask
===============================================================================
