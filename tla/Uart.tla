--------------------------------- MODULE Uart ---------------------------------
(***************************************************************************)
(* The UART driver, src/src/keijo/uart/PicoOsUart.cpp: one task calls      *)
(* write and read, the interrupt handler moves bytes between the two       *)
(* queues and the hardware's FIFOs.  The task fills the transmit FIFO      *)
(* itself if the transmit interrupt is off, with the interrupt disabled at *)
(* the NVIC, since both sides pop from the same queue.                     *)
(*                                                                         *)
(* In main.cpp each UART belongs to one task (CLI_UART to Logger,          *)
(* modbusUART to Greenhouse), so the mutex is never contended and is left  *)
(* out.  send is write; flush is never called.                             *)
(*                                                                         *)
(* Bytes to transmit are numbered in the order the queue accepts them; of  *)
(* received bytes only the number matters.  The PL011 raises its transmit  *)
(* interrupt when the FIFO drains through the trigger level, and holds it  *)
(* until the FIFO is above the level again: an idle FIFO never raises it.  *)
(***************************************************************************)
EXTENDS Integers, Sequences

CONSTANTS
    TxSize, RxSize,     \* the lengths of the queues, 256 each
    FifoSize,           \* the depth of either hardware FIFO, 32
    TxTrigger,          \* the level of the transmit interrupt, 4
    MaxBytes            \* bound: how many bytes the queue accepts

ASSUME UartAssumption ==
    /\ TxSize \in Nat \ {0} /\ RxSize \in Nat
    /\ FifoSize \in Nat /\ TxTrigger \in Nat /\ TxTrigger < FifoSize
    /\ MaxBytes \in Nat

VARIABLES
    tx,         \* the transmit queue
    rx,         \* how many bytes the receive queue holds
    txFifo, rxFifo,
    txRaised,   \* the raw transmit interrupt of the UART
    txEnabled,  \* the mask bit TXIM
    irqEnabled, \* the UART's interrupt at the NVIC
    isr,        \* where the interrupt handler is
    pc,         \* where the task is
    todo,       \* bytes the call has still to write or read
    ch          \* the local of write: a byte between queue and FIFO

\* History.
VARIABLES
    accepted,   \* the number of the last byte the queue accepted
    sent        \* the number of the last byte on the line

txVars == <<tx, txFifo, txRaised, txEnabled, accepted, sent>>
rxVars == <<rx, rxFifo>>
vars == <<txVars, rxVars, irqEnabled, isr, pc, todo, ch>>

TypeOK ==
    /\ tx \in Seq(1..MaxBytes) /\ Len(tx) <= TxSize
    /\ txFifo \in Seq(1..MaxBytes) /\ Len(txFifo) <= FifoSize
    /\ rx \in 0..RxSize /\ rxFifo \in 0..FifoSize
    /\ txRaised \in BOOLEAN /\ txEnabled \in BOOLEAN /\ irqEnabled \in BOOLEAN
    /\ isr \in {"none", "rx", "tx"}
    /\ pc \in {"idle", "queue", "masked", "store", "unmask", "read"}
    /\ todo \in 0..TxSize
    /\ ch \in 0..MaxBytes
    /\ accepted \in 0..MaxBytes /\ sent \in 0..MaxBytes

\* The constructor enables the receive interrupt only.
Init ==
    /\ tx = <<>> /\ txFifo = <<>> /\ rx = 0 /\ rxFifo = 0
    /\ txRaised = FALSE /\ txEnabled = FALSE /\ irqEnabled = TRUE
    /\ isr = "none"
    /\ pc = "idle" /\ todo = 0 /\ ch = 0
    /\ accepted = 0 /\ sent = 0

uart_is_writable == Len(txFifo) < FifoSize

\* A store to the data register.
Store(byte) ==
    /\ txFifo' = Append(txFifo, byte)
    /\ txRaised' = (txRaised /\ Len(txFifo) < TxTrigger)

-------------------------------------------------------------------------------
\* The task; the interrupt handler preempts it.

\* write(buffer, size, timeout).  The longest message is as long as the queue:
\* BUFFER_SIZE of Logger is 256, a Modbus request has 8 bytes.
Write ==
    \E size \in 1..TxSize :
        /\ isr = "none" /\ pc = "idle"
        /\ pc' = "queue" /\ todo' = size
        /\ UNCHANGED <<txVars, rxVars, irqEnabled, isr, ch>>

QueueByte ==
    /\ isr = "none" /\ pc = "queue" /\ todo > 0
    /\ Len(tx) < TxSize
    /\ accepted < MaxBytes
    /\ accepted' = accepted + 1
    /\ tx' = Append(tx, accepted + 1)
    /\ todo' = todo - 1
    /\ UNCHANGED <<txFifo, txRaised, txEnabled, sent, rxVars, irqEnabled, isr,
                   pc, ch>>

\* Variant of QueueEnds that returns at once if the queue stayed full.
QueueEndsEarly ==
    /\ isr = "none" /\ pc = "queue"
    /\ todo = 0 \/ Len(tx) = TxSize \/ accepted = MaxBytes
    /\ IF todo = 0
       THEN irqEnabled' = FALSE /\ pc' = IF txEnabled THEN "unmask" ELSE "masked"
       ELSE irqEnabled' = irqEnabled /\ pc' = "idle"
    /\ todo' = 0
    /\ UNCHANGED <<txVars, rxVars, isr, ch>>

\* Variant of QueueEnds that leaves the interrupt enabled.
QueueEndsUnmasked ==
    /\ isr = "none" /\ pc = "queue"
    /\ todo = 0 \/ Len(tx) = TxSize \/ accepted = MaxBytes
    /\ todo' = 0
    /\ pc' = IF txEnabled THEN "unmask" ELSE "masked"
    /\ UNCHANGED <<txVars, rxVars, irqEnabled, isr, ch>>

\* Everything is in the queue, or the queue stayed full for the timeout (or
\* the bound is reached): mask the interrupt, and fill if it is off.
QueueEnds ==
    /\ isr = "none" /\ pc = "queue"
    /\ todo = 0 \/ Len(tx) = TxSize \/ accepted = MaxBytes
    /\ todo' = 0
    /\ irqEnabled' = FALSE
    /\ pc' = IF txEnabled THEN "unmask" ELSE "masked"
    /\ UNCHANGED <<txVars, rxVars, isr, ch>>

FillPop ==
    /\ isr = "none" /\ pc = "masked"
    /\ uart_is_writable /\ tx # <<>>
    /\ ch' = Head(tx) /\ tx' = Tail(tx)
    /\ pc' = "store"
    /\ UNCHANGED <<txFifo, txRaised, txEnabled, accepted, sent, rxVars,
                   irqEnabled, isr, todo>>

FillStore ==
    /\ isr = "none" /\ pc = "store"
    /\ Store(ch)
    /\ ch' = 0
    /\ pc' = "masked"
    /\ UNCHANGED <<tx, txEnabled, accepted, sent, rxVars, irqEnabled, isr, todo>>

FillEnds ==
    /\ isr = "none" /\ pc = "masked"
    /\ ~uart_is_writable \/ tx = <<>>
    /\ txEnabled' = (txEnabled \/ tx # <<>>)
    /\ pc' = "unmask"
    /\ UNCHANGED <<tx, txFifo, txRaised, accepted, sent, rxVars, irqEnabled,
                   isr, todo, ch>>

Unmask ==
    /\ isr = "none" /\ pc = "unmask"
    /\ irqEnabled' = TRUE
    /\ pc' = "idle"
    /\ UNCHANGED <<txVars, rxVars, isr, todo, ch>>

\* read(buffer, size, timeout).
Read ==
    \E size \in 1..TxSize :
        /\ isr = "none" /\ pc = "idle"
        /\ pc' = "read" /\ todo' = size
        /\ UNCHANGED <<txVars, rxVars, irqEnabled, isr, ch>>

ReadByte ==
    /\ isr = "none" /\ pc = "read" /\ todo > 0
    /\ rx > 0
    /\ rx' = rx - 1 /\ todo' = todo - 1
    /\ UNCHANGED <<txVars, rxFifo, irqEnabled, isr, pc, ch>>

\* Enough was read, or nothing arrived within the timeout.
ReadEnds ==
    /\ isr = "none" /\ pc = "read"
    /\ todo = 0 \/ rx = 0
    /\ todo' = 0 /\ pc' = "idle"
    /\ UNCHANGED <<txVars, rxVars, irqEnabled, isr, ch>>

FinishWrite == \/ QueueByte \/ QueueEnds \/ FillPop \/ FillStore \/ FillEnds
               \/ Unmask
Task == Write \/ FinishWrite \/ Read \/ ReadByte \/ ReadEnds

-------------------------------------------------------------------------------
\* The interrupt handler: first uart_irq_rx, then uart_irq_tx, whichever of
\* the two was the reason.  Received bytes interrupt at a level of the FIFO or
\* when the line has been quiet for a while, so at any time.

Interrupt ==
    /\ isr = "none" /\ irqEnabled
    /\ rxFifo > 0 \/ (txEnabled /\ txRaised)
    /\ isr' = "rx"
    /\ UNCHANGED <<txVars, rxVars, irqEnabled, pc, todo, ch>>

\* A byte that finds the queue full is dropped.
ReceiveByte ==
    /\ isr = "rx"
    /\ rxFifo > 0
    /\ rxFifo' = rxFifo - 1
    /\ rx' = IF rx < RxSize THEN rx + 1 ELSE rx
    /\ UNCHANGED <<txVars, irqEnabled, isr, pc, todo, ch>>

ReceiveEnds ==
    /\ isr = "rx"
    /\ rxFifo = 0
    /\ isr' = "tx"
    /\ UNCHANGED <<txVars, rxVars, irqEnabled, pc, todo, ch>>

TransmitByte ==
    /\ isr = "tx"
    /\ uart_is_writable /\ tx # <<>>
    /\ Store(Head(tx))
    /\ tx' = Tail(tx)
    /\ UNCHANGED <<txEnabled, accepted, sent, rxVars, irqEnabled, isr, pc, todo, ch>>

\* Variant that takes a full FIFO for the end of the message.
TransmitEndsFull ==
    /\ isr = "tx"
    /\ ~uart_is_writable \/ tx = <<>>
    /\ txEnabled' = FALSE
    /\ isr' = "none"
    /\ UNCHANGED <<tx, txFifo, txRaised, accepted, sent, rxVars, irqEnabled,
                   pc, todo, ch>>

TransmitEnds ==
    /\ isr = "tx"
    /\ ~uart_is_writable \/ tx = <<>>
    /\ txEnabled' = (txEnabled /\ tx # <<>>)
    /\ isr' = "none"
    /\ UNCHANGED <<tx, txFifo, txRaised, accepted, sent, rxVars, irqEnabled,
                   pc, todo, ch>>

Isr == \/ Interrupt \/ ReceiveByte \/ ReceiveEnds
       \/ TransmitByte \/ TransmitEnds

-------------------------------------------------------------------------------
\* The hardware

\* A byte has left on the line.
Shift ==
    /\ txFifo # <<>>
    /\ sent' = Head(txFifo)
    /\ txFifo' = Tail(txFifo)
    /\ txRaised' = (txRaised \/ Len(txFifo) = TxTrigger + 1)
    /\ UNCHANGED <<tx, txEnabled, accepted, rxVars, irqEnabled, isr, pc, todo, ch>>

\* A byte arrives; a full FIFO overruns.  The receive loop takes a fraction of
\* the time of a byte (87 us at 115200 baud), so none arrives during it.
Arrive ==
    /\ isr # "rx"
    /\ rxFifo < FifoSize
    /\ rxFifo' = rxFifo + 1
    /\ UNCHANGED <<txVars, rx, irqEnabled, isr, pc, todo, ch>>

Next == Task \/ Isr \/ Shift \/ Arrive

Spec == Init /\ [][Next]_vars

\* The line never stops; an interrupt that is raised is taken whenever write
\* unmasks it, and its handler goes on; so does a call of write, however often
\* it is interrupted: no task above Logger and Greenhouse runs without blocking.
FairSpec == /\ Spec
            /\ WF_vars(Shift)
            /\ SF_vars(Interrupt) /\ WF_vars(Isr)
            /\ SF_vars(FinishWrite)

-------------------------------------------------------------------------------
\* Bytes leave in the order they were accepted, whether the task's fill or the
\* interrupt handler moves them (PicoOsUart.cpp:85-100 against 138-140), and
\* none is lost or sent twice.
InOrder == [][sent' # sent => sent' = sent + 1]_sent

\* Bytes never stay behind in the queue: outside of write, an interrupt that
\* is enabled and will be raised takes care of them (PicoOsUart.cpp:94, 142).
NoStall ==
    pc \in {"idle", "read"} /\ isr = "none" /\ tx # <<>>
        => irqEnabled /\ txEnabled /\ (txRaised \/ Len(txFifo) > TxTrigger)

\* write never waits for room in a queue that nobody empties, although it
\* starts the transmission only once everything is in the queue: a message as
\* long as the queue is the longest that may be written (PicoOsUart.cpp:79).
Unblocked ==
    pc = "queue" /\ todo > 0 /\ Len(tx) = TxSize /\ isr = "none" => txEnabled

\* What the queue accepted is sent, also if the call that wrote it timed out
\* (PicoOsUart.cpp:79-98).
Drains == \A n \in 1..MaxBytes : accepted >= n ~> sent >= n
===============================================================================
