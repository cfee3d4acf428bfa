----------------------------- MODULE DriverProofs -----------------------------
(***************************************************************************)
(* Proofs about the UART driver, for queues, FIFOs and trigger levels of   *)
(* any size and any number of bytes; about the Modbus client, for any      *)
(* requests, queue size and bounds, and for any of the faults that leave   *)
(* the receive queue clean: answers that do not come, are cut short, are   *)
(* damaged behind the function code, or are exceptions; and about the I2C  *)
(* driver, for any tasks and lengths, FIFOs of any depth, any level of the *)
(* receive interrupt and any refusals.                                     *)
(***************************************************************************)
EXTENDS Uart, Modbus, I2C, SequenceTheorems, TLAPS

-------------------------------------------------------------------------------
\* The inductive invariant

InFill == pc \in {"masked", "store", "unmask"}

held == IF pc = "store" THEN 1 ELSE 0

\* FIFO, local and queue hold, in this order, the numbers after `sent'.
Numbered ==
    /\ accepted = sent + Len(txFifo) + held + Len(tx)
    /\ \A i \in 1..Len(txFifo) : txFifo[i] = sent + i
    /\ pc = "store" => ch = sent + Len(txFifo) + 1
    /\ \A i \in 1..Len(tx) : tx[i] = sent + Len(txFifo) + held + i

\* The task's fill and the interrupt handler exclude each other.
Exclusive ==
    /\ irqEnabled <=> ~InFill
    /\ InFill => isr = "none"
    /\ pc = "store" => uart_is_writable

\* The transmit interrupt is on wherever bytes are left to it, and if it is on
\* it is raised or will be when the FIFO drains.
Armed ==
    /\ pc \in {"idle", "read", "unmask"} /\ tx # <<>> => txEnabled
    /\ pc \in {"masked", "store"} => ~txEnabled
    /\ txEnabled => txRaised \/ Len(txFifo) > TxTrigger

\* While the interrupt is off, the queue has room for the rest of the message.
Room == pc = "queue" /\ ~txEnabled => Len(tx) + todo <= TxSize

UartInv == TypeOK /\ Numbered /\ Exclusive /\ Armed /\ Room

-------------------------------------------------------------------------------
\* Sequences

\* Taking the head of a sequence moves every other element down by one.
LEMMA TailFacts ==
    ASSUME NEW S, NEW s \in Seq(S), s # <<>>
    PROVE  /\ Head(s) = s[1] /\ Head(s) \in S
           /\ Tail(s) \in Seq(S)
           /\ Len(s) > 0 /\ Len(Tail(s)) = Len(s) - 1
           /\ \A i \in 1..Len(s) - 1 : Tail(s)[i] = s[i + 1]
  OBVIOUS

\* Appending leaves the elements of a sequence where they are.
LEMMA AppendFacts ==
    ASSUME NEW S, NEW s \in Seq(S), NEW e \in S
    PROVE  /\ Append(s, e) \in Seq(S)
           /\ Len(Append(s, e)) = Len(s) + 1
           /\ \A i \in 1..Len(s) : Append(s, e)[i] = s[i]
           /\ Append(s, e)[Len(s) + 1] = e
  OBVIOUS

-------------------------------------------------------------------------------
\* The driver starts in the invariant.
LEMMA InitUartInv == Init => UartInv
<1> SUFFICES ASSUME Init PROVE UartInv
  OBVIOUS
<1>1. TypeOK
  <2>1. /\ tx \in Seq(1..MaxBytes) /\ Len(tx) <= TxSize
        /\ txFifo \in Seq(1..MaxBytes) /\ Len(txFifo) <= FifoSize
    BY UartAssumption DEF Init
  <2>2. rx \in 0..RxSize /\ rxFifo \in 0..FifoSize
    BY UartAssumption DEF Init
  <2>4. txRaised \in BOOLEAN /\ txEnabled \in BOOLEAN /\ irqEnabled \in BOOLEAN
    BY DEF Init
  <2>3. /\ isr \in {"none", "rx", "tx"}
        /\ pc \in {"idle", "queue", "masked", "store", "unmask", "read"}
        /\ todo \in 0..TxSize /\ ch \in 0..MaxBytes
        /\ accepted \in 0..MaxBytes /\ sent \in 0..MaxBytes
    BY UartAssumption DEF Init
  <2> QED
    BY <2>1, <2>2, <2>3, <2>4 DEF TypeOK
<1>2. Numbered
  BY DEF Init, Numbered, held
<1>3. Exclusive /\ Armed /\ Room
  BY DEF Init, Exclusive, InFill, uart_is_writable, Armed, Room
<1> QED
  BY <1>1, <1>2, <1>3 DEF UartInv

-------------------------------------------------------------------------------
\* Steps that move no byte to transmit

\* They keep the numbering as long as the task does not hold a byte.
LEMMA NumberedKept ==
    ASSUME Numbered, UNCHANGED <<tx, txFifo, accepted, sent>>,
           pc # "store", pc' # "store"
    PROVE  Numbered'
  BY DEF Numbered, held

\* Every such step of the task and of the interrupt handler.
LEMMA ControlIInv ==
    ASSUME UartInv,
           \/ Write \/ QueueEnds \/ FillEnds \/ Unmask
           \/ Read \/ ReadByte \/ ReadEnds
           \/ Interrupt \/ ReceiveByte \/ ReceiveEnds \/ TransmitEnds \/ Arrive
    PROVE  UartInv'
<1> USE UartAssumption DEF UartInv, TypeOK, txVars, rxVars
<1>1. CASE Write
  <2>1. TypeOK' /\ Exclusive'
    BY <1>1 DEF Write, Exclusive, InFill, uart_is_writable
  <2>2. Numbered'
    BY <1>1, NumberedKept DEF Write
  <2>3. Armed' /\ Room'
    BY <1>1 DEF Write, Armed, Room
  <2> QED
    BY <2>1, <2>2, <2>3
<1>2. CASE QueueEnds
  <2>1. /\ pc' \in {"unmask", "masked"} /\ isr' = "none" /\ irqEnabled' = FALSE
        /\ UNCHANGED <<txVars, rxVars, isr, ch>>
    BY <1>2 DEF QueueEnds
  <2>5. todo' \in 0..TxSize /\ irqEnabled' \in BOOLEAN
    <3>1. todo' = 0
      BY <1>2 DEF QueueEnds
    <3>2. todo' \in 0..TxSize
      BY <3>1
    <3> QED
      BY <2>1, <3>2
  <2>4. TypeOK' /\ Exclusive'
    <3>1. TypeOK'
      BY <2>1, <2>5
    <3>2. Exclusive'
      BY <2>1 DEF Exclusive, InFill
    <3> QED
      BY <3>1, <3>2
  <2>2. Numbered'
    BY <1>2, NumberedKept DEF QueueEnds
  <2>3. Armed' /\ Room'
    BY <1>2 DEF QueueEnds, Armed, Room
  <2> QED
    BY <2>2, <2>3, <2>4
<1>3. CASE FillEnds
  <2>1. /\ pc = "masked" /\ pc' = "unmask" /\ isr = "none"
        /\ txEnabled' \in BOOLEAN
        /\ UNCHANGED <<tx, txFifo, txRaised, accepted, sent, rxVars, irqEnabled,
                       isr, todo, ch>>
    BY <1>3 DEF FillEnds
  <2>5. TypeOK' /\ Exclusive'
    BY <2>1 DEF Exclusive, InFill
  <2>2. Numbered'
    BY <1>3, NumberedKept DEF FillEnds
  <2>3. tx # <<>> => Len(txFifo) > TxTrigger
    BY <1>3 DEF FillEnds, uart_is_writable
  <2>4. Armed' /\ Room'
    BY <1>3, <2>3 DEF FillEnds, Armed, Room
  <2> QED
    BY <2>2, <2>4, <2>5
<1>4. CASE Unmask
  <2>1. TypeOK' /\ Exclusive'
    BY <1>4 DEF Unmask, Exclusive, InFill, uart_is_writable
  <2>2. Numbered'
    BY <1>4, NumberedKept DEF Unmask
  <2>3. Armed' /\ Room'
    BY <1>4 DEF Unmask, Armed, Room
  <2> QED
    BY <2>1, <2>2, <2>3
<1>5. CASE Read \/ ReadByte \/ ReadEnds
  <2>1. /\ pc' \in {"idle", "read"} /\ todo' \in 0..TxSize /\ rx' \in 0..RxSize
        /\ pc \in {"idle", "read"}
        /\ UNCHANGED <<txVars, rxFifo, irqEnabled, isr, ch>>
    BY SMTT(30), <1>5 DEF Read, ReadByte, ReadEnds
  <2>4. TypeOK' /\ Exclusive'
    BY <2>1 DEF Exclusive, InFill, uart_is_writable
  <2>2. Numbered'
    BY <2>1, NumberedKept
  <2>3. Armed' /\ Room'
    BY <2>1 DEF Armed, Room
  <2> QED
    BY <2>2, <2>3, <2>4
<1>6. CASE Interrupt \/ ReceiveByte \/ ReceiveEnds \/ Arrive
  <2>1. /\ isr' \in {"none", "rx", "tx"}
        /\ isr = "none" /\ ~irqEnabled => isr' = "none"
        /\ UNCHANGED <<txVars, irqEnabled, pc, todo, ch>>
    BY <1>6 DEF Interrupt, ReceiveByte, ReceiveEnds, Arrive
  <2>2. rx' \in 0..RxSize /\ rxFifo' \in 0..FifoSize
    <3>1. CASE Interrupt \/ ReceiveEnds
      BY <3>1 DEF Interrupt, ReceiveEnds
    <3>2. CASE ReceiveByte
      BY <3>2 DEF ReceiveByte
    <3>3. CASE Arrive
      BY <3>3 DEF Arrive
    <3> QED
      BY <1>6, <3>1, <3>2, <3>3
  <2>3. TypeOK'
    BY <2>1, <2>2
  <2>4. Exclusive'
    BY <2>1 DEF Exclusive, InFill, uart_is_writable
  <2>5. Numbered'
    BY <2>1 DEF Numbered, held
  <2>6. Armed' /\ Room'
    BY <2>1 DEF Armed, Room
  <2> QED
    BY <2>3, <2>4, <2>5, <2>6
<1>7. CASE TransmitEnds
  <2>1. TypeOK' /\ Exclusive' /\ ~InFill
    BY <1>7 DEF TransmitEnds, Exclusive, InFill, uart_is_writable
  <2>2. Numbered'
    BY <1>7 DEF TransmitEnds, Numbered, held
  <2>3. tx = <<>> => Len(tx) = 0
    OBVIOUS
  <2>4. Armed' /\ Room'
    BY <1>7, <2>1, <2>3 DEF TransmitEnds, Armed, Room, InFill
  <2> QED
    BY <2>1, <2>2, <2>4
<1> QED
  BY <1>1, <1>2, <1>3, <1>4, <1>5, <1>6, <1>7

-------------------------------------------------------------------------------
\* Steps that move a byte towards the line

LEMMA QueueByteIInv == UartInv /\ QueueByte => UartInv'
<1> SUFFICES ASSUME UartInv, QueueByte PROVE UartInv'
  OBVIOUS
<1> USE UartAssumption DEF UartInv, TypeOK, txVars, rxVars
<1>1. /\ pc = "queue" /\ isr = "none" /\ todo > 0 /\ todo' = todo - 1
      /\ accepted < MaxBytes /\ accepted' = accepted + 1
      /\ tx' = Append(tx, accepted + 1) /\ Len(tx) < TxSize
      /\ UNCHANGED <<txFifo, txRaised, txEnabled, sent, rxVars, irqEnabled, isr,
                     pc, ch>>
  BY DEF QueueByte
<1>2. /\ tx' \in Seq(1..MaxBytes) /\ Len(tx') = Len(tx) + 1
      /\ \A i \in 1..Len(tx) : tx'[i] = tx[i]
      /\ tx'[Len(tx) + 1] = accepted + 1
  BY <1>1, AppendFacts
<1>3. TypeOK'
  BY <1>1, <1>2
<1>4. Numbered'
  <2>1. /\ accepted = sent + Len(txFifo) + Len(tx)
        /\ \A i \in 1..Len(tx) : tx[i] = sent + Len(txFifo) + i
        /\ held = 0 /\ held' = 0
    BY <1>1 DEF Numbered, held
  <2>2. ASSUME NEW i \in 1..Len(tx') PROVE tx'[i] = sent + Len(txFifo) + i
    <3>1. CASE i \in 1..Len(tx)
      BY <1>2, <2>1, <3>1
    <3>2. CASE i = Len(tx) + 1
      BY <1>2, <2>1, <3>2
    <3> QED
      BY <1>2, <3>1, <3>2
  <2> QED
    BY <1>1, <1>2, <2>1, <2>2 DEF Numbered
<1>5. Exclusive' /\ Armed'
  BY <1>1 DEF Exclusive, InFill, uart_is_writable, Armed
<1>6. Room'
  BY <1>1, <1>2 DEF Room
<1> QED
  BY <1>3, <1>4, <1>5, <1>6

LEMMA FillPopIInv == UartInv /\ FillPop => UartInv'
<1> SUFFICES ASSUME UartInv, FillPop PROVE UartInv'
  OBVIOUS
<1> USE UartAssumption DEF UartInv, TypeOK, txVars, rxVars
<1>1. /\ pc = "masked" /\ pc' = "store" /\ isr = "none" /\ tx # <<>>
      /\ uart_is_writable /\ ch' = Head(tx) /\ tx' = Tail(tx)
      /\ UNCHANGED <<txFifo, txRaised, txEnabled, accepted, sent, rxVars,
                     irqEnabled, isr, todo>>
  BY DEF FillPop
<1>2. /\ ch' = tx[1] /\ ch' \in 1..MaxBytes
      /\ tx' \in Seq(1..MaxBytes) /\ Len(tx) > 0 /\ Len(tx') = Len(tx) - 1
      /\ \A i \in 1..Len(tx) - 1 : tx'[i] = tx[i + 1]
  BY <1>1, TailFacts
<1>3. TypeOK'
  BY <1>1, <1>2
<1>4. Numbered'
  BY <1>1, <1>2 DEF Numbered, held
<1>5. Exclusive' /\ Room'
  BY <1>1 DEF FillPop, Exclusive, InFill, uart_is_writable, Room
<1>6. Armed'
  BY <1>1 DEF Armed
<1> QED
  BY <1>3, <1>4, <1>5, <1>6

\* A store keeps a raised interrupt raised or fills the FIFO above the trigger.
LEMMA StoreFacts ==
    ASSUME TypeOK, uart_is_writable, NEW b \in 1..MaxBytes, Store(b)
    PROVE  /\ txFifo' \in Seq(1..MaxBytes) /\ Len(txFifo') = Len(txFifo) + 1
           /\ Len(txFifo') <= FifoSize
           /\ \A i \in 1..Len(txFifo) : txFifo'[i] = txFifo[i]
           /\ txFifo'[Len(txFifo) + 1] = b
           /\ txRaised' \in BOOLEAN
           /\ txRaised \/ Len(txFifo) > TxTrigger
                => txRaised' \/ Len(txFifo') > TxTrigger
<1>1. txFifo' = Append(txFifo, b) /\ txFifo \in Seq(1..MaxBytes)
  BY DEF Store, TypeOK
<1>2. /\ txFifo' \in Seq(1..MaxBytes) /\ Len(txFifo') = Len(txFifo) + 1
      /\ \A i \in 1..Len(txFifo) : txFifo'[i] = txFifo[i]
      /\ txFifo'[Len(txFifo) + 1] = b
  BY <1>1, AppendFacts
<1>3. Len(txFifo) \in Nat /\ Len(txFifo') <= FifoSize
  BY <1>1, <1>2, UartAssumption DEF uart_is_writable
<1>4. txRaised' \in BOOLEAN
  BY DEF Store
<1>5. txRaised \/ Len(txFifo) > TxTrigger => txRaised' \/ Len(txFifo') > TxTrigger
  <2>1. CASE Len(txFifo) < TxTrigger
    <3>1. txRaised => txRaised'
      BY <2>1 DEF Store
    <3> QED
      BY <2>1, <3>1, <1>3, UartAssumption
  <2>2. CASE Len(txFifo) >= TxTrigger
    BY <2>2, <1>2, <1>3, UartAssumption
  <2> QED
    BY <2>1, <2>2, <1>3, UartAssumption
<1> QED
  BY <1>2, <1>3, <1>4, <1>5

LEMMA FillStoreIInv == UartInv /\ FillStore => UartInv'
<1> SUFFICES ASSUME UartInv, FillStore PROVE UartInv'
  OBVIOUS
<1> USE UartAssumption DEF UartInv, TypeOK, txVars, rxVars
<1>1. /\ pc = "store" /\ pc' = "masked" /\ isr = "none" /\ Store(ch) /\ ch' = 0
      /\ UNCHANGED <<tx, txEnabled, accepted, sent, rxVars, irqEnabled, isr, todo>>
  BY DEF FillStore
<1>2. uart_is_writable /\ ch \in 1..MaxBytes
  BY <1>1 DEF Exclusive, Numbered, held
<1>3. /\ txFifo' \in Seq(1..MaxBytes) /\ Len(txFifo') = Len(txFifo) + 1
      /\ Len(txFifo') <= FifoSize
      /\ \A i \in 1..Len(txFifo) : txFifo'[i] = txFifo[i]
      /\ txFifo'[Len(txFifo) + 1] = ch
      /\ txRaised' \in BOOLEAN
  BY <1>1, <1>2, StoreFacts
<1>4. TypeOK'
  BY <1>1, <1>3
<1>5. Numbered'
  <2>1. /\ accepted = sent + Len(txFifo) + 1 + Len(tx)
        /\ \A i \in 1..Len(txFifo) : txFifo[i] = sent + i
        /\ ch = sent + Len(txFifo) + 1
        /\ \A i \in 1..Len(tx) : tx[i] = sent + Len(txFifo) + 1 + i
        /\ held' = 0
    BY <1>1 DEF Numbered, held
  <2>2. ASSUME NEW i \in 1..Len(txFifo') PROVE txFifo'[i] = sent + i
    <3>1. CASE i \in 1..Len(txFifo)
      BY <1>3, <2>1, <3>1
    <3>2. CASE i = Len(txFifo) + 1
      BY <1>3, <2>1, <3>2
    <3> QED
      BY <1>3, <3>1, <3>2
  <2>3. accepted' = sent' + Len(txFifo') + held' + Len(tx')
    BY <1>1, <1>3, <2>1
  <2>4. \A i \in 1..Len(tx') : tx'[i] = sent' + Len(txFifo') + held' + i
    BY <1>1, <1>3, <2>1
  <2> QED
    BY <1>1, <2>2, <2>3, <2>4 DEF Numbered
<1>6. Exclusive' /\ Armed' /\ Room'
  BY <1>1 DEF Exclusive, InFill, Armed, Room
<1> QED
  BY <1>4, <1>5, <1>6

LEMMA TransmitByteIInv == UartInv /\ TransmitByte => UartInv'
<1> SUFFICES ASSUME UartInv, TransmitByte PROVE UartInv'
  OBVIOUS
<1> USE UartAssumption DEF UartInv, TypeOK, txVars, rxVars
<1>1. /\ isr = "tx" /\ uart_is_writable /\ tx # <<>>
      /\ Store(Head(tx)) /\ tx' = Tail(tx)
      /\ UNCHANGED <<txEnabled, accepted, sent, rxVars, irqEnabled, isr, pc,
                     todo, ch>>
  BY DEF TransmitByte
<1>2. /\ Head(tx) = tx[1] /\ Head(tx) \in 1..MaxBytes
      /\ tx' \in Seq(1..MaxBytes) /\ Len(tx) > 0 /\ Len(tx') = Len(tx) - 1
      /\ \A i \in 1..Len(tx) - 1 : tx'[i] = tx[i + 1]
  BY <1>1, TailFacts
<1>3. /\ txFifo' \in Seq(1..MaxBytes) /\ Len(txFifo') = Len(txFifo) + 1
      /\ Len(txFifo') <= FifoSize
      /\ \A i \in 1..Len(txFifo) : txFifo'[i] = txFifo[i]
      /\ txFifo'[Len(txFifo) + 1] = Head(tx)
      /\ txRaised' \in BOOLEAN
      /\ txRaised \/ Len(txFifo) > TxTrigger
           => txRaised' \/ Len(txFifo') > TxTrigger
  BY <1>1, <1>2, StoreFacts
<1>4. ~InFill
  BY <1>1 DEF Exclusive
<1>5. TypeOK'
  BY <1>1, <1>2, <1>3
<1>6. Numbered'
  <2>1. /\ accepted = sent + Len(txFifo) + Len(tx)
        /\ \A i \in 1..Len(txFifo) : txFifo[i] = sent + i
        /\ \A i \in 1..Len(tx) : tx[i] = sent + Len(txFifo) + i
        /\ held' = 0 /\ pc' # "store"
    BY <1>1, <1>4 DEF Numbered, held, InFill
  <2>2. ASSUME NEW i \in 1..Len(txFifo') PROVE txFifo'[i] = sent + i
    <3>1. CASE i \in 1..Len(txFifo)
      BY <1>3, <2>1, <3>1
    <3>2. CASE i = Len(txFifo) + 1
      BY <1>2, <1>3, <2>1, <3>2
    <3> QED
      BY <1>3, <3>1, <3>2
  <2>3. accepted' = sent' + Len(txFifo') + held' + Len(tx')
    BY <1>1, <1>2, <1>3, <2>1
  <2>4. ASSUME NEW i \in 1..Len(tx')
        PROVE  tx'[i] = sent' + Len(txFifo') + held' + i
    <3>1. tx'[i] = tx[i + 1] /\ i + 1 \in 1..Len(tx)
      BY <1>2
    <3> QED
      BY <1>1, <1>3, <2>1, <3>1
  <2> QED
    BY <1>1, <2>1, <2>2, <2>3, <2>4 DEF Numbered
<1>7. Exclusive'
  BY <1>1, <1>4 DEF Exclusive, InFill
<1>8. Armed'
  BY <1>1, <1>3, <1>4 DEF Armed, InFill
<1>9. Room'
  BY <1>1, <1>2 DEF Room
<1> QED
  BY <1>5, <1>6, <1>7, <1>8, <1>9

\* What leaves the FIFO is the next number, and draining through the trigger
\* level raises the interrupt.
LEMMA ShiftIInv == UartInv /\ Shift => UartInv' /\ sent' = sent + 1
<1> SUFFICES ASSUME UartInv, Shift PROVE UartInv' /\ sent' = sent + 1
  OBVIOUS
<1> USE UartAssumption DEF UartInv, TypeOK, txVars, rxVars
<1>0. txRaised' = (txRaised \/ Len(txFifo) = TxTrigger + 1)
  BY DEF Shift
<1>1. /\ txFifo # <<>> /\ sent' = Head(txFifo) /\ txFifo' = Tail(txFifo)
      /\ UNCHANGED <<tx, txEnabled, accepted, rxVars, irqEnabled, isr, pc, todo, ch>>
  BY DEF Shift
<1>2. /\ Head(txFifo) = txFifo[1] /\ Head(txFifo) \in 1..MaxBytes
      /\ txFifo' \in Seq(1..MaxBytes) /\ Len(txFifo) > 0
      /\ Len(txFifo') = Len(txFifo) - 1
      /\ \A i \in 1..Len(txFifo) - 1 : txFifo'[i] = txFifo[i + 1]
  BY <1>1, TailFacts
<1>3. sent' = sent + 1 /\ sent' \in 1..MaxBytes
  <2>1. 1 \in 1..Len(txFifo)
    BY <1>2
  <2>2. txFifo[1] = sent + 1
    BY <2>1 DEF Numbered
  <2> QED
    BY <1>1, <1>2, <2>2
<1>4. txRaised' \in BOOLEAN
  BY <1>0
<1>5. TypeOK'
  BY <1>1, <1>2, <1>3, <1>4
<1>6. Numbered'
  <2>1. held' = held /\ held \in {0, 1}
    BY <1>1 DEF held
  <2>2. accepted' = sent' + Len(txFifo') + held' + Len(tx')
    BY <1>1, <1>2, <1>3, <2>1 DEF Numbered
  <2>3. ASSUME NEW i \in 1..Len(txFifo') PROVE txFifo'[i] = sent' + i
    <3>4. Len(txFifo) \in Nat /\ i \in 1..Len(txFifo) - 1
      BY <1>2, LenProperties
    <3>3. i \in 1..Len(txFifo) - 1 /\ i + 1 \in 1..Len(txFifo)
      BY <3>4
    <3>1. txFifo'[i] = txFifo[i + 1] /\ i + 1 \in 1..Len(txFifo)
      BY <1>2, <3>3
    <3>2. txFifo[i + 1] = sent + (i + 1)
      BY <3>1 DEF Numbered
    <3> QED
      BY <1>3, <3>1, <3>2
  <2>4. \A i \in 1..Len(tx') : tx'[i] = sent' + Len(txFifo') + held' + i
    BY <1>1, <1>2, <1>3, <2>1 DEF Numbered
  <2>5. pc' = "store" => ch' = sent' + Len(txFifo') + 1
    BY <1>1, <1>2, <1>3 DEF Numbered
  <2> QED
    BY <2>2, <2>3, <2>4, <2>5 DEF Numbered
<1>7. Exclusive'
  <2>1. uart_is_writable'
    BY <1>2 DEF uart_is_writable
  <2> QED
    BY <1>1, <2>1 DEF Exclusive, InFill
<1>8. Armed'
  <2>1. txRaised \/ Len(txFifo) > TxTrigger => txRaised' \/ Len(txFifo') > TxTrigger
    <3>1. CASE Len(txFifo) = TxTrigger + 1
      BY <1>0, <3>1
    <3>2. CASE Len(txFifo) # TxTrigger + 1
      <4>1. txRaised => txRaised'
        BY <1>0
      <4> QED
        BY SMTT(30), <1>2, <3>2, <4>1
    <3> QED
      BY <3>1, <3>2
  <2> QED
    BY <1>1, <2>1 DEF Armed
<1>9. Room'
  BY <1>1 DEF Room
<1> QED
  BY <1>3, <1>5, <1>6, <1>7, <1>8, <1>9

-------------------------------------------------------------------------------
\* The theorems

\* Every step keeps the invariant, and only Shift changes what was sent.
LEMMA NextUartInv == UartInv /\ [Next]_vars => UartInv' /\ (sent' # sent => sent' = sent + 1)
<1> SUFFICES ASSUME UartInv, [Next]_vars
             PROVE  UartInv' /\ (sent' # sent => sent' = sent + 1)
  OBVIOUS
<1>1. CASE Shift
  BY <1>1, ShiftIInv
<1>2. CASE QueueByte \/ FillPop \/ FillStore \/ TransmitByte
  <2>1. sent' = sent
    BY <1>2 DEF QueueByte, FillPop, FillStore, TransmitByte
  <2> QED
    BY <1>2, <2>1, QueueByteIInv, FillPopIInv, FillStoreIInv, TransmitByteIInv
<1>3. CASE \/ Write \/ QueueEnds \/ FillEnds \/ Unmask
           \/ Read \/ ReadByte \/ ReadEnds
           \/ Interrupt \/ ReceiveByte \/ ReceiveEnds \/ TransmitEnds \/ Arrive
  <2>1. sent' = sent
    BY <1>3 DEF Write, QueueEnds, FillEnds, Unmask, Read, ReadByte, ReadEnds,
       Interrupt, ReceiveByte, ReceiveEnds, TransmitEnds, Arrive, txVars
  <2> QED
    BY <1>3, <2>1, ControlIInv
<1>4. CASE UNCHANGED vars
  <2>1. UNCHANGED <<tx, txFifo, txRaised, txEnabled, accepted, sent, rx, rxFifo,
                    irqEnabled, isr, pc, todo, ch>>
    BY <1>4 DEF vars, txVars, rxVars
  <2>2. TypeOK'
    BY <2>1 DEF UartInv, TypeOK
  <2>3. Numbered'
    BY <2>1 DEF UartInv, Numbered, held
  <2>4. Exclusive' /\ Armed' /\ Room'
    BY <2>1 DEF UartInv, Exclusive, InFill, uart_is_writable, Armed, Room
  <2> QED
    BY <2>1, <2>2, <2>3, <2>4 DEF UartInv
<1> QED
  BY <1>1, <1>2, <1>3, <1>4 DEF Next, Task, FinishWrite, Isr

THEOREM Inductive == Spec => []UartInv
<1>1. Init => UartInv
  BY InitUartInv
<1>2. UartInv /\ [Next]_vars => UartInv'
  BY NextUartInv
<1> QED
  BY <1>1, <1>2, PTL DEF Spec

\* The driver's variables stay in their types: neither queue nor FIFO overflows.
THEOREM TypeCorrect == Spec => []TypeOK
<1>1. UartInv => TypeOK
  BY DEF UartInv
<1> QED
  BY <1>1, Inductive, PTL

\* Every byte leaves in the order in which it was accepted, whichever of the
\* task and the interrupt handler moved it, for every size of the queue and of
\* the FIFO.
THEOREM BytesInOrder == Spec => InOrder
<1>1. UartInv /\ [Next]_vars => [sent' # sent => sent' = sent + 1]_sent
  BY NextUartInv
<1> QED
  BY <1>1, Inductive, PTL DEF Spec, InOrder

\* No byte is left behind in the queue while the interrupt is off.
THEOREM NothingStalls == Spec => []NoStall
<1>1. UartInv => NoStall
  BY DEF UartInv, NoStall, Exclusive, InFill, Armed
<1> QED
  BY <1>1, Inductive, PTL

\* A message no longer than the queue never waits for a queue nobody empties.
THEOREM WriteUnblocked == Spec => []Unblocked
<1>1. UartInv => Unblocked
  BY UartAssumption DEF UartInv, TypeOK, Unblocked, Room
<1> QED
  BY <1>1, Inductive, PTL

-------------------------------------------------------------------------------

-------------------------------------------------------------------------------
\* The inductive invariant

\* What a device may answer to the request: what was asked, or an exception.
Replies == {req, [req EXCEPT !.fc = @ + 128]}

\* The bytes are the first ones of frame f behind the first n, and what is damaged
\* of them is neither unit, function code nor length.
Continues(bytes, f, n) ==
    /\ n + Len(bytes) <= Size(f)
    /\ \A i \in 1..Len(bytes) : /\ bytes[i].f = f /\ bytes[i].at = n + i
                                /\ n + i <= 3 => bytes[i].ok

\* Where the client is in the frame, and that it has understood so far.
Progress(f) ==
    /\ part = "unit" => Len(buf) = 0
    /\ part = "fc" => Len(buf) = 1
    /\ part = "len" => Len(buf) = 2 /\ f.fc \in {3, 4}
    /\ part = "data" => Len(buf) = 3 /\ f.fc \in {3, 4} /\ need = 2
    /\ part = "echo" => Len(buf) = 2 /\ f.fc = 6
    /\ part = "exc" => Len(buf) = 2 /\ f.fc > 128
    /\ part = "crc" => Len(buf) = Size(f) - 2

\* An answer is under way, or what has arrived of it is split between the client
\* and the queue.
Answered(f) ==
    IF owed = <<>>
    THEN Continues(buf, f, 0) /\ Continues(rxQueue, f, Len(buf))
    ELSE /\ buf = <<>> /\ rxQueue = <<>>
         /\ Len(owed) = 1 /\ ~owed[1].late
         /\ Continues(owed[1].bytes, f, 0)

Sequenced ==
    /\ buf \in Seq(Bytes) /\ rxQueue \in Seq(Bytes)
    /\ owed \in Seq([bytes : Seq(Bytes), late : BOOLEAN])
    /\ req \in Frames
    /\ part \in {"idle", "unit", "fc", "len", "data", "echo", "exc", "crc", "done"}

Exchange ==
    receiving => /\ req.fc \in {3, 4, 6}
                 /\ \E f \in Replies : Progress(f) /\ Answered(f)

ModbusInv ==
    /\ Sequenced
    /\ Exchange
    /\ part \in {"idle", "done"} => rxQueue = <<>> /\ owed = <<>>
    /\ AnswerBelongs

\* The faults that keep the line clean (README.md): an answer that comes after the
\* timeout, or one refused before its end was read, stays for the next request.
CleanFaults == "late" \notin Faults /\ "header" \notin Faults

-------------------------------------------------------------------------------
\* Sequences and frames

\* What a receive takes from a queue s and appends to a buffer b.
LEMMA TakeFacts ==
    ASSUME NEW S, NEW b \in Seq(S), NEW s \in Seq(S), NEW n \in Nat, n <= Len(s)
    PROVE  /\ b \o SubSeq(s, 1, n) \in Seq(S)
           /\ SubSeq(s, n + 1, Len(s)) \in Seq(S)
           /\ Len(b \o SubSeq(s, 1, n)) = Len(b) + n
           /\ Len(SubSeq(s, n + 1, Len(s))) = Len(s) - n
           /\ \A i \in 1..Len(b) : (b \o SubSeq(s, 1, n))[i] = b[i]
           /\ \A i \in 1..n : (b \o SubSeq(s, 1, n))[Len(b) + i] = s[i]
           /\ \A i \in 1..Len(s) - n : SubSeq(s, n + 1, Len(s))[i] = s[n + i]
<1>1. /\ SubSeq(s, 1, n) \in Seq(S) /\ Len(SubSeq(s, 1, n)) = n
      /\ \A i \in 1..n : SubSeq(s, 1, n)[i] = s[i]
  OBVIOUS
<1>2. /\ SubSeq(s, n + 1, Len(s)) \in Seq(S)
      /\ Len(SubSeq(s, n + 1, Len(s))) = Len(s) - n
      /\ \A i \in 1..Len(s) - n : SubSeq(s, n + 1, Len(s))[i] = s[n + i]
  OBVIOUS
<1> DEFINE t == SubSeq(s, 1, n)
<1>3. t \in Seq(S) /\ Len(t) = n
  BY <1>1
<1> HIDE DEF t
<1>4. /\ b \o t \in Seq(S) /\ Len(b \o t) = Len(b) + n
      /\ \A i \in 1..Len(b) : (b \o t)[i] = b[i]
      /\ \A i \in 1..n : (b \o t)[Len(b) + i] = t[i]
  BY <1>3
<1> QED
  BY <1>1, <1>2, <1>4 DEF t

\* A frame has five, seven or eight bytes.
LEMMA SizeFacts ==
    ASSUME NEW f \in Frames
    PROVE  /\ Size(f) \in 5..8
           /\ f.fc > 128 => Size(f) = 5
           /\ f.fc = 6 => Size(f) = 8
           /\ f.fc \in {3, 4} => Size(f) = 7
  BY DEF Size, Frames

\* An exception to a request is a frame too.
LEMMA ExceptionFacts ==
    ASSUME NEW f \in Frames, f.fc \in {3, 4, 6}
    PROVE  LET e == [f EXCEPT !.fc = @ + 128]
           IN  e \in Frames /\ e.fc = f.fc + 128 /\ e.unit = f.unit /\ e.id = f.id
  BY DEF Frames

\* A function on 1..n is a sequence.
LEMMA IsSequence ==
    ASSUME NEW S, NEW n \in Nat, NEW s \in [1..n -> S]
    PROVE  s \in Seq(S) /\ Len(s) = n
  OBVIOUS

\* A whole frame, and one damaged at a place, are bytes of that frame.
LEMMA WholeFacts ==
    ASSUME NEW f \in Frames
    PROVE  /\ Whole(f) \in Seq(Bytes) /\ Len(Whole(f)) = Size(f)
           /\ \A i \in 1..Size(f) : Whole(f)[i].ok /\ Whole(f)[i].f = f
           /\ Continues(Whole(f), f, 0)
           /\ \A d \in 4..Size(f) : /\ Damaged(f, d) \in Seq(Bytes)
                                     /\ Continues(Damaged(f, d), f, 0)
<1>1. Size(f) \in 5..8
  BY SizeFacts
<1>2. ASSUME NEW i \in 1..Size(f), NEW ok \in BOOLEAN
      PROVE  [f |-> f, at |-> i, ok |-> ok] \in Bytes
  BY <1>1 DEF Bytes
<1>3. /\ Whole(f) \in [1..Size(f) -> Bytes]
      /\ \A i \in 1..Size(f) : Whole(f)[i] = [f |-> f, at |-> i, ok |-> TRUE]
  BY <1>2 DEF Whole
<1>4. Whole(f) \in Seq(Bytes) /\ Len(Whole(f)) = Size(f)
  BY <1>1, <1>3, IsSequence
<1>5. Continues(Whole(f), f, 0)
  BY <1>1, <1>3, <1>4 DEF Continues
<1>6. ASSUME NEW d \in 4..Size(f)
      PROVE  Damaged(f, d) \in Seq(Bytes) /\ Continues(Damaged(f, d), f, 0)
  <2>1. /\ Damaged(f, d) \in [1..Size(f) -> Bytes]
        /\ \A i \in 1..Size(f) : Damaged(f, d)[i] = [f |-> f, at |-> i, ok |-> i # d]
    BY <1>2 DEF Damaged
  <2>2. Damaged(f, d) \in Seq(Bytes) /\ Len(Damaged(f, d)) = Size(f)
    BY <1>1, <2>1, IsSequence
  <2>3. ASSUME NEW i \in 1..Size(f)
        PROVE  /\ Damaged(f, d)[i].f = f /\ Damaged(f, d)[i].at = i
               /\ i <= 3 => Damaged(f, d)[i].ok
    <3>1. i <= 3 => i # d
      BY <1>1
    <3>2. Damaged(f, d)[i] = [f |-> f, at |-> i, ok |-> i # d]
      BY <2>1
    <3>3. CASE i <= 3
      <4>1. Damaged(f, d)[i] = [f |-> f, at |-> i, ok |-> TRUE]
        BY <3>1, <3>2, <3>3
      <4> QED
        BY <4>1
    <3>4. Damaged(f, d)[i].f = f /\ Damaged(f, d)[i].at = i
      BY <3>2
    <3> QED
      BY <3>3, <3>4
  <2> QED
    BY <1>1, <2>2, <2>3 DEF Continues
<1> QED
  BY <1>3, <1>4, <1>5, <1>6

\* What is cut off a frame is still its beginning.
LEMMA CutFacts ==
    ASSUME NEW f \in Frames, NEW n \in 1..Size(f) - 1
    PROVE  /\ SubSeq(Whole(f), 1, n) \in Seq(Bytes)
           /\ Continues(SubSeq(Whole(f), 1, n), f, 0)
<1>1. Size(f) \in 5..8 /\ Whole(f) \in Seq(Bytes) /\ Len(Whole(f)) = Size(f)
  BY SizeFacts, WholeFacts
<1>2. /\ SubSeq(Whole(f), 1, n) \in Seq(Bytes) /\ Len(SubSeq(Whole(f), 1, n)) = n
      /\ \A i \in 1..n : SubSeq(Whole(f), 1, n)[i] = Whole(f)[i]
  BY <1>1
<1> QED
  BY <1>1, <1>2, WholeFacts DEF Continues

\* Every answer to f is the beginning of f or of an exception to it.
LEMMA AnswerContinues ==
    ASSUME CleanFaults, NEW f \in Frames, f.fc \in {3, 4, 6}, NEW a \in Answers(f)
    PROVE  /\ a \in Seq(Bytes)
           /\ \E g \in {f, [f EXCEPT !.fc = @ + 128]} : Continues(a, g, 0)
<1> DEFINE e == [f EXCEPT !.fc = @ + 128]
<1>1. e \in Frames
  BY ExceptionFacts
<1>2. CASE a = <<>>
  BY <1>2, SizeFacts DEF Continues
<1>3. CASE a = Whole(f) \/ a = Whole(e)
  BY <1>1, <1>3, WholeFacts
<1>4. CASE \E n \in 1..Size(f) - 1 : a = SubSeq(Whole(f), 1, n)
  BY <1>4, CutFacts
<1>5. CASE \E d \in 4..Size(f) : a = Damaged(f, d)
  BY <1>5, WholeFacts
<1> QED
  BY <1>2, <1>3, <1>4, <1>5 DEF Answers, CleanFaults

-------------------------------------------------------------------------------
\* Steps of the client

\* The assumption of the steps that follow: the client waits for the answer f.
Waiting(f) == ModbusInv /\ receiving /\ f \in Replies /\ Progress(f) /\ Answered(f)

\* Both replies are frames that the client takes for an answer to its request.
LEMMA ReplyFacts ==
    ASSUME NEW f, Waiting(f)
    PROVE  /\ req \in Frames /\ req.fc \in {3, 4, 6}
           /\ f \in Frames /\ f.unit = req.unit /\ f.id = req.id
           /\ f.fc = req.fc \/ f.fc = req.fc + 128
           /\ Size(f) \in 5..8
           /\ Len(buf) \in Nat /\ Len(rxQueue) \in Nat
<1>1. req \in Frames /\ req.fc \in {3, 4, 6}
  BY DEF Waiting, ModbusInv, Sequenced, Exchange
<1>2. /\ f \in Frames /\ f.unit = req.unit /\ f.id = req.id
      /\ f.fc = req.fc \/ f.fc = req.fc + 128
  BY <1>1, ExceptionFacts DEF Waiting, Replies
<1> QED
  BY <1>1, <1>2, SizeFacts DEF Waiting, ModbusInv, Sequenced

\* A receive moves its bytes from the queue to the buffer, and nothing else.
LEMMA RecvFacts ==
    ASSUME NEW f, Waiting(f), NEW at, Recv(at), Count \in Nat \ {0}
    PROVE  /\ buf' \in Seq(Bytes) /\ rxQueue' \in Seq(Bytes)
           /\ owed = <<>> /\ owed' = <<>> /\ req' = req
           /\ Len(buf') = Len(buf) + Count
           /\ Continues(buf', f, 0) /\ Continues(rxQueue', f, Len(buf'))
<1> DEFINE n == Count
<1>1. part = at /\ n \in Nat \ {0} /\ Len(rxQueue) >= n
  BY DEF Recv
<1>2. /\ buf \in Seq(Bytes) /\ rxQueue \in Seq(Bytes)
      /\ Len(buf) \in Nat /\ Len(rxQueue) \in Nat /\ n \in Nat \ {0} /\ n <= Len(rxQueue)
  BY <1>1 DEF Waiting, ModbusInv, Sequenced
<1>3. owed = <<>> /\ Continues(buf, f, 0) /\ Continues(rxQueue, f, Len(buf))
  BY <1>1, <1>2 DEF Waiting, Answered
<1>4. /\ buf' = buf \o SubSeq(rxQueue, 1, n)
      /\ rxQueue' = SubSeq(rxQueue, n + 1, Len(rxQueue))
      /\ owed' = owed /\ req' = req
  BY <1>1 DEF Recv
<1> HIDE DEF n
<1>5. /\ buf' \in Seq(Bytes) /\ rxQueue' \in Seq(Bytes)
      /\ Len(buf') = Len(buf) + n /\ Len(rxQueue') = Len(rxQueue) - n
      /\ \A i \in 1..Len(buf) : buf'[i] = buf[i]
      /\ \A i \in 1..n : buf'[Len(buf) + i] = rxQueue[i]
      /\ \A i \in 1..Len(rxQueue) - n : rxQueue'[i] = rxQueue[n + i]
  <2> DEFINE b == buf \o SubSeq(rxQueue, 1, n)
             q == SubSeq(rxQueue, n + 1, Len(rxQueue))
  <2>1. /\ b \in Seq(Bytes) /\ q \in Seq(Bytes)
        /\ Len(b) = Len(buf) + n /\ Len(q) = Len(rxQueue) - n
        /\ \A i \in 1..Len(buf) : b[i] = buf[i]
        /\ \A i \in 1..n : b[Len(buf) + i] = rxQueue[i]
        /\ \A i \in 1..Len(rxQueue) - n : q[i] = rxQueue[n + i]
    BY <1>2, TakeFacts
  <2>2. buf' = b /\ rxQueue' = q
    BY <1>4
  <2> QED
    BY <2>1, <2>2
<1>6. Len(buf) + Len(rxQueue) <= Size(f) /\ Size(f) \in 5..8
  BY <1>3, ReplyFacts DEF Continues
<1>7. Continues(buf', f, 0)
  <2>1. ASSUME NEW i \in 1..Len(buf')
        PROVE  buf'[i].f = f /\ buf'[i].at = i /\ (i <= 3 => buf'[i].ok)
    <3>1. CASE i \in 1..Len(buf)
      BY <1>3, <1>5, <3>1 DEF Continues
    <3>2. CASE i \notin 1..Len(buf)
      <4>1. /\ i - Len(buf) \in 1..n /\ i - Len(buf) \in 1..Len(rxQueue)
            /\ Len(buf) + (i - Len(buf)) = i
        BY <1>2, <1>5, <3>2
      <4>2. buf'[i] = rxQueue[i - Len(buf)]
        BY <1>5, <4>1
      <4> QED
        BY <1>3, <4>1, <4>2 DEF Continues
    <3> QED
      BY <3>1, <3>2
  <2> QED
    BY <1>2, <1>5, <1>6, <2>1 DEF Continues
<1>8. Continues(rxQueue', f, Len(buf'))
  <2>1. ASSUME NEW i \in 1..Len(rxQueue')
        PROVE  /\ rxQueue'[i].f = f /\ rxQueue'[i].at = Len(buf') + i
               /\ Len(buf') + i <= 3 => rxQueue'[i].ok
    <3>1. i \in 1..Len(rxQueue) - n /\ n + i \in 1..Len(rxQueue)
      BY <1>2, <1>5
    <3>2. Len(buf') + i = Len(buf) + (n + i)
      BY <1>2, <1>5, <3>1
    <3> QED
      BY <1>3, <1>5, <3>1, <3>2 DEF Continues
  <2> QED
    BY <1>2, <1>5, <1>6, <2>1 DEF Continues
<1> QED
  BY <1>3, <1>4, <1>5, <1>7, <1>8 DEF n

\* It is enough that the client is still in the answer, or is done without one.
LEMMA Onwards ==
    ASSUME NEW f, Waiting(f), req' = req, owed = <<>>, owed' = <<>>,
           buf' \in Seq(Bytes), rxQueue' \in Seq(Bytes),
           Continues(buf', f, 0), Continues(rxQueue', f, Len(buf')),
           part' \in {"fc", "len", "data", "echo", "exc", "crc"}, Progress(f)'
    PROVE  ModbusInv'
<1>1. Sequenced'
  BY DEF Waiting, ModbusInv, Sequenced
<1>2. f \in Replies' /\ Answered(f)'
  BY DEF Waiting, Replies, Answered
<1>3. Exchange'
  BY <1>2 DEF Waiting, ModbusInv, Exchange
<1> QED
  BY <1>1, <1>3 DEF ModbusInv, AnswerBelongs

\* The unit, and the function code, which is always the one of a reply.
LEMMA HeaderStep == ASSUME NEW f, Waiting(f), RecvUnit \/ RecvFc PROVE ModbusInv'
<1>1. CASE RecvUnit
  <2>1. Recv("unit") /\ part' = "fc" /\ part = "unit" /\ Count = 1
    BY <1>1 DEF RecvUnit, Continue, Recv, Count
  <2>2. /\ buf' \in Seq(Bytes) /\ rxQueue' \in Seq(Bytes) /\ Len(buf') = Len(buf) + 1
        /\ owed = <<>> /\ owed' = <<>> /\ req' = req
        /\ Continues(buf', f, 0) /\ Continues(rxQueue', f, Len(buf'))
    BY <2>1, RecvFacts
  <2>3. Progress(f)'
    BY <2>1, <2>2 DEF Waiting, Progress
  <2> QED
    BY <2>1, <2>2, <2>3, Onwards
<1>2. CASE RecvFc
  <2>1. Recv("fc") /\ part = "fc" /\ Count = 1 /\ Len(buf) = 1
    BY <1>2 DEF RecvFc, Recv, Count, Waiting, Progress
  <2>2. /\ buf' \in Seq(Bytes) /\ rxQueue' \in Seq(Bytes) /\ Len(buf') = Len(buf) + 1
        /\ owed = <<>> /\ owed' = <<>> /\ req' = req
        /\ Continues(buf', f, 0) /\ Continues(rxQueue', f, Len(buf'))
    BY <2>1, RecvFacts
  <2>3. /\ Holds(buf'[1], 1) /\ buf'[1].f = f
        /\ Holds(buf'[2], 2) /\ buf'[2].f = f
    BY <2>1, <2>2 DEF Continues, Holds
  <2>4. /\ f.fc = req.fc => part' = IF req.fc = 6 THEN "echo" ELSE "len"
        /\ f.fc # req.fc => part' = "exc"
    BY <1>2, <2>3, ReplyFacts DEF RecvFc, Continue
  <2>5. part' \in {"echo", "len", "exc"} /\ Progress(f)'
    BY <2>1, <2>2, <2>4, ReplyFacts DEF Progress
  <2> QED
    BY <2>2, <2>5, Onwards
<1> QED
  BY <1>1, <1>2

\* The length, which is right, and the register.
LEMMA ReadStep == ASSUME NEW f, Waiting(f), RecvLen \/ RecvData PROVE ModbusInv'
<1>1. CASE RecvLen
  <2>1. Recv("len") /\ part = "len" /\ Count = 1 /\ part' = "data"
    BY <1>1 DEF RecvLen, Continue, Recv, Count
  <2>2. Len(buf) = 2 /\ f.fc \in {3, 4}
    BY <2>1 DEF Waiting, Progress
  <2>3. /\ buf' \in Seq(Bytes) /\ rxQueue' \in Seq(Bytes) /\ Len(buf') = Len(buf) + 1
        /\ owed = <<>> /\ owed' = <<>> /\ req' = req
        /\ Continues(buf', f, 0) /\ Continues(rxQueue', f, Len(buf'))
    BY <2>1, RecvFacts
  <2>4. Holds(buf'[3], 3)
    BY <2>2, <2>3 DEF Continues, Holds
  <2>5. need' = 2
    BY <1>1, <2>4 DEF RecvLen
  <2> QED
    BY <2>1, <2>2, <2>3, <2>5, Onwards DEF Progress
<1>2. CASE RecvData
  <2>1. Recv("data") /\ part = "data" /\ Count = need /\ part' = "crc"
    BY <1>2 DEF RecvData, Continue, Recv, Count
  <2>2. Len(buf) = 3 /\ f.fc \in {3, 4} /\ need = 2
    BY <2>1 DEF Waiting, Progress
  <2>3. /\ buf' \in Seq(Bytes) /\ rxQueue' \in Seq(Bytes) /\ Len(buf') = Len(buf) + 2
        /\ owed = <<>> /\ owed' = <<>> /\ req' = req
        /\ Continues(buf', f, 0) /\ Continues(rxQueue', f, Len(buf'))
    BY <2>1, <2>2, RecvFacts
  <2>4. Size(f) = 7
    BY <2>2, ReplyFacts, SizeFacts
  <2> QED
    BY <2>1, <2>2, <2>3, <2>4, Onwards DEF Progress
<1> QED
  BY <1>1, <1>2

\* What a write echoes, and the code of an exception.
LEMMA ShortStep == ASSUME NEW f, Waiting(f), RecvEcho \/ RecvExc PROVE ModbusInv'
<1>1. CASE RecvEcho
  <2>1. Recv("echo") /\ part = "echo" /\ Count = 4 /\ part' = "crc"
    BY <1>1 DEF RecvEcho, Continue, Recv, Count
  <2>2. Len(buf) = 2 /\ Size(f) = 8
    BY <2>1, ReplyFacts, SizeFacts DEF Waiting, Progress
  <2>3. /\ buf' \in Seq(Bytes) /\ rxQueue' \in Seq(Bytes) /\ Len(buf') = Len(buf) + 4
        /\ owed = <<>> /\ owed' = <<>> /\ req' = req
        /\ Continues(buf', f, 0) /\ Continues(rxQueue', f, Len(buf'))
    BY <2>1, RecvFacts
  <2> QED
    BY <2>1, <2>2, <2>3, Onwards DEF Progress
<1>2. CASE RecvExc
  <2>1. Recv("exc") /\ part = "exc" /\ Count = 1 /\ part' = "crc"
    BY <1>2 DEF RecvExc, Continue, Recv, Count
  <2>2. Len(buf) = 2 /\ Size(f) = 5
    BY <2>1, ReplyFacts, SizeFacts DEF Waiting, Progress
  <2>3. /\ buf' \in Seq(Bytes) /\ rxQueue' \in Seq(Bytes) /\ Len(buf') = Len(buf) + 1
        /\ owed = <<>> /\ owed' = <<>> /\ req' = req
        /\ Continues(buf', f, 0) /\ Continues(rxQueue', f, Len(buf'))
    BY <2>1, RecvFacts
  <2> QED
    BY <2>1, <2>2, <2>3, Onwards DEF Progress
<1> QED
  BY <1>1, <1>2

\* The checksum ends the frame, so nothing is left of it; and it holds for the
\* bytes of an intact frame only, which is the reply.
LEMMA CrcStep == ASSUME NEW f, Waiting(f), RecvCrc PROVE ModbusInv'
<1>1. Recv("crc") /\ part = "crc" /\ Count = 2 /\ part' = "done"
  BY DEF RecvCrc, Finish, Recv, Count
<1>2. Len(buf) = Size(f) - 2 /\ Size(f) \in 5..8 /\ f \in Frames /\ f.id = req.id
  BY <1>1, ReplyFacts DEF Waiting, Progress
<1>3. /\ buf' \in Seq(Bytes) /\ rxQueue' \in Seq(Bytes) /\ Len(buf') = Size(f)
      /\ owed = <<>> /\ owed' = <<>> /\ req' = req
      /\ Continues(buf', f, 0) /\ Continues(rxQueue', f, Len(buf'))
  BY <1>1, <1>2, RecvFacts
<1>4. rxQueue' = <<>>
  BY <1>2, <1>3 DEF Continues
<1>5. AnswerBelongs'
  <2>1. buf'[1].f = f
    BY <1>2, <1>3 DEF Continues
  <2>2. err' = NONE => Intact(buf')
    BY <1>1 DEF RecvCrc, Finish, NONE
  <2>3. err' = NONE => buf' = Whole(f)
    BY <2>1, <2>2 DEF Intact
  <2> QED
    BY <1>2, <1>3, <2>3, WholeFacts DEF AnswerBelongs
<1>6. Sequenced'
  BY <1>1, <1>3 DEF Waiting, ModbusInv, Sequenced
<1> QED
  BY <1>1, <1>3, <1>4, <1>5, <1>6 DEF ModbusInv, Exchange, receiving

\* Without late answers the time is up only when the answer has come, and what
\* there is of it is consumed.
LEMMA TimeoutStep == ASSUME NEW f, Waiting(f), RecvTimeout PROVE ModbusInv'
<1>1. owed = <<>>
  BY DEF Waiting, Answered, RecvTimeout
<1>2. Sequenced'
  BY DEF RecvTimeout, Waiting, ModbusInv, Sequenced
<1> QED
  BY <1>1, <1>2 DEF RecvTimeout, ModbusInv, Exchange, receiving, AnswerBelongs, NONE

-------------------------------------------------------------------------------
\* Steps of the others

\* The queue drops the end of an answer, never its beginning.
LEMMA DeliverStep == ASSUME NEW f, Waiting(f), Deliver PROVE ModbusInv'
<1> DEFINE bytes == owed[1].bytes
           n == IF Len(bytes) <= RxQueueSize THEN Len(bytes) ELSE RxQueueSize
<1>1. /\ owed # <<>> /\ buf = <<>> /\ rxQueue = <<>> /\ Len(owed) = 1
      /\ Continues(bytes, f, 0)
  BY DEF Waiting, Answered, Deliver
<1>2. /\ owed \in Seq([bytes : Seq(Bytes), late : BOOLEAN])
      /\ owed[1] \in [bytes : Seq(Bytes), late : BOOLEAN]
      /\ bytes \in Seq(Bytes)
  <2>1. owed \in Seq([bytes : Seq(Bytes), late : BOOLEAN])
    BY DEF Waiting, ModbusInv, Sequenced
  <2>2. 1 \in 1..Len(owed)
    BY <1>1
  <2>3. owed[1] \in [bytes : Seq(Bytes), late : BOOLEAN]
    BY <2>1, <2>2, ElementOfSeq
  <2> QED
    BY <1>1, <2>1, <2>3
<1>3. owed' = <<>> /\ UNCHANGED <<part, req, buf, need, err>>
  <2>1. owed' = Tail(owed) /\ UNCHANGED <<part, req, buf, need, err>>
    BY DEF Deliver
  <2>2. Len(Tail(owed)) = 0 /\ Tail(owed) \in Seq([bytes : Seq(Bytes), late : BOOLEAN])
    BY <1>1, <1>2, HeadTailProperties
  <2> QED
    BY <2>1, <2>2, EmptySeq
<1>4. rxQueue' = SubSeq(bytes, 1, n)
  <2>1. Head(owed) = owed[1]
    BY <1>1, <1>2
  <2>2. <<>> \o bytes = bytes
    BY <1>2
  <2> QED
    BY <1>1, <2>1, <2>2 DEF Deliver
<1>5. /\ rxQueue' \in Seq(Bytes) /\ Len(rxQueue') = n /\ n \in 0..Len(bytes)
      /\ \A i \in 1..n : rxQueue'[i] = bytes[i]
  BY <1>2, <1>4, ModbusAssumption
<1>6. Size(f) \in 5..8
  BY ReplyFacts
<1>7. Continues(buf', f, 0) /\ Continues(rxQueue', f, Len(buf'))
  BY <1>1, <1>2, <1>3, <1>5, <1>6 DEF Continues
<1>8. Sequenced' /\ Progress(f)' /\ f \in Replies' /\ receiving'
  BY <1>3, <1>5 DEF Waiting, ModbusInv, Sequenced, Progress, Replies, receiving
<1> QED
  BY <1>3, <1>7, <1>8 DEF Waiting, ModbusInv, Exchange, Answered, AnswerBelongs, receiving

\* A request finds the line clean.
LEMMA RequestStep == ASSUME CleanFaults, ModbusInv, Request PROVE ModbusInv'
<1>1. part = "idle" /\ rxQueue = <<>> /\ owed = <<>>
  BY DEF Request, ModbusInv
<1>2. PICK r \in Requests, late \in BOOLEAN :
        /\ req' = [unit |-> r.unit, fc |-> r.fc, what |-> r.what, id |-> (req.id + 1) % Ids]
        /\ \E a \in Answers(req') : /\ late => "late" \in Faults
                                    /\ owed' = Append(owed, [bytes |-> a, late |-> late])
        /\ part' = "unit" /\ buf' = <<>> /\ rxQueue' = rxQueue
  BY DEF Request
<1>3. PICK a \in Answers(req') : owed' = Append(owed, [bytes |-> a, late |-> FALSE])
  BY <1>2 DEF CleanFaults
<1>4. req' \in Frames /\ req'.fc \in {3, 4, 6}
  <2>1. req.id \in Nat /\ r.fc \in {3, 4, 6} /\ Ids \in Nat \ {0}
    BY ModbusAssumption DEF ModbusInv, Sequenced, Frames
  <2>2. (req.id + 1) % Ids \in 0..Ids - 1
    BY <2>1
  <2> QED
    BY <1>2, <2>1, <2>2 DEF Frames
<1>5. a \in Seq(Bytes) /\ \E g \in {req', [req' EXCEPT !.fc = @ + 128]} : Continues(a, g, 0)
  BY <1>3, <1>4, AnswerContinues
<1>6. /\ owed' = <<[bytes |-> a, late |-> FALSE]>>
      /\ owed' \in Seq([bytes : Seq(Bytes), late : BOOLEAN])
      /\ Len(owed') = 1 /\ owed'[1].bytes = a /\ ~owed'[1].late
  BY <1>1, <1>3, <1>5
<1>7. Sequenced'
  BY <1>1, <1>2, <1>4, <1>6 DEF ModbusInv, Sequenced
<1>8. Exchange'
  <2>1. PICK g \in Replies' : Continues(a, g, 0)
    BY <1>5 DEF Replies
  <2>2. Progress(g)' /\ Answered(g)'
    BY <1>1, <1>2, <1>6, <2>1 DEF Progress, Answered
  <2> QED
    BY <1>4, <2>1, <2>2 DEF Exchange
<1> QED
  BY <1>2, <1>7, <1>8 DEF ModbusInv, AnswerBelongs

\* Nothing changes.
LEMMA UnchangedStep == ASSUME ModbusInv, UNCHANGED modbusVars PROVE ModbusInv'
  BY DEF modbusVars, ModbusInv, Sequenced, Exchange, receiving, Replies, Progress, Answered,
     AnswerBelongs

\* The client starts in the invariant.
LEMMA InitModbusInv == ModbusInit => ModbusInv
  BY DEF ModbusInit, ModbusInv, Sequenced, Exchange, receiving, AnswerBelongs

\* Every step keeps it.
LEMMA NextModbusInv == ASSUME CleanFaults, ModbusInv, [ModbusNext]_modbusVars PROVE ModbusInv'
<1>1. CASE Request
  BY <1>1, RequestStep
<1>2. CASE receiving
  <2>1. PICK f : Waiting(f)
    BY <1>2 DEF Waiting, ModbusInv, Exchange
  <2>2. ~Request /\ ~Return
    BY <1>2 DEF Request, Return, receiving
  <2> QED
    BY <2>1, <2>2, HeaderStep, ReadStep, ShortStep, CrcStep, TimeoutStep, DeliverStep,
       UnchangedStep DEF ModbusNext, Client
<1>3. CASE ~receiving /\ ~Request
  <2>1. part \in {"idle", "done"} /\ rxQueue = <<>> /\ owed = <<>>
    BY <1>3 DEF receiving, ModbusInv
  <2>2. Return \/ UNCHANGED modbusVars
    BY <1>3, <2>1 DEF ModbusNext, Client, Deliver, RecvUnit, RecvFc, RecvLen, RecvData,
       RecvEcho, RecvExc, RecvCrc, RecvTimeout, Recv
  <2>3. CASE Return
    BY <2>3, <2>1 DEF Return, ModbusInv, Sequenced, Exchange, receiving, AnswerBelongs
  <2> QED
    BY <2>2, <2>3, UnchangedStep
<1> QED
  BY <1>1, <1>2, <1>3

\* The invariant holds throughout.
LEMMA AlwaysIInv == ASSUME CleanFaults PROVE ModbusSpec => []ModbusInv
<1>1. ModbusInv /\ [ModbusNext]_modbusVars => ModbusInv'
  BY NextModbusInv
<1> QED
  BY <1>1, InitModbusInv, PTL DEF ModbusSpec

\* The client never takes an earlier answer, or a damaged one, for the answer to its
\* request (nanomodbus.c:393-433, 490-520), whatever it asks and however short the
\* queue is.
THEOREM AnswersBelong == ASSUME CleanFaults PROVE ModbusSpec => []AnswerBelongs
<1>1. ModbusInv => AnswerBelongs
  BY DEF ModbusInv
<1> QED
  BY <1>1, AlwaysIInv, PTL

\* A request leaves nothing behind, although nothing flushes the queue
\* (ModbusClient.cpp:50-54).
THEOREM LineStaysClean == ASSUME CleanFaults PROVE ModbusSpec => []LineClean
<1>1. ModbusInv => LineClean
  BY DEF ModbusInv, LineClean
<1> QED
  BY <1>1, AlwaysIInv, PTL

-------------------------------------------------------------------------------
\* The I2C bus: filling

\* The counters c and the commands s that were written belong to the request q.
Counters == [wctr : Nat, rctr : Nat, rcnt : Nat, restart : BOOLEAN]
Written(q, c, s) ==
    /\ q \in [w : Nat, r : Nat] /\ c \in Counters
    /\ c.wctr <= q.w /\ c.rctr <= q.r
    /\ c.wctr > 0 => c.rctr = q.r
    /\ c.restart <=> q.w > 0 /\ q.r > 0 /\ c.wctr = 0 /\ c.rctr = q.r
    /\ s \in Seq(Commands) /\ Len(s) = (q.w - c.wctr) + (q.r - c.rctr)
    /\ \A i \in 1..Len(s) : s[i] = Frame(q)[i]

LEMMA FrameFacts ==
    ASSUME NEW q \in [w : Nat, r : Nat]
    PROVE  /\ Frame(q) \in Seq(Commands) /\ Len(Frame(q)) = q.w + q.r
           /\ \A i \in 1..q.w + q.r :
                Frame(q)[i] = [kind |-> IF i <= q.w THEN "write" ELSE "read",
                               restart |-> q.w > 0 /\ i = q.w + 1,
                               stop |-> i = q.w + q.r]
<1>1. \A i \in 1..q.w + q.r :
        [kind |-> IF i <= q.w THEN "write" ELSE "read", restart |-> q.w > 0 /\ i = q.w + 1,
         stop |-> i = q.w + q.r] \in Commands
  BY DEF Commands
<1>2. q.w + q.r \in Nat
  OBVIOUS
<1> QED
  BY <1>1, <1>2 DEF Frame

\* Of an empty FIFO a fill uses at least one place, if it is given a command.
LEMMA FitFacts ==
    ASSUME NEW h, h.tx = <<>>, h.abort \in BOOLEAN, NEW n \in Nat
    PROVE  /\ Fit(h, n) \in 0..n
           /\ Fit(h, n) = 0 => n = 0
  BY I2CAssumption DEF Fit

LEMMA TxFill ==
    ASSUME NEW q, NEW c, NEW s, Written(q, c, s), c.wctr > 0, NEW n \in 1..c.wctr
    PROVE  /\ TxCommands(c, n) \in Seq(Commands) /\ Len(TxCommands(c, n)) = n
           /\ \A i \in 1..n : TxCommands(c, n)[i] = Frame(q)[Len(s) + i]
<1>1. q \in [w : Nat, r : Nat] /\ c \in Counters /\ c.rctr = q.r /\ ~c.restart /\ c.wctr <= q.w
  BY DEF Written
<1> c.wctr \in Nat /\ c.rctr \in Nat /\ c.restart \in BOOLEAN /\ q.w \in Nat /\ q.r \in Nat
  BY <1>1 DEF Counters
<1>2. Len(s) = q.w - c.wctr
  BY <1>1 DEF Written
<1>3. \A i \in 1..n : Frame(q)[Len(s) + i] =
         [kind |-> "write", restart |-> FALSE, stop |-> i = c.wctr /\ c.rctr = 0]
  <2> SUFFICES ASSUME NEW i \in 1..n
               PROVE  Frame(q)[Len(s) + i] =
                         [kind |-> "write", restart |-> FALSE, stop |-> i = c.wctr /\ c.rctr = 0]
    OBVIOUS
  <2>1. PICK j : j = Len(s) + i
    OBVIOUS
  <2>2. /\ j \in 1..q.w + q.r /\ j <= q.w /\ ~(j = q.w + 1)
        /\ (j = q.w + q.r) <=> (i = c.wctr /\ c.rctr = 0)
    BY <1>1, <1>2, <2>1
  <2>3. Frame(q)[j] = [kind |-> IF j <= q.w THEN "write" ELSE "read",
                       restart |-> q.w > 0 /\ j = q.w + 1, stop |-> j = q.w + q.r]
    BY <1>1, <2>2, FrameFacts
  <2> QED
    BY <2>1, <2>2, <2>3
<1>4. \A i \in 1..n : [kind |-> "write", restart |-> c.restart /\ i = 1,
                       stop |-> i = c.wctr /\ c.rctr = 0]
                      = [kind |-> "write", restart |-> FALSE, stop |-> i = c.wctr /\ c.rctr = 0]
  BY <1>1
<1>5. TxCommands(c, n) = [i \in 1..n |-> Frame(q)[Len(s) + i]]
  BY <1>3, <1>4 DEF TxCommands
<1>6. \A i \in 1..n : Frame(q)[Len(s) + i] \in Commands
  <2>1. \A i \in 1..n : Len(s) + i \in 1..Len(Frame(q))
    BY <1>1, <1>2, FrameFacts
  <2> QED
    BY <1>1, <2>1, FrameFacts, ElementOfSeq
<1> QED
  BY <1>5, <1>6

LEMMA RxFill ==
    ASSUME NEW q, NEW c, NEW s, Written(q, c, s), c.wctr = 0, NEW n \in 0..c.rctr
    PROVE  /\ RxCommands(c, n) \in Seq(Commands) /\ Len(RxCommands(c, n)) = n
           /\ \A i \in 1..n : RxCommands(c, n)[i] = Frame(q)[Len(s) + i]
<1>1. /\ q \in [w : Nat, r : Nat] /\ c \in Counters /\ c.rctr <= q.r
      /\ c.restart <=> q.w > 0 /\ q.r > 0 /\ c.rctr = q.r
  BY DEF Written
<1> c.wctr \in Nat /\ c.rctr \in Nat /\ c.restart \in BOOLEAN /\ q.w \in Nat /\ q.r \in Nat
  BY <1>1 DEF Counters
<1>2. Len(s) = q.w + q.r - c.rctr
  BY <1>1 DEF Written
<1>3. \A i \in 1..n : Frame(q)[Len(s) + i] =
         [kind |-> "read", restart |-> c.restart /\ i = 1, stop |-> i = c.rctr]
  <2> SUFFICES ASSUME NEW i \in 1..n
               PROVE  Frame(q)[Len(s) + i] =
                         [kind |-> "read", restart |-> c.restart /\ i = 1, stop |-> i = c.rctr]
    OBVIOUS
  <2>1. PICK j : j = Len(s) + i
    OBVIOUS
  <2>2. /\ j \in 1..q.w + q.r /\ ~(j <= q.w)
        /\ (j = q.w + q.r) <=> (i = c.rctr)
        /\ (q.w > 0 /\ j = q.w + 1) <=> (c.restart /\ i = 1)
    <3>1. j = q.w + q.r - c.rctr + i /\ i <= c.rctr /\ i >= 1
      BY <1>1, <1>2, <2>1
    <3>2. j \in 1..q.w + q.r /\ ~(j <= q.w) /\ ((j = q.w + q.r) <=> (i = c.rctr))
      BY <1>1, <3>1
    <3>3. (q.w > 0 /\ j = q.w + 1) <=> (c.restart /\ i = 1)
      BY <1>1, <3>1
    <3> QED
      BY <3>2, <3>3
  <2>3. Frame(q)[j] = [kind |-> IF j <= q.w THEN "write" ELSE "read",
                       restart |-> q.w > 0 /\ j = q.w + 1, stop |-> j = q.w + q.r]
    BY <1>1, <2>2, FrameFacts
  <2> QED
    BY <2>1, <2>2, <2>3
<1>4. RxCommands(c, n) = [i \in 1..n |-> Frame(q)[Len(s) + i]]
  BY <1>3 DEF RxCommands
<1>5. \A i \in 1..n : Frame(q)[Len(s) + i] \in Commands
  <2>1. \A i \in 1..n : Len(s) + i \in 1..Len(Frame(q))
    BY <1>1, <1>2, FrameFacts
  <2> QED
    BY <1>1, <2>1, FrameFacts, ElementOfSeq
<1> QED
  BY <1>4, <1>5

LEMMA Continued ==
    ASSUME NEW q, NEW c, NEW s, Written(q, c, s), NEW more \in Seq(Commands), NEW d \in Counters,
           \A i \in 1..Len(more) : more[i] = Frame(q)[Len(s) + i],
           d.wctr <= q.w /\ d.rctr <= q.r, d.wctr > 0 => d.rctr = q.r,
           d.restart <=> q.w > 0 /\ q.r > 0 /\ d.wctr = 0 /\ d.rctr = q.r,
           Len(s) + Len(more) = (q.w - d.wctr) + (q.r - d.rctr)
    PROVE  Written(q, d, s \o more)
<1> DEFINE f == Frame(q)
<1>0. /\ q \in [w : Nat, r : Nat] /\ s \in Seq(Commands)
      /\ \A i \in 1..Len(s) : s[i] = f[i]
      /\ \A i \in 1..Len(more) : more[i] = f[Len(s) + i]
  BY DEF Written
<1> HIDE DEF f
<1>1. s \o more \in Seq(Commands) /\ Len(s \o more) = Len(s) + Len(more)
  BY <1>0, ConcatProperties
<1>2. ASSUME NEW i \in 1..Len(s \o more)
      PROVE  (s \o more)[i] = f[i]
  <2>1. CASE i <= Len(s)
    BY <1>0, <1>1, <1>2, <2>1, ConcatProperties
  <2>2. CASE i > Len(s)
    <3>1. PICK j : j = i - Len(s)
      OBVIOUS
    <3>2. j \in 1..Len(more) /\ i = Len(s) + j
      BY <1>0, <1>1, <1>2, <2>2, <3>1
    <3>3. (s \o more)[i] = more[j]
      BY <1>0, <1>1, <1>2, <2>2, <3>1, ConcatProperties
    <3> QED
      BY <1>0, <3>2, <3>3
  <2> QED
    BY <1>0, <1>1, <2>1, <2>2
<1> QED
  BY <1>0, <1>1, <1>2 DEF Written, f

LEMMA WithinFrame ==
    ASSUME NEW q, NEW c, NEW s, Written(q, c, s)
    PROVE  Len(s) <= q.w + q.r /\ q.w \in Nat /\ q.r \in Nat
<1>1. /\ q.w \in Nat /\ q.r \in Nat /\ c.wctr \in Nat /\ c.rctr \in Nat
      /\ Len(s) = (q.w - c.wctr) + (q.r - c.rctr)
  BY DEF Written, Counters
<1> QED
  BY <1>1

\* One of the two fills, of an empty FIFO.
Filled(c, h) == IF c.wctr > 0 THEN tx_fill_fifo(c, h) ELSE rx_fill_fifo(c, h)

LEMMA FillGoesOn ==
    ASSUME NEW q, NEW c, NEW s, Written(q, c, s), NEW h, h.tx = <<>>, h.abort \in BOOLEAN
    PROVE  /\ Written(q, Filled(c, h).ctr, s \o Filled(c, h).cmds)
           /\ Filled(c, h).cmds \in Seq(Commands)
           /\ Filled(c, h).ctr.rcnt = c.rcnt
<1>1. /\ q \in [w : Nat, r : Nat] /\ c \in Counters /\ s \in Seq(Commands)
      /\ \A i \in 1..Len(s) : s[i] = Frame(q)[i]
  BY DEF Written
<1>2. c.wctr \in Nat /\ c.rctr \in Nat /\ c.restart \in BOOLEAN
  BY <1>1 DEF Counters
<1>3. CASE c.wctr > 0
  <2>1. PICK n : n = Fit(h, c.wctr)
    OBVIOUS
  <2>2. n \in 1..c.wctr
    BY <1>2, <1>3, <2>1, FitFacts
  <2>3. /\ Filled(c, h).cmds = TxCommands(c, n)
        /\ Filled(c, h).ctr = [c EXCEPT !.wctr = @ - n,
                                        !.restart = (n = c.wctr /\ c.rctr > 0) \/ (@ /\ n = 0)]
    BY <1>3, <2>1 DEF Filled, tx_fill_fifo
  <2>4. PICK d : d = Filled(c, h).ctr
    OBVIOUS
  <2>5. /\ d \in Counters /\ d.wctr = c.wctr - n /\ d.rctr = c.rctr /\ d.rcnt = c.rcnt
        /\ d.restart <=> n = c.wctr /\ c.rctr > 0
    <3>1. PICK w : w = c.wctr - n
      OBVIOUS
    <3>2. PICK on \in BOOLEAN : on <=> n = c.wctr /\ c.rctr > 0
      OBVIOUS
    <3>3. w \in Nat /\ ((n = c.wctr /\ c.rctr > 0) \/ (c.restart /\ n = 0)) = on
      BY <1>2, <2>2, <3>1, <3>2
    <3>4. d = [c EXCEPT !.wctr = w, !.restart = on]
      BY <2>3, <2>4, <3>1, <3>3, <1>1 DEF Counters
    <3>5. d \in Counters /\ d.wctr = w /\ d.rctr = c.rctr /\ d.rcnt = c.rcnt /\ d.restart = on
      BY <1>1, <3>2, <3>3, <3>4 DEF Counters
    <3> QED
      BY <3>1, <3>2, <3>5
  <2>6. PICK more : more = TxCommands(c, n)
    OBVIOUS
  <2>7. /\ more \in Seq(Commands) /\ Len(more) = n
        /\ \A i \in 1..Len(more) : more[i] = Frame(q)[Len(s) + i]
    BY <1>3, <2>2, <2>6, TxFill
  <2>8. Written(q, d, s \o more)
    <3>1. q.w \in Nat /\ q.r \in Nat /\ d.wctr \in Nat /\ d.rctr \in Nat
      BY <1>1, <2>5 DEF Counters
    <3>2. /\ c.wctr <= q.w /\ c.rctr <= q.r /\ (c.wctr > 0 => c.rctr = q.r)
          /\ c.restart <=> q.w > 0 /\ q.r > 0 /\ c.wctr = 0 /\ c.rctr = q.r
          /\ Len(s) = (q.w - c.wctr) + (q.r - c.rctr)
      BY DEF Written
    <3>3. /\ d.wctr <= q.w /\ d.rctr <= q.r /\ (d.wctr > 0 => d.rctr = q.r)
          /\ d.restart <=> q.w > 0 /\ q.r > 0 /\ d.wctr = 0 /\ d.rctr = q.r
      <4>1. d.wctr = 0 <=> n = c.wctr
        BY <1>2, <2>2, <2>5
      <4>2. c.rctr = q.r /\ q.w > 0
        BY <1>2, <1>3, <3>1, <3>2
      <4>3. d.wctr <= q.w /\ d.rctr <= q.r /\ (d.wctr > 0 => d.rctr = q.r)
        BY <1>2, <2>2, <2>5, <3>1, <3>2, <4>2
      <4>4. d.restart <=> q.w > 0 /\ q.r > 0 /\ d.wctr = 0 /\ d.rctr = q.r
        BY <2>5, <3>1, <4>1, <4>2
      <4> QED
        BY <4>3, <4>4
    <3>4. Len(s) + n = (q.w - d.wctr) + (q.r - d.rctr)
      BY <1>2, <1>3, <2>2, <2>5, <3>1, <3>2
    <3> QED
      BY <2>5, <2>7, <3>3, <3>4, Continued
  <2> QED
    BY <2>3, <2>4, <2>5, <2>6, <2>7, <2>8
<1>4. CASE c.wctr = 0
  <2>1. PICK n : n = Fit(h, c.rctr)
    OBVIOUS
  <2>2. n \in 0..c.rctr /\ (n = 0 => c.rctr = 0)
    BY <1>2, <2>1, FitFacts
  <2>3. /\ Filled(c, h).cmds = RxCommands(c, n)
        /\ Filled(c, h).ctr = [c EXCEPT !.rctr = @ - n, !.restart = @ /\ n = 0]
    BY <1>4, <2>1 DEF Filled, rx_fill_fifo
  <2>4. PICK d : d = Filled(c, h).ctr
    OBVIOUS
  <2>5. /\ d \in Counters /\ d.wctr = 0 /\ d.rctr = c.rctr - n /\ d.rcnt = c.rcnt
        /\ d.restart <=> c.restart /\ n = 0
    <3>1. PICK r : r = c.rctr - n
      OBVIOUS
    <3>2. PICK on \in BOOLEAN : on <=> c.restart /\ n = 0
      OBVIOUS
    <3>3. r \in Nat /\ (c.restart /\ n = 0) = on
      BY <1>2, <2>2, <3>1, <3>2
    <3>4. d = [c EXCEPT !.rctr = r, !.restart = on]
      BY <2>3, <2>4, <3>1, <3>3, <1>1 DEF Counters
    <3>5. d \in Counters /\ d.wctr = c.wctr /\ d.rctr = r /\ d.rcnt = c.rcnt /\ d.restart = on
      BY <1>1, <3>2, <3>3, <3>4 DEF Counters
    <3> QED
      BY <1>4, <3>1, <3>2, <3>5
  <2>6. PICK more : more = RxCommands(c, n)
    OBVIOUS
  <2>7. /\ more \in Seq(Commands) /\ Len(more) = n
        /\ \A i \in 1..Len(more) : more[i] = Frame(q)[Len(s) + i]
    BY <1>4, <2>2, <2>6, RxFill
  <2>8. Written(q, d, s \o more)
    <3>1. q.w \in Nat /\ q.r \in Nat /\ d.wctr \in Nat /\ d.rctr \in Nat
      BY <1>1, <2>5 DEF Counters
    <3>2. /\ c.wctr <= q.w /\ c.rctr <= q.r /\ (c.wctr > 0 => c.rctr = q.r)
          /\ c.restart <=> q.w > 0 /\ q.r > 0 /\ c.wctr = 0 /\ c.rctr = q.r
          /\ Len(s) = (q.w - c.wctr) + (q.r - c.rctr)
      BY DEF Written
    <3>3. /\ d.wctr <= q.w /\ d.rctr <= q.r /\ (d.wctr > 0 => d.rctr = q.r)
          /\ d.restart <=> q.w > 0 /\ q.r > 0 /\ d.wctr = 0 /\ d.rctr = q.r
      BY <1>2, <1>4, <2>2, <2>5, <3>1, <3>2
    <3>4. Len(s) + n = (q.w - d.wctr) + (q.r - d.rctr)
      BY <1>2, <1>4, <2>2, <2>5, <3>1, <3>2
    <3> QED
      BY <2>5, <2>7, <3>3, <3>4, Continued
  <2> QED
    BY <2>3, <2>4, <2>5, <2>6, <2>7, <2>8
<1> QED
  BY <1>2, <1>3, <1>4

-------------------------------------------------------------------------------
\* The inductive invariant of the frames

Controllers == [tx : Seq(Commands), busy : Commands, rx : Nat, stop : BOOLEAN,
                abort : BOOLEAN, mask : SUBSET Masks]

FrameInv ==
    /\ hw \in Controllers
    /\ Written(want, ctr, issued)
    /\ stored \in Nat /\ stored + ctr.rcnt = want.r

\* Commands put into the FIFO, and the mask.
Loaded(h, cmds, m) == [Put(h, cmds) EXCEPT !.mask = m]

LEMMA PutFacts ==
    ASSUME NEW h \in Controllers, NEW cmds \in Seq(Commands), NEW m \in SUBSET Masks
    PROVE  /\ Loaded(h, cmds, m) \in Controllers
           /\ Loaded(h, cmds, m).tx = IF h.abort THEN h.tx ELSE h.tx \o cmds
           /\ Loaded(h, cmds, m).mask = m
           /\ Loaded(h, cmds, m).busy = h.busy
           /\ Loaded(h, cmds, m).rx = h.rx
           /\ Loaded(h, cmds, m).stop = h.stop
           /\ Loaded(h, cmds, m).abort = h.abort
<1>1. CASE h.abort
  BY <1>1 DEF Loaded, Put, Controllers
<1>2. CASE ~h.abort
  <2>1. PICK fifo : fifo = h.tx \o cmds
    OBVIOUS
  <2>2. fifo \in Seq(Commands)
    BY <2>1, ConcatProperties DEF Controllers
  <2>3. Loaded(h, cmds, m) = [h EXCEPT !.tx = fifo, !.mask = m]
    BY <1>2, <2>1 DEF Loaded, Put, Controllers
  <2> QED
    BY <1>2, <2>1, <2>2, <2>3 DEF Controllers
<1> QED
  BY <1>1, <1>2

\* A controller that was disabled, and what a transaction begins with.
LEMMA DisabledFacts ==
    ASSUME hw \in Controllers, NEW h \in Disabled
    PROVE  /\ h \in Controllers /\ h.tx = <<>> /\ h.rx = 0
           /\ h.busy \in {hw.busy, Idle} /\ h.stop \in {hw.stop, FALSE}
           /\ h.abort \in {hw.abort, FALSE}
<1>1. PICK b \in {hw.busy, Idle}, st \in {hw.stop, FALSE}, a \in {hw.abort, FALSE} :
        h = [hw EXCEPT !.tx = <<>>, !.rx = 0, !.busy = b, !.stop = st, !.abort = a]
  BY DEF Disabled
<1>2. hw.busy \in Commands /\ hw.stop \in BOOLEAN /\ hw.abort \in BOOLEAN /\ Idle \in Commands
  BY DEF Controllers, Idle, Commands
<1>3. b \in Commands
  BY <1>1, <1>2
<1>4. st \in BOOLEAN /\ a \in BOOLEAN
  BY <1>1, <1>2
<1>5. h \in Controllers
  <2>1. h = [tx |-> <<>>, busy |-> b, rx |-> 0, stop |-> st, abort |-> a, mask |-> hw.mask]
    BY <1>1 DEF Controllers
  <2>2. <<>> \in Seq(Commands) /\ hw.mask \in SUBSET Masks
    BY DEF Controllers
  <2> QED
    BY <1>3, <1>4, <2>1, <2>2 DEF Controllers
<1>6. h.tx = <<>> /\ h.rx = 0 /\ h.busy = b /\ h.stop = st /\ h.abort = a
  BY <1>1 DEF Controllers
<1> QED
  BY <1>1, <1>5, <1>6

LEMMA BeginFacts ==
    ASSUME hw \in Controllers, NEW t \in Tasks, Begin(t)
    PROVE  \E q \in [w : Nat, r : Nat], h \in Disabled, cmds \in Seq(Commands) :
              /\ want' = q /\ q.w + q.r > 0
              /\ issued' = cmds /\ Written(q, ctr', cmds) /\ ctr'.rcnt = q.r
              /\ hw' = Loaded(h, cmds, Masks)
<1>1. PICK q \in Wants[t], h \in Disabled :
        LET c == [wctr |-> q.w, rctr |-> q.r, rcnt |-> q.r, restart |-> FALSE]
            fill == IF q.w > 0 THEN tx_fill_fifo(c, h) ELSE rx_fill_fifo(c, h)
        IN  /\ want' = q
            /\ ctr' = fill.ctr
            /\ hw' = [Put(h, fill.cmds) EXCEPT !.mask = Masks]
            /\ issued' = fill.cmds
  BY DEF Begin
<1>2. q \in [w : Nat, r : Nat] /\ q.w + q.r > 0
  BY I2CAssumption
<1>3. PICK c : c = [wctr |-> q.w, rctr |-> q.r, rcnt |-> q.r, restart |-> FALSE]
  OBVIOUS
<1>4. /\ want' = q /\ ctr' = Filled(c, h).ctr
      /\ hw' = [Put(h, Filled(c, h).cmds) EXCEPT !.mask = Masks]
      /\ issued' = Filled(c, h).cmds
  BY <1>1, <1>3 DEF Filled
<1>5. c \in Counters /\ c.wctr = q.w /\ c.rctr = q.r /\ c.rcnt = q.r /\ c.restart = FALSE
  BY <1>2, <1>3 DEF Counters
<1>6. Written(q, c, <<>>)
  <2>1. \A i \in 1..Len(<<>>) : <<>>[i] = Frame(q)[i]
    OBVIOUS
  <2>2. <<>> \in Seq(Commands) /\ Len(<<>>) = (q.w - c.wctr) + (q.r - c.rctr)
    BY <1>2, <1>5
  <2>3. c.restart <=> q.w > 0 /\ q.r > 0 /\ c.wctr = 0 /\ c.rctr = q.r
    BY <1>2, <1>5
  <2> QED
    BY <1>2, <1>5, <2>1, <2>2, <2>3 DEF Written
<1>7. h.tx = <<>> /\ h.abort \in BOOLEAN
  BY DisabledFacts DEF Controllers
<1>8. /\ Written(q, Filled(c, h).ctr, <<>> \o Filled(c, h).cmds)
      /\ Filled(c, h).cmds \in Seq(Commands) /\ Filled(c, h).ctr.rcnt = q.r
  <2>1. PICK s : s = <<>>
    OBVIOUS
  <2>2. Written(q, c, s)
    BY <1>6, <2>1
  <2>3. /\ Written(q, Filled(c, h).ctr, s \o Filled(c, h).cmds)
        /\ Filled(c, h).cmds \in Seq(Commands) /\ Filled(c, h).ctr.rcnt = c.rcnt
    BY <1>7, <2>2, FillGoesOn
  <2> QED
    BY <1>5, <2>1, <2>3
<1>9. PICK cmds : cmds = Filled(c, h).cmds
  OBVIOUS
<1>10. cmds \in Seq(Commands) /\ <<>> \o cmds = cmds
  BY <1>8, <1>9, ConcatEmptySeq
<1>11. Written(q, ctr', cmds)
  BY <1>4, <1>8, <1>9, <1>10
<1>12. ctr'.rcnt = q.r /\ hw' = Loaded(h, cmds, Masks) /\ issued' = cmds
  BY <1>4, <1>8, <1>9 DEF Loaded
<1> QED
  BY <1>2, <1>4, <1>10, <1>11, <1>12

LEMMA BeginFrame ==
    ASSUME FrameInv, NEW t \in Tasks, Begin(t)
    PROVE  FrameInv'
<1>0. hw \in Controllers
  BY DEF FrameInv
<1>1. PICK q \in [w : Nat, r : Nat], h \in Disabled, cmds \in Seq(Commands) :
              /\ want' = q /\ q.w + q.r > 0
              /\ issued' = cmds /\ Written(q, ctr', cmds) /\ ctr'.rcnt = q.r
              /\ hw' = Loaded(h, cmds, Masks)
  BY <1>0, BeginFacts
<1>2. hw' \in Controllers
  BY <1>0, <1>1, DisabledFacts, PutFacts
<1>3. stored' = 0
  BY DEF Begin
<1> QED
  BY <1>1, <1>2, <1>3 DEF FrameInv

LEMMA IsrFillFacts ==
    ASSUME FrameInv, IsrFill
    PROVE  \/ UNCHANGED <<ctr, hw, issued>>
           \/ /\ hw.tx = <<>> /\ "TX_EMPTY" \in hw.mask
              /\ \E cmds \in Seq(Commands), m \in SUBSET Masks :
                   /\ Written(want, ctr', issued \o cmds) /\ ctr'.rcnt = ctr.rcnt
                   /\ hw' = Loaded(hw, cmds, m)
                   /\ issued' = issued \o cmds
<1>1. CASE "TX_EMPTY" \in intr_stat
  <2>1. hw.tx = <<>> /\ hw.abort \in BOOLEAN /\ "TX_EMPTY" \in hw.mask /\ hw.mask \subseteq Masks
    BY <1>1 DEF intr_stat, FrameInv, Controllers
  <2>2. PICK m : /\ m = IF Filled(ctr, hw).ctr.wctr = 0 /\ Filled(ctr, hw).ctr.rctr = 0
                        THEN Masks \ {"TX_EMPTY"} ELSE hw.mask
    OBVIOUS
  <2>3. /\ ctr' = Filled(ctr, hw).ctr /\ issued' = issued \o Filled(ctr, hw).cmds
        /\ hw' = [Put(hw, Filled(ctr, hw).cmds) EXCEPT
                    !.mask = IF Filled(ctr, hw).ctr.wctr = 0 /\ Filled(ctr, hw).ctr.rctr = 0
                             THEN Masks \ {"TX_EMPTY"} ELSE @]
    BY <1>1 DEF IsrFill, Filled
  <2>4. PICK cmds : cmds = Filled(ctr, hw).cmds
    OBVIOUS
  <2>5. PICK q, c, s, h : q = want /\ c = ctr /\ s = issued /\ h = hw
    OBVIOUS
  <2>6. /\ Written(q, Filled(c, h).ctr, s \o Filled(c, h).cmds)
        /\ Filled(c, h).cmds \in Seq(Commands)
        /\ Filled(c, h).ctr.rcnt = c.rcnt
    BY <2>1, <2>5, FillGoesOn DEF FrameInv
  <2>7. cmds \in Seq(Commands)
    BY <2>4, <2>5, <2>6
  <2>8. Put(hw, cmds).mask = hw.mask
    BY DEF Put, FrameInv, Controllers
  <2>9. hw' = Loaded(hw, cmds, m)
    BY <2>2, <2>3, <2>4, <2>8 DEF Loaded
  <2>10. m \in SUBSET Masks
    BY <2>1, <2>2
  <2> QED
    BY <2>1, <2>3, <2>4, <2>5, <2>6, <2>7, <2>9, <2>10
<1>2. CASE "TX_EMPTY" \notin intr_stat
  BY <1>2 DEF IsrFill
<1> QED
  BY <1>1, <1>2

LEMMA IsrFillFrame ==
    ASSUME FrameInv, IsrFill
    PROVE  FrameInv'
<1>1. UNCHANGED <<want, stored>>
  BY DEF IsrFill
<1>2. CASE UNCHANGED <<ctr, hw, issued>>
  BY <1>1, <1>2 DEF FrameInv
<1>3. CASE \E cmds \in Seq(Commands), m \in SUBSET Masks :
              /\ Written(want, ctr', issued \o cmds) /\ ctr'.rcnt = ctr.rcnt
              /\ hw' = Loaded(hw, cmds, m)
              /\ issued' = issued \o cmds
  <2>1. PICK cmds \in Seq(Commands), m \in SUBSET Masks :
              /\ Written(want, ctr', issued \o cmds) /\ ctr'.rcnt = ctr.rcnt
              /\ hw' = Loaded(hw, cmds, m)
              /\ issued' = issued \o cmds
    BY <1>3
  <2>2. PICK h : h = hw
    OBVIOUS
  <2>3. Loaded(h, cmds, m) \in Controllers
    BY <2>2, PutFacts DEF FrameInv
  <2>4. hw' \in Controllers
    BY <2>1, <2>2, <2>3
  <2> QED
    BY <1>1, <2>1, <2>4 DEF FrameInv
<1> QED
  BY <1>2, <1>3, IsrFillFacts

LEMMA IsrDrainFacts ==
    ASSUME FrameInv, IsrDrain
    PROVE  \E n \in Nat : /\ n <= hw.rx /\ n <= ctr.rcnt
                          /\ ctr' = [ctr EXCEPT !.rcnt = ctr.rcnt - n]
                          /\ hw' = [hw EXCEPT !.rx = hw.rx - n]
                          /\ stored' = stored + n
<1>1. PICK n : n = Drained
  OBVIOUS
<1>2. ctr.rcnt \in Nat /\ hw.rx \in Nat /\ ctr \in Counters /\ hw \in Controllers
  BY DEF FrameInv, Written, Counters, Controllers
<1>3. n \in Nat /\ n <= hw.rx /\ n <= ctr.rcnt
  BY <1>1, <1>2 DEF Drained
<1>4. ctr' = [ctr EXCEPT !.rcnt = IF n <= @ THEN @ - n ELSE 0] /\ hw' = [hw EXCEPT !.rx = @ - n]
      /\ stored' = stored + n
  BY <1>1 DEF IsrDrain
<1>5. ctr' = [ctr EXCEPT !.rcnt = ctr.rcnt - n] /\ hw' = [hw EXCEPT !.rx = hw.rx - n]
  BY <1>2, <1>3, <1>4 DEF Counters, Controllers
<1> QED
  BY <1>3, <1>4, <1>5

LEMMA IsrDrainFrame ==
    ASSUME FrameInv, IsrDrain
    PROVE  FrameInv'
<1>1. UNCHANGED <<want, issued>>
  BY DEF IsrDrain
<1>2. PICK n \in Nat : /\ n <= hw.rx /\ n <= ctr.rcnt
                       /\ ctr' = [ctr EXCEPT !.rcnt = ctr.rcnt - n]
                       /\ hw' = [hw EXCEPT !.rx = hw.rx - n]
                       /\ stored' = stored + n
  BY IsrDrainFacts
<1>3. PICK left, level : left = ctr.rcnt - n /\ level = hw.rx - n
  OBVIOUS
<1>4. ctr \in Counters /\ hw \in Controllers /\ ctr.rcnt \in Nat /\ hw.rx \in Nat
  BY DEF FrameInv, Written, Counters, Controllers
<1>5. left \in Nat /\ level \in Nat
  BY <1>2, <1>3, <1>4
<1>6. ctr' = [ctr EXCEPT !.rcnt = left] /\ hw' = [hw EXCEPT !.rx = level]
  BY <1>2, <1>3
<1>7. /\ ctr' \in Counters /\ ctr'.wctr = ctr.wctr /\ ctr'.rctr = ctr.rctr
      /\ ctr'.restart = ctr.restart /\ ctr'.rcnt = left
  BY <1>4, <1>5, <1>6 DEF Counters
<1>8. hw' \in Controllers
  BY <1>4, <1>5, <1>6 DEF Controllers
<1>9. Written(want', ctr', issued')
  BY <1>1, <1>7 DEF FrameInv, Written
<1>10. stored' \in Nat /\ stored' + ctr'.rcnt = want'.r
  BY <1>1, <1>2, <1>3, <1>4, <1>7 DEF FrameInv
<1> QED
  BY <1>8, <1>9, <1>10 DEF FrameInv

LEMMA FetchFacts ==
    ASSUME FrameInv, Fetch
    PROVE  /\ hw.busy = Idle /\ hw.tx # <<>>
           /\ hw' \in Controllers
           /\ hw'.busy = Head(hw.tx) /\ hw'.tx = Tail(hw.tx)
           /\ hw'.rx = hw.rx /\ hw'.stop = hw.stop /\ hw'.abort = hw.abort /\ hw'.mask = hw.mask
<1>1. hw \in Controllers /\ hw.busy = Idle /\ hw.tx # <<>>
      /\ hw' = [hw EXCEPT !.busy = Head(hw.tx), !.tx = Tail(hw.tx)]
  BY DEF FrameInv, Fetch
<1>2. hw.tx \in Seq(Commands)
  BY <1>1 DEF Controllers
<1>3. Head(hw.tx) \in Commands /\ Tail(hw.tx) \in Seq(Commands)
  BY <1>1, <1>2
<1>4. PICK b, fifo : b = Head(hw.tx) /\ fifo = Tail(hw.tx)
  OBVIOUS
<1>5. hw' = [hw EXCEPT !.busy = b, !.tx = fifo]
  BY <1>1, <1>4
<1>6. hw' \in Controllers /\ hw'.busy = b /\ hw'.tx = fifo
      /\ hw'.rx = hw.rx /\ hw'.stop = hw.stop /\ hw'.abort = hw.abort /\ hw'.mask = hw.mask
  BY <1>1, <1>3, <1>4, <1>5 DEF Controllers
<1> QED
  BY <1>1, <1>4, <1>6

LEMMA ExecuteFacts ==
    ASSUME FrameInv, Execute
    PROVE  /\ hw.busy # Idle
           /\ hw' \in Controllers
           /\ hw'.busy = Idle /\ hw'.tx = hw.tx
           /\ hw'.rx \in {hw.rx, hw.rx + 1} /\ (hw.busy.kind # "read" => hw'.rx = hw.rx)
           /\ hw'.stop <=> hw.stop \/ hw.busy.stop
           /\ hw'.abort = hw.abort /\ hw'.mask = hw.mask
<1>1. hw \in Controllers /\ hw.busy # Idle
  BY DEF FrameInv, Execute
<1>2. hw.busy \in Commands /\ hw.rx \in Nat /\ hw.stop \in BOOLEAN /\ hw.busy.stop \in BOOLEAN
  BY <1>1 DEF Controllers, Commands
<1>3. PICK st \in BOOLEAN : st <=> hw.stop \/ hw.busy.stop
  OBVIOUS
<1>4. PICK level : level = IF hw.busy.kind = "read" /\ hw.rx < FifoDepth THEN hw.rx + 1 ELSE hw.rx
  OBVIOUS
<1>5. (hw.stop \/ hw.busy.stop) = st
  BY <1>2, <1>3
<1>6. hw' = [hw EXCEPT !.busy = Idle, !.stop = st, !.rx = level]
  BY <1>1, <1>4, <1>5 DEF Execute, Controllers
<1>7. level \in {hw.rx, hw.rx + 1} /\ (hw.busy.kind # "read" => level = hw.rx) /\ level \in Nat
  BY <1>2, <1>4
<1>8. Idle \in Commands
  BY DEF Idle, Commands
<1>9. hw' \in Controllers
  BY <1>1, <1>3, <1>6, <1>7, <1>8 DEF Controllers
<1>10. hw'.busy = Idle /\ hw'.tx = hw.tx /\ hw'.rx = level /\ hw'.stop = st
       /\ hw'.abort = hw.abort /\ hw'.mask = hw.mask
  BY <1>1, <1>6 DEF Controllers
<1> QED
  BY <1>1, <1>3, <1>7, <1>9, <1>10

LEMMA RefuseFacts ==
    ASSUME FrameInv, Refuse
    PROVE  /\ hw.busy.kind # "none"
           /\ hw' \in Controllers
           /\ hw'.busy = [kind |-> "none", restart |-> FALSE, stop |-> TRUE]
           /\ hw'.tx = <<>> /\ hw'.rx = hw.rx /\ hw'.stop = hw.stop /\ hw'.abort = TRUE
           /\ hw'.mask = hw.mask
<1>1. hw \in Controllers /\ hw.busy.kind # "none"
      /\ hw' = [hw EXCEPT !.busy = [Idle EXCEPT !.stop = TRUE], !.tx = <<>>, !.abort = TRUE]
  BY DEF FrameInv, Refuse
<1>2. [Idle EXCEPT !.stop = TRUE] = [kind |-> "none", restart |-> FALSE, stop |-> TRUE]
  <2>1. Idle \in [kind : {"none"}, restart : {FALSE}, stop : {FALSE}]
    BY DEF Idle
  <2>2. PICK e : e = [Idle EXCEPT !.stop = TRUE]
    OBVIOUS
  <2>3. e.kind = "none" /\ e.restart = FALSE /\ e.stop = TRUE
    BY <2>1, <2>2
  <2>4. e \in [kind : {"none"}, restart : {FALSE}, stop : {TRUE}]
    BY <2>1, <2>2
  <2> QED
    BY <2>2, <2>3, <2>4
<1>3. PICK b : b = [kind |-> "none", restart |-> FALSE, stop |-> TRUE]
  OBVIOUS
<1>4. b \in Commands /\ <<>> \in Seq(Commands)
  BY <1>3 DEF Commands
<1>5. hw' = [hw EXCEPT !.busy = b, !.tx = <<>>, !.abort = TRUE]
  BY <1>1, <1>2, <1>3
<1>6. hw' = [tx |-> <<>>, busy |-> b, rx |-> hw.rx, stop |-> hw.stop, abort |-> TRUE, mask |-> hw.mask]
  BY <1>1, <1>5 DEF Controllers
<1>7. hw.rx \in Nat /\ hw.stop \in BOOLEAN /\ hw.mask \in SUBSET Masks
  BY <1>1 DEF Controllers
<1>8. hw' \in Controllers
  BY <1>4, <1>6, <1>7 DEF Controllers
<1>9. /\ hw'.tx = <<>> /\ hw'.busy = b /\ hw'.rx = hw.rx /\ hw'.stop = hw.stop
      /\ hw'.abort = TRUE /\ hw'.mask = hw.mask
  BY <1>6, <1>7
<1> QED
  BY <1>1, <1>3, <1>8, <1>9

LEMMA IsrStopFacts ==
    ASSUME FrameInv, IsrStop
    PROVE  \/ UNCHANGED <<hw, notifyVars>> /\ ~("STOP_DET" \in hw.mask /\ hw.stop)
           \/ /\ hw.stop /\ "STOP_DET" \in hw.mask /\ NotifyFromISR(task_to_notify)
              /\ hw' \in Controllers /\ hw'.mask = {} /\ ~hw'.stop
              /\ hw'.tx = hw.tx /\ hw'.busy = hw.busy /\ hw'.rx = hw.rx /\ hw'.abort = hw.abort
<1>1. CASE "STOP_DET" \in intr_stat
  <2>1. hw.stop /\ "STOP_DET" \in hw.mask
    BY <1>1 DEF intr_stat
  <2>2. hw \in Controllers /\ hw' = [hw EXCEPT !.mask = {}, !.stop = FALSE]
        /\ NotifyFromISR(task_to_notify)
    BY <1>1 DEF IsrStop, Acknowledged, FrameInv
  <2>3. hw' = [tx |-> hw.tx, busy |-> hw.busy, rx |-> hw.rx, stop |-> FALSE,
               abort |-> hw.abort, mask |-> {}]
    BY <2>2 DEF Controllers
  <2>4. hw' \in Controllers
    BY <2>2, <2>3 DEF Controllers
  <2> QED
    BY <2>1, <2>2, <2>3, <2>4
<1>2. CASE "STOP_DET" \notin intr_stat
  BY <1>2 DEF IsrStop, intr_stat
<1> QED
  BY <1>1, <1>2

LEMMA InitFrame == I2CInit => FrameInv
<1> SUFFICES ASSUME I2CInit PROVE FrameInv
  OBVIOUS
<1>1. want = [w |-> 0, r |-> 0] /\ issued = <<>> /\ stored = 0
      /\ ctr = [wctr |-> 0, rctr |-> 0, rcnt |-> 0, restart |-> FALSE]
  BY DEF I2CInit
<1>2. Written(want, ctr, issued)
  <2>1. \A i \in 1..Len(issued) : issued[i] = Frame(want)[i]
    BY <1>1
  <2>2. ctr \in Counters /\ want \in [w : Nat, r : Nat] /\ issued \in Seq(Commands)
    BY <1>1 DEF Counters
  <2> QED
    BY <1>1, <2>1, <2>2 DEF Written
<1>3. hw \in Controllers
  <2>1. Idle \in Commands /\ <<>> \in Seq(Commands)
    BY DEF Idle, Commands
  <2>2. hw = [tx |-> <<>>, busy |-> Idle, rx |-> 0, stop |-> FALSE, abort |-> FALSE, mask |-> {}]
    BY DEF I2CInit
  <2> QED
    BY <2>1, <2>2 DEF Controllers
<1> QED
  BY <1>1, <1>2, <1>3 DEF FrameInv

LEMMA NextFrame == FrameInv /\ [I2CNext]_i2cVars => FrameInv'
<1> SUFFICES ASSUME FrameInv, [I2CNext]_i2cVars PROVE FrameInv'
  OBVIOUS
<1>1. ASSUME hw' \in Controllers, UNCHANGED <<want, ctr, issued, stored>>
      PROVE  FrameInv'
  BY <1>1 DEF FrameInv
<1>2. hw \in Controllers
  BY DEF FrameInv
<1>3. ASSUME NEW t \in Tasks, I2CTask(t)
      PROVE  FrameInv'
  <2>1. CASE Begin(t)
    BY <2>1, BeginFrame
  <2>2. CASE Attend(t)
    BY <1>1, <1>2, <2>2 DEF Attend, Take, Timeout, Woken, Release, history
  <2> QED
    BY <1>3, <2>1, <2>2 DEF I2CTask
<1>4. CASE Fetch
  BY <1>1, <1>4, FetchFacts DEF Fetch, history
<1>5. CASE Execute
  BY <1>1, <1>5, ExecuteFacts DEF Execute
<1>6. CASE Refuse
  BY <1>1, <1>6, RefuseFacts DEF Refuse
<1>7. CASE IsrStop
  <2>1. hw' \in Controllers
    BY <1>2, <1>7, IsrStopFacts
  <2> QED
    BY <1>1, <1>7, <2>1 DEF IsrStop, history
<1>8. CASE UNCHANGED i2cVars
  BY <1>1, <1>2, <1>8 DEF i2cVars, history
<1> QED
  BY <1>3, <1>4, <1>5, <1>6, <1>7, <1>8, IsrDrainFrame, IsrFillFrame DEF I2CNext, I2CIsr

LEMMA FramesInvariant == I2CSpec => []FrameInv
  BY InitFrame, NextFrame, PTL DEF I2CSpec

LEMMA FrameInvWhole == FrameInv => TransactionIsWhole
<1> SUFFICES ASSUME FrameInv PROVE TransactionIsWhole
  OBVIOUS
<1>1. /\ want \in [w : Nat, r : Nat] /\ issued \in Seq(Commands) /\ ctr \in Counters
      /\ ctr.wctr <= want.w /\ ctr.rctr <= want.r
      /\ Len(issued) = (want.w - ctr.wctr) + (want.r - ctr.rctr)
      /\ \A i \in 1..Len(issued) : issued[i] = Frame(want)[i]
  BY DEF FrameInv, Written
<1>2. PICK f, n : f = Frame(want) /\ n = Len(issued)
  OBVIOUS
<1>3. f \in Seq(Commands) /\ n \in Nat /\ n <= Len(f)
  <2>1. f \in Seq(Commands) /\ Len(f) = want.w + want.r
    BY <1>1, <1>2, FrameFacts
  <2>2. ctr.wctr \in Nat /\ ctr.rctr \in Nat /\ want.w \in Nat /\ want.r \in Nat
    BY <1>1 DEF Counters
  <2> QED
    BY <1>1, <1>2, <2>1, <2>2
<1>4. SubSeq(f, 1, n) \in Seq(Commands) /\ Len(SubSeq(f, 1, n)) = n
      /\ \A i \in 1..n : SubSeq(f, 1, n)[i] = f[i]
  BY <1>3
<1>5. issued = SubSeq(f, 1, n)
  BY <1>1, <1>2, <1>4, SeqEqual
<1>6. stored <= want.r
  BY <1>1 DEF FrameInv, Counters
<1> QED
  BY <1>2, <1>5, <1>6 DEF TransactionIsWhole, FrameIsWhole, WithinBuffer, FrameInv

\* However the FIFOs are filled, drained and emptied by the task and by the
\* interrupts, of any depth and at any level, what the controller is told is a
\* prefix of one frame (writes, a restart before the reads, one stop at the end),
\* and a read stays within the buffer it was given.
THEOREM TransactionsAreWhole == I2CSpec => []TransactionIsWhole
  BY FramesInvariant, FrameInvWhole, PTL

-------------------------------------------------------------------------------
\* The inductive invariant of the counts

\* Who holds the mutex is the one that works and that is notified.
ControlInv ==
    /\ stage \in [Tasks -> {"idle", "take", "wait", "counted"}]
    /\ ulNotifiedValue \in [Tasks -> 0..1]
    /\ access \in Tasks \cup {NoTask}
    /\ \A t \in Tasks : stage[t] # "idle" <=> access = t
    /\ access # NoTask => task_to_notify = access
    /\ handler # "none" \/ irqOn => access # NoTask

\* What is stored or waits in the FIFO was received.
ReceivedInv == moved \in [w : Nat, r : Nat] /\ stored + hw.rx <= moved.r

Crossed == moved.w + moved.r
OnBus == IF hw.busy.kind = "none" THEN 0 ELSE 1

\* Of the commands written so many have crossed the bus, one may be on it and
\* the others are in the FIFO, unless a refusal has emptied it.
Underway ==
    /\ moved.w <= want.w /\ moved.r <= want.r
    /\ moved.r > 0 => moved.w = want.w
    /\ hw.abort => hw.tx = <<>> /\ hw.busy.kind = "none"
    /\ ~hw.abort => /\ Len(issued) = Crossed + OnBus + Len(hw.tx)
                    /\ \A i \in 1..Len(hw.tx) : hw.tx[i] = issued[Crossed + OnBus + i]
                    /\ OnBus = 1 => hw.busy = issued[Crossed + 1]
    /\ refused => hw.abort
    /\ hw.busy.kind = "none" => hw.busy = Idle \/ refused

Complete == Crossed = want.w + want.r \/ refused
Quiet == hw.tx = <<>> /\ hw.busy = Idle

\* The transaction is over, as far as the controller is concerned.
Ended ==
    \/ access = NoTask
    \/ \E t \in Tasks : t = access /\ (ulNotifiedValue[t] = 1 \/ stage[t] = "counted")

\* A stop is seen when everything has crossed, or a byte was refused; once it was
\* notified nothing is left to come.
StopInv ==
    /\ hw.stop => Quiet /\ Complete
    /\ Ended => Quiet /\ ~hw.stop /\ hw.mask = {} /\ handler = "none"
    /\ Ended /\ access # NoTask => Complete
    /\ \A t \in Tasks : t # access \/ stage[t] = "counted" => ulNotifiedValue[t] = 0

CountInv ==
    /\ FrameInv /\ ControlInv /\ ReceivedInv
    /\ ~timedOut => Underway /\ StopInv
    /\ FullCountMeansMoved

\* A transaction of which everything crossed, or of which all reads did, has moved
\* what it was asked for.
LEMMA AllMoved ==
    ASSUME FrameInv, ReceivedInv, Underway,
           Crossed = want.w + want.r \/ (ctr.rcnt = 0 /\ want.r > 0)
    PROVE  moved = want
<1>1. /\ want \in [w : Nat, r : Nat] /\ moved \in [w : Nat, r : Nat]
      /\ stored + ctr.rcnt = want.r /\ stored \in Nat /\ hw.rx \in Nat
  BY DEF FrameInv, Written, ReceivedInv, Controllers
<1>2. PICK mw, mr, w, r : mw = moved.w /\ mr = moved.r /\ w = want.w /\ r = want.r
  OBVIOUS
<1>3. /\ mw \in Nat /\ mr \in Nat /\ w \in Nat /\ r \in Nat
      /\ mw <= w /\ mr <= r /\ (mr > 0 => mw = w)
  BY <1>1, <1>2 DEF Underway
<1>4. mw + mr = w + r \/ (mr >= r /\ r > 0)
  <2>1. CASE Crossed = want.w + want.r
    BY <1>2, <2>1 DEF Crossed
  <2>2. CASE ctr.rcnt = 0 /\ want.r > 0
    <3>1. stored = r
      BY <1>1, <1>2, <2>2
    <3> QED
      BY <1>1, <1>2, <1>3, <2>2, <3>1 DEF ReceivedInv
  <2> QED
    BY <2>1, <2>2
<1>5. mw = w /\ mr = r
  BY <1>3, <1>4
<1>6. moved = [w |-> mw, r |-> mr] /\ want = [w |-> w, r |-> r]
  BY <1>1, <1>2
<1> QED
  BY <1>5, <1>6

\* What the controller was told is within the frame, and the next command on the
\* bus is the next one of the frame.
LEMMA IssuedFacts ==
    ASSUME FrameInv
    PROVE  /\ Len(issued) \in Nat /\ Len(issued) <= want.w + want.r
           /\ want.w \in Nat /\ want.r \in Nat
           /\ \A i \in 1..Len(issued) : /\ issued[i].kind = IF i <= want.w THEN "write" ELSE "read"
                                        /\ issued[i].stop <=> i = want.w + want.r
<1>1. /\ want \in [w : Nat, r : Nat] /\ issued \in Seq(Commands) /\ ctr \in Counters
      /\ ctr.wctr <= want.w /\ ctr.rctr <= want.r
      /\ Len(issued) = (want.w - ctr.wctr) + (want.r - ctr.rctr)
      /\ \A i \in 1..Len(issued) : issued[i] = Frame(want)[i]
  BY DEF FrameInv, Written
<1>2. /\ want.w \in Nat /\ want.r \in Nat /\ ctr.wctr \in Nat /\ ctr.rctr \in Nat
      /\ Len(issued) \in Nat
  BY <1>1 DEF Counters
<1>3. Len(issued) <= want.w + want.r
  BY <1>1, <1>2
<1>4. ASSUME NEW i \in 1..Len(issued)
      PROVE  /\ issued[i].kind = IF i <= want.w THEN "write" ELSE "read"
             /\ issued[i].stop <=> i = want.w + want.r
  <2>1. i \in 1..want.w + want.r
    BY <1>2, <1>3
  <2>2. PICK q : q = want
    OBVIOUS
  <2>3. Frame(q)[i] = [kind |-> IF i <= q.w THEN "write" ELSE "read",
                       restart |-> q.w > 0 /\ i = q.w + 1,
                       stop |-> i = q.w + q.r]
    BY <1>1, <2>1, <2>2, FrameFacts
  <2>4. PICK kind : kind = IF i <= q.w THEN "write" ELSE "read"
    OBVIOUS
  <2>5. PICK restart \in BOOLEAN : restart <=> q.w > 0 /\ i = q.w + 1
    OBVIOUS
  <2>6. PICK stop \in BOOLEAN : stop <=> i = q.w + q.r
    OBVIOUS
  <2>7. issued[i] = [kind |-> kind, restart |-> restart, stop |-> stop]
    BY <1>1, <2>2, <2>3, <2>4, <2>5, <2>6
  <2> QED
    BY <2>2, <2>4, <2>6, <2>7
<1> QED
  BY <1>2, <1>3, <1>4

\* The parts of the invariant that a step of the controller or of the handler
\* cannot disturb.
LEMMA ControlKept ==
    ASSUME CountInv, UNCHANGED <<stage, ulNotifiedValue, access, task_to_notify, irqOn>>,
           handler' = "none" \/ handler' = handler \/ irqOn \/ handler # "none"
    PROVE  ControlInv' /\ (Ended' <=> Ended)
<1>1. ControlInv
  BY DEF CountInv
<1>2. ControlInv'
  BY <1>1 DEF ControlInv
<1> QED
  BY <1>2 DEF Ended

LEMMA InitCount == I2CInit => CountInv
<1> SUFFICES ASSUME I2CInit PROVE CountInv
  OBVIOUS
<1>1. FrameInv
  BY InitFrame
<1>2. ControlInv
  BY I2CAssumption DEF I2CInit, NotifyInit, ControlInv
<1>3. want = [w |-> 0, r |-> 0] /\ moved = [w |-> 0, r |-> 0] /\ stored = 0 /\ issued = <<>>
      /\ hw = [tx |-> <<>>, busy |-> Idle, rx |-> 0, stop |-> FALSE, abort |-> FALSE, mask |-> {}]
      /\ refused = FALSE
  BY DEF I2CInit
<1>4. /\ hw.tx = <<>> /\ hw.busy = Idle /\ hw.rx = 0 /\ hw.stop = FALSE /\ hw.abort = FALSE
      /\ hw.mask = {} /\ hw.busy.kind = "none"
  BY <1>3 DEF Idle
<1>5. moved.w = 0 /\ moved.r = 0 /\ want.w = 0 /\ want.r = 0
  BY <1>3
<1>6. ReceivedInv
  BY <1>3, <1>4, <1>5 DEF ReceivedInv
<1>7. Underway
  BY <1>3, <1>4, <1>5 DEF Underway, Crossed, OnBus
<1>8. access = NoTask /\ handler = "none" /\ ulNotifiedValue = [t \in Tasks |-> 0]
      /\ stage = [t \in Tasks |-> "idle"]
  BY DEF I2CInit, NotifyInit
<1>9. StopInv
  BY <1>4, <1>8 DEF StopInv, Quiet
<1>10. FullCountMeansMoved
  BY <1>8 DEF FullCountMeansMoved
<1> QED
  BY <1>1, <1>2, <1>6, <1>7, <1>9, <1>10 DEF CountInv

LEMMA BeginCount ==
    ASSUME CountInv, NEW t \in Tasks, Begin(t)
    PROVE  CountInv'
<1>1. FrameInv /\ ControlInv /\ hw \in Controllers
  BY DEF CountInv, FrameInv
<1>2. FrameInv'
  BY <1>1, BeginFrame
<1>3. /\ handler = "none" /\ stage[t] = "idle" /\ access = NoTask
      /\ access' = t /\ task_to_notify' = t /\ irqOn' = TRUE
      /\ stage' = [stage EXCEPT ![t] = "take"] /\ count' = 0
      /\ moved' = [w |-> 0, r |-> 0] /\ stored' = 0 /\ refused' = FALSE
      /\ UNCHANGED <<notifyVars, handler, refusals, timedOut>>
  BY DEF Begin
<1>4. PICK q \in [w : Nat, r : Nat], h \in Disabled, cmds \in Seq(Commands) :
              /\ want' = q /\ q.w + q.r > 0
              /\ issued' = cmds /\ Written(q, ctr', cmds) /\ ctr'.rcnt = q.r
              /\ hw' = Loaded(h, cmds, Masks)
  BY <1>1, BeginFacts
<1>5. /\ h \in Controllers /\ h.tx = <<>> /\ h.rx = 0
      /\ h.busy \in {hw.busy, Idle} /\ h.stop \in {hw.stop, FALSE}
  BY <1>1, DisabledFacts
<1>6. /\ hw'.tx = IF h.abort THEN h.tx ELSE h.tx \o cmds
      /\ hw'.busy = h.busy /\ hw'.rx = 0 /\ hw'.stop = h.stop /\ hw'.abort = h.abort
  <2>1. PICK m : m = Masks
    OBVIOUS
  <2>2. m \in SUBSET Masks
    BY <2>1
  <2>3. hw' = Loaded(h, cmds, m)
    BY <1>4, <2>1
  <2>4. /\ Loaded(h, cmds, m).tx = IF h.abort THEN h.tx ELSE h.tx \o cmds
        /\ Loaded(h, cmds, m).busy = h.busy
        /\ Loaded(h, cmds, m).rx = h.rx
        /\ Loaded(h, cmds, m).stop = h.stop
        /\ Loaded(h, cmds, m).abort = h.abort
    BY <1>5, <2>2, PutFacts
  <2> QED
    BY <1>5, <2>3, <2>4
<1>7. ControlInv'
  BY <1>1, <1>3, I2CAssumption DEF ControlInv, notifyVars
<1>8. /\ moved'.w = 0 /\ moved'.r = 0 /\ Crossed' = 0
      /\ want'.w \in Nat /\ want'.r \in Nat
  BY <1>3, <1>4 DEF Crossed
<1>9. ReceivedInv'
  BY <1>3, <1>6, <1>8 DEF ReceivedInv
<1>10. ASSUME ~timedOut'
       PROVE  Underway' /\ StopInv'
  <2>1. StopInv
    BY <1>3, <1>10 DEF CountInv
  <2>2. hw.tx = <<>> /\ hw.busy = Idle /\ ~hw.stop
    BY <1>3, <2>1 DEF StopInv, Ended, Quiet
  <2>3. hw'.busy = Idle /\ ~hw'.stop /\ OnBus' = 0 /\ hw'.busy.kind = "none"
    <3>1. hw'.busy = Idle
      BY <1>5, <1>6, <2>2
    <3>2. h.stop = hw.stop \/ h.stop = FALSE
      BY <1>5
    <3>3. ~hw'.stop
      BY <1>6, <2>2, <3>2
    <3> QED
      BY <3>1, <3>3 DEF OnBus, Idle
  <2>4. ~hw'.abort => hw'.tx = cmds
    BY <1>5, <1>6, ConcatEmptySeq
  <2>5. hw'.abort => hw'.tx = <<>>
    BY <1>5, <1>6
  <2>6. Underway'
    BY <1>3, <1>4, <1>8, <2>3, <2>4, <2>5 DEF Underway
  <2>7. \A u \in Tasks : ulNotifiedValue[u] = 0
    <3>1. \A u \in Tasks : u # access
      BY <1>3, I2CAssumption
    <3> QED
      BY <2>1, <3>1 DEF StopInv
  <2>8. ulNotifiedValue' = ulNotifiedValue /\ stage'[t] = "take"
    BY <1>1, <1>3 DEF notifyVars, ControlInv
  <2>9. ~Ended'
    BY <1>3, <2>7, <2>8, I2CAssumption DEF Ended
  <2>10. StopInv'
    BY <2>3, <2>7, <2>8, <2>9 DEF StopInv
  <2> QED
    BY <2>6, <2>10
<1>11. FullCountMeansMoved'
  <2>1. \A u \in Tasks : stage[u] = "idle"
    BY <1>1, <1>3, I2CAssumption DEF ControlInv
  <2>2. \A u \in Tasks : stage'[u] # "counted"
    BY <1>1, <1>3, <2>1 DEF ControlInv
  <2> QED
    BY <2>2 DEF FullCountMeansMoved
<1> QED
  BY <1>2, <1>7, <1>9, <1>10, <1>11 DEF CountInv

\* Steps that leave the controller and the counts alone.
LEMMA StillUnderway ==
    ASSUME Underway, UNCHANGED <<hw, want, issued, moved, refused>>
    PROVE  Underway'
  BY DEF Underway, Crossed, OnBus

LEMMA WaitCount ==
    ASSUME CountInv, NEW t \in Tasks, Take(t) \/ Timeout(t)
    PROVE  CountInv'
<1>1. FrameInv /\ ControlInv /\ ReceivedInv
  BY DEF CountInv
<1>2. /\ handler = "none" /\ stage[t] \in {"take", "wait"}
      /\ UNCHANGED <<access, task_to_notify, want, ctr, count, irqOn, handler, hw, history,
                     ulNotifiedValue>>
      /\ stage' \in {stage, [stage EXCEPT ![t] = "wait"]}
  BY DEF Take, Timeout, TakeEnter, TakeExpires
<1>3. /\ stage' \in [Tasks -> {"idle", "take", "wait", "counted"}]
      /\ \A u \in Tasks : stage'[u] = stage[u] \/ (u = t /\ stage'[u] = "wait")
  BY <1>1, <1>2 DEF ControlInv
<1>4. ControlInv'
  BY <1>1, <1>2, <1>3 DEF ControlInv
<1>5. FrameInv' /\ ReceivedInv'
  BY <1>1, <1>2 DEF FrameInv, ReceivedInv, history
<1>6. Ended' => Ended
  BY <1>2, <1>3 DEF Ended
<1>7. ASSUME ~timedOut'
      PROVE  Underway' /\ StopInv'
  <2>1. Underway /\ StopInv
    BY <1>2, <1>7 DEF CountInv, history
  <2>2. Underway'
    BY <1>2, <2>1, StillUnderway DEF history
  <2>3. Complete' = Complete /\ Quiet' = Quiet
    BY <1>2 DEF Complete, Crossed, Quiet, history
  <2>4. \A u \in Tasks : stage'[u] = "counted" => stage[u] = "counted"
    BY <1>3
  <2>5. StopInv'
    BY <1>2, <1>6, <2>1, <2>3, <2>4 DEF StopInv
  <2> QED
    BY <2>2, <2>5
<1>8. FullCountMeansMoved'
  BY <1>2, <1>3 DEF CountInv, FullCountMeansMoved, history
<1> QED
  BY <1>4, <1>5, <1>7, <1>8 DEF CountInv

LEMMA WokenCount ==
    ASSUME CountInv, NEW t \in Tasks, Woken(t)
    PROVE  CountInv'
<1>1. FrameInv /\ ControlInv /\ ReceivedInv
  BY DEF CountInv
<1>2. /\ handler = "none" /\ stage[t] = "wait"
      /\ ulNotifiedValue' = [ulNotifiedValue EXCEPT ![t] = 0]
      /\ count' = Returned(ulNotifiedValue[t])
      /\ timedOut' = (timedOut \/ ulNotifiedValue[t] = 0)
      /\ stage' = [stage EXCEPT ![t] = "counted"]
      /\ UNCHANGED <<access, task_to_notify, want, ctr, irqOn, handler, hw,
                     issued, moved, stored, refused, refusals>>
  BY DEF Woken, TakeExit
<1>3. access = t
  BY <1>1, <1>2 DEF ControlInv
<1>4. /\ stage' \in [Tasks -> {"idle", "take", "wait", "counted"}]
      /\ \A u \in Tasks : stage'[u] = IF u = t THEN "counted" ELSE stage[u]
      /\ ulNotifiedValue' \in [Tasks -> 0..1]
      /\ \A u \in Tasks : ulNotifiedValue'[u] = IF u = t THEN 0 ELSE ulNotifiedValue[u]
  BY <1>1, <1>2 DEF ControlInv
<1>5. ControlInv'
  BY <1>1, <1>2, <1>4 DEF ControlInv
<1>6. FrameInv' /\ ReceivedInv'
  BY <1>1, <1>2 DEF FrameInv, ReceivedInv
<1>7. ASSUME ~timedOut'
      PROVE  /\ Underway' /\ StopInv'
             /\ count' = want.w + want.r => moved = want \/ (refused /\ want.r = 0)
  <2>1. Underway /\ StopInv /\ ulNotifiedValue[t] = 1
    <3>1. ~timedOut /\ ulNotifiedValue[t] # 0
      BY <1>2, <1>7
    <3>2. ulNotifiedValue[t] \in 0..1
      BY <1>1 DEF ControlInv
    <3> QED
      BY <3>1, <3>2 DEF CountInv
  <2>2. Ended /\ access # NoTask
    BY <1>3, <2>1, I2CAssumption DEF Ended
  <2>3. Quiet /\ ~hw.stop /\ hw.mask = {} /\ Complete
    BY <2>1, <2>2 DEF StopInv
  <2>4. Underway'
    BY <1>2, <2>1, StillUnderway
  <2>5. Complete' /\ Quiet'
    BY <1>2, <2>3 DEF Complete, Crossed, Quiet
  <2>6. StopInv'
    BY <1>2, <1>3, <1>4, <2>1, <2>3, <2>5 DEF StopInv
  <2>7. ASSUME count' = want.w + want.r
        PROVE  moved = want \/ (refused /\ want.r = 0)
    <3>1. /\ want.w \in Nat /\ want.r \in Nat /\ ctr.rcnt \in Nat /\ ctr.wctr \in Nat
          /\ count' = want.w + want.r - (ctr.rcnt + ctr.wctr)
      BY <1>1, <1>2, <2>1 DEF FrameInv, Written, Counters, Returned
    <3>2. ctr.rcnt = 0
      BY <2>7, <3>1
    <3>3. CASE Crossed = want.w + want.r
      BY <1>1, <2>1, <3>3, AllMoved
    <3>4. CASE refused
      BY <1>1, <2>1, <3>1, <3>2, <3>4, AllMoved
    <3> QED
      BY <2>3, <3>3, <3>4 DEF Complete
  <2> QED
    BY <2>4, <2>6, <2>7
<1>8. FullCountMeansMoved'
  <2> SUFFICES ASSUME NEW u \in Tasks, stage'[u] = "counted", count' = want.w + want.r, ~timedOut'
               PROVE  moved = want \/ (refused /\ want.r = 0)
    BY <1>2 DEF FullCountMeansMoved
  <2> QED
    BY <1>7
<1> QED
  BY <1>5, <1>6, <1>7, <1>8 DEF CountInv

LEMMA ReleaseCount ==
    ASSUME CountInv, NEW t \in Tasks, Release(t)
    PROVE  CountInv'
<1>1. FrameInv /\ ControlInv /\ ReceivedInv
  BY DEF CountInv
<1>2. /\ handler = "none" /\ stage[t] = "counted" /\ irqOn' = FALSE /\ access' = NoTask
      /\ stage' = [stage EXCEPT ![t] = "idle"]
      /\ UNCHANGED <<notifyVars, task_to_notify, want, ctr, count, handler, hw, history>>
  BY DEF Release
<1>3. access = t
  BY <1>1, <1>2 DEF ControlInv
<1>4. /\ stage' \in [Tasks -> {"idle", "take", "wait", "counted"}]
      /\ \A u \in Tasks : stage'[u] = IF u = t THEN "idle" ELSE stage[u]
  BY <1>1, <1>2 DEF ControlInv
<1>5. ControlInv'
  BY <1>1, <1>2, <1>3, <1>4, I2CAssumption DEF ControlInv, notifyVars
<1>6. FrameInv' /\ ReceivedInv'
  BY <1>1, <1>2 DEF FrameInv, ReceivedInv, history
<1>7. ASSUME ~timedOut'
      PROVE  Underway' /\ StopInv'
  <2>1. Underway /\ StopInv
    BY <1>2, <1>7 DEF CountInv, history
  <2>2. Quiet /\ ~hw.stop /\ hw.mask = {}
    BY <1>2, <1>3, <2>1 DEF StopInv, Ended
  <2>3. Underway' /\ Quiet'
    BY <1>2, <2>1, <2>2, StillUnderway DEF Quiet, history
  <2>4. \A u \in Tasks : ulNotifiedValue'[u] = 0
    BY <1>2, <1>3, <2>1 DEF StopInv, notifyVars
  <2>5. StopInv'
    BY <1>2, <2>2, <2>3, <2>4 DEF StopInv
  <2> QED
    BY <2>3, <2>5
<1>8. FullCountMeansMoved'
  BY <1>2, <1>4 DEF CountInv, FullCountMeansMoved, history
<1> QED
  BY <1>5, <1>6, <1>7, <1>8 DEF CountInv

LEMMA FetchCount ==
    ASSUME CountInv, Fetch
    PROVE  CountInv'
<1>1. FrameInv /\ ControlInv /\ ReceivedInv
  BY DEF CountInv
<1>2. UNCHANGED <<notifyVars, stage, access, task_to_notify, want, ctr, count, irqOn, handler,
                  history>>
  BY DEF Fetch
<1>3. /\ hw.busy = Idle /\ hw.tx # <<>> /\ hw' \in Controllers
      /\ hw'.busy = Head(hw.tx) /\ hw'.tx = Tail(hw.tx)
      /\ hw'.rx = hw.rx /\ hw'.stop = hw.stop /\ hw'.abort = hw.abort /\ hw'.mask = hw.mask
  BY <1>1, FetchFacts
<1>4. ControlInv' /\ (Ended' <=> Ended)
  BY <1>2, ControlKept DEF notifyVars
<1>5. FrameInv' /\ ReceivedInv'
  BY <1>1, <1>2, <1>3 DEF FrameInv, ReceivedInv, history
<1>6. ASSUME ~timedOut'
      PROVE  Underway' /\ StopInv'
  <2>1. Underway /\ StopInv
    BY <1>2, <1>6 DEF CountInv, history
  <2>2. ~hw.stop /\ ~Ended
    BY <1>3, <2>1 DEF StopInv, Quiet
  <2>3. hw.busy.kind = "none" /\ OnBus = 0 /\ ~hw.abort
    BY <1>3, <2>1 DEF OnBus, Idle, Underway
  <2>4. PICK fifo : fifo = hw.tx
    OBVIOUS
  <2>5. fifo \in Seq(Commands) /\ fifo # <<>>
    BY <1>1, <1>3, <2>4 DEF FrameInv, Controllers
  <2>6. /\ Head(fifo) = fifo[1] /\ Len(fifo) > 0 /\ Len(Tail(fifo)) = Len(fifo) - 1
        /\ \A i \in 1..Len(fifo) - 1 : Tail(fifo)[i] = fifo[i + 1]
    BY <2>5
  <2>7. /\ Crossed \in Nat /\ Len(issued) = Crossed + Len(fifo)
        /\ \A i \in 1..Len(fifo) : fifo[i] = issued[Crossed + i]
    BY <1>1, <2>1, <2>3, <2>4 DEF Underway, ReceivedInv, Crossed
  <2>8. hw'.busy = issued[Crossed + 1]
    BY <1>3, <2>4, <2>5, <2>6, <2>7
  <2>9. hw'.busy.kind # "none"
    <3>1. Crossed + 1 \in 1..Len(issued)
      BY <2>5, <2>6, <2>7
    <3> QED
      BY <1>1, <2>8, <3>1, IssuedFacts
  <2>10. OnBus' = 1 /\ Crossed' = Crossed
    BY <1>2, <2>9 DEF OnBus, Crossed, history
  <2>11. Len(issued) = Crossed + 1 + Len(hw'.tx)
    <3>1. Len(hw'.tx) = Len(fifo) - 1 /\ Len(fifo) \in Nat
      BY <1>3, <2>4, <2>5, <2>6
    <3> QED
      BY <2>7, <3>1
  <2>12. \A i \in 1..Len(hw'.tx) : hw'.tx[i] = issued[Crossed + 1 + i]
    <3> SUFFICES ASSUME NEW i \in 1..Len(hw'.tx)
                 PROVE  hw'.tx[i] = issued[Crossed + 1 + i]
      OBVIOUS
    <3>1. i \in 1..Len(fifo) - 1 /\ i + 1 \in 1..Len(fifo)
      BY <1>3, <2>4, <2>5, <2>6
    <3>2. hw'.tx[i] = fifo[i + 1]
      BY <1>3, <2>4, <2>6, <3>1
    <3>3. fifo[i + 1] = issued[Crossed + (i + 1)] /\ Crossed + (i + 1) = Crossed + 1 + i
      BY <2>7, <3>1
    <3> QED
      BY <3>2, <3>3
  <2>13. Underway'
    BY <1>2, <1>3, <2>1, <2>3, <2>8, <2>9, <2>10, <2>11, <2>12 DEF Underway, history
  <2>14. StopInv'
    BY <1>2, <1>3, <1>4, <2>1, <2>2 DEF StopInv, notifyVars
  <2> QED
    BY <2>13, <2>14
<1>7. FullCountMeansMoved'
  BY <1>2 DEF CountInv, FullCountMeansMoved, history
<1> QED
  BY <1>4, <1>5, <1>6, <1>7 DEF CountInv

LEMMA ExecuteCount ==
    ASSUME CountInv, Execute
    PROVE  CountInv'
<1>1. FrameInv /\ ControlInv /\ ReceivedInv
  BY DEF CountInv
<1>2. /\ UNCHANGED <<notifyVars, stage, access, task_to_notify, want, ctr, count, irqOn, handler,
                     issued, stored, refused, refusals, timedOut>>
      /\ moved' = [w |-> IF hw.busy.kind = "write" THEN moved.w + 1 ELSE moved.w,
                   r |-> IF hw.busy.kind = "read" THEN moved.r + 1 ELSE moved.r]
  BY DEF Execute
<1>3. /\ hw.busy # Idle /\ hw' \in Controllers
      /\ hw'.busy = Idle /\ hw'.tx = hw.tx
      /\ hw'.rx \in {hw.rx, hw.rx + 1} /\ (hw.busy.kind # "read" => hw'.rx = hw.rx)
      /\ hw'.stop <=> hw.stop \/ hw.busy.stop
      /\ hw'.abort = hw.abort /\ hw'.mask = hw.mask
  BY <1>1, ExecuteFacts
<1>4. ControlInv' /\ (Ended' <=> Ended)
  BY <1>2, ControlKept DEF notifyVars
<1>5. /\ moved.w \in Nat /\ moved.r \in Nat /\ hw.rx \in Nat /\ stored \in Nat
      /\ hw.busy.kind \in {"none", "write", "read"} /\ hw.tx \in Seq(Commands)
      /\ stored + hw.rx <= moved.r
  BY <1>1 DEF ReceivedInv, FrameInv, Controllers, Commands
<1>6. /\ moved' \in [w : Nat, r : Nat]
      /\ moved'.w = IF hw.busy.kind = "write" THEN moved.w + 1 ELSE moved.w
      /\ moved'.r = IF hw.busy.kind = "read" THEN moved.r + 1 ELSE moved.r
  BY <1>2, <1>5
<1>7. FrameInv' /\ ReceivedInv'
  <2>1. FrameInv'
    BY <1>1, <1>2, <1>3 DEF FrameInv
  <2>2. stored' + hw'.rx <= moved'.r
    BY <1>2, <1>3, <1>5, <1>6
  <2> QED
    BY <1>6, <2>1, <2>2 DEF ReceivedInv
<1>8. hw'.busy.kind = "none" /\ OnBus' = 0
  BY <1>3 DEF OnBus, Idle
<1>9. ASSUME ~timedOut'
      PROVE  Underway' /\ StopInv' /\ ~Ended
  <2>1. Underway /\ StopInv
    BY <1>2, <1>9 DEF CountInv
  <2>2. ~hw.stop /\ ~Ended
    BY <1>3, <2>1 DEF StopInv, Quiet
  <2>3. CASE hw.busy.kind = "none"
    <3>1. refused /\ hw.abort /\ hw.tx = <<>>
      BY <1>3, <2>1, <2>3 DEF Underway
    <3>2. moved' .w = moved.w /\ moved'.r = moved.r
      BY <1>6, <2>3
    <3>3. Underway'
      BY <1>2, <1>3, <1>8, <2>1, <3>1, <3>2 DEF Underway
    <3>4. StopInv'
      BY <1>2, <1>3, <1>4, <2>1, <2>2, <3>1 DEF StopInv, Quiet, Complete, notifyVars
    <3> QED
      BY <2>2, <3>3, <3>4
  <2>4. CASE hw.busy.kind # "none"
    <3>1. OnBus = 1 /\ ~hw.abort /\ ~refused
      BY <2>1, <2>4 DEF OnBus, Underway
    <3>2. /\ Len(issued) = Crossed + 1 + Len(hw.tx) /\ hw.busy = issued[Crossed + 1]
          /\ \A i \in 1..Len(hw.tx) : hw.tx[i] = issued[Crossed + 1 + i]
      BY <2>1, <3>1 DEF Underway
    <3>3. PICK m, n, w, r : m = Crossed /\ n = Len(hw.tx) /\ w = want.w /\ r = want.r
      OBVIOUS
    <3>4. m \in Nat /\ n \in Nat /\ m = moved.w + moved.r /\ (n = 0 <=> hw.tx = <<>>)
      BY <1>5, <3>3 DEF Crossed
    <3>5. /\ Len(issued) \in Nat /\ Len(issued) <= w + r /\ w \in Nat /\ r \in Nat
          /\ \A i \in 1..Len(issued) : /\ issued[i].kind = IF i <= w THEN "write" ELSE "read"
                                       /\ issued[i].stop <=> i = w + r
      BY <1>1, <3>3, IssuedFacts
    <3>6. m + 1 \in 1..Len(issued) /\ m + 1 + n <= w + r
      BY <3>2, <3>3, <3>4, <3>5
    <3>7. /\ hw.busy.kind = IF m + 1 <= w THEN "write" ELSE "read"
          /\ hw.busy.stop <=> m + 1 = w + r
      BY <3>2, <3>3, <3>5, <3>6
    <3>8. /\ moved.w <= w /\ moved.r <= r /\ (moved.r > 0 => moved.w = w)
      BY <2>1, <3>3 DEF Underway
    <3>9. /\ moved'.w <= w /\ moved'.r <= r /\ (moved'.r > 0 => moved'.w = w)
          /\ moved'.w + moved'.r = m + 1
      <4>1. CASE m + 1 <= w
        <5>1. moved'.w = moved.w + 1 /\ moved'.r = moved.r
          BY <1>6, <3>7, <4>1
        <5>2. moved.r = 0
          BY <1>5, <3>4, <3>5, <3>8, <4>1
        <5> QED
          BY <1>5, <3>4, <3>5, <3>8, <4>1, <5>1, <5>2
      <4>2. CASE m + 1 > w
        <5>1. moved'.w = moved.w /\ moved'.r = moved.r + 1
          BY <1>6, <3>4, <3>5, <3>7, <4>2
        <5>2. moved.w = w
          BY <1>5, <3>4, <3>5, <3>8, <4>2
        <5>3. PICK k : k = moved.r
          OBVIOUS
        <5>4. k \in Nat /\ m = w + k /\ m + 1 <= w + r
          BY <1>5, <3>4, <3>5, <3>6, <5>2, <5>3
        <5>5. k + 1 <= r /\ w + (k + 1) = m + 1
          BY <3>5, <5>4
        <5>6. moved'.w = w /\ moved'.r = k + 1
          BY <5>1, <5>2, <5>3
        <5> QED
          BY <3>5, <5>5, <5>6
      <4> QED
        BY <3>4, <3>5, <4>1, <4>2
    <3>10. Crossed' = m + 1
      BY <3>9 DEF Crossed
    <3>11. Underway'
      BY <1>2, <1>3, <1>8, <2>1, <3>1, <3>2, <3>3, <3>4, <3>9, <3>10 DEF Underway
    <3>12. hw'.stop => hw'.tx = <<>> /\ Crossed' = want'.w + want'.r
      BY <1>2, <1>3, <2>2, <3>3, <3>4, <3>6, <3>7, <3>10
    <3>13. StopInv'
      BY <1>2, <1>3, <1>4, <2>1, <2>2, <3>12 DEF StopInv, Quiet, Complete, notifyVars
    <3> QED
      BY <2>2, <3>11, <3>13
  <2> QED
    BY <2>3, <2>4
<1>10. FullCountMeansMoved'
  <2> SUFFICES ASSUME NEW u \in Tasks, stage'[u] = "counted", ~timedOut'
               PROVE  FALSE
    BY DEF FullCountMeansMoved
  <2>1. access = u
    BY <1>1, <1>2 DEF ControlInv
  <2> QED
    BY <1>2, <1>9, <2>1 DEF Ended
<1> QED
  BY <1>4, <1>7, <1>9, <1>10 DEF CountInv

LEMMA RefuseCount ==
    ASSUME CountInv, Refuse
    PROVE  CountInv'
<1>1. FrameInv /\ ControlInv /\ ReceivedInv
  BY DEF CountInv
<1>2. /\ UNCHANGED <<notifyVars, stage, access, task_to_notify, want, ctr, count, irqOn, handler,
                     issued, moved, stored, timedOut>>
      /\ refused' = TRUE
  BY DEF Refuse
<1>3. /\ hw.busy.kind # "none" /\ hw' \in Controllers
      /\ hw'.busy = [kind |-> "none", restart |-> FALSE, stop |-> TRUE]
      /\ hw'.tx = <<>> /\ hw'.rx = hw.rx /\ hw'.stop = hw.stop /\ hw'.abort = TRUE
      /\ hw'.mask = hw.mask
  BY <1>1, RefuseFacts
<1>4. ControlInv' /\ (Ended' <=> Ended)
  BY <1>2, ControlKept DEF notifyVars
<1>5. FrameInv' /\ ReceivedInv'
  BY <1>1, <1>2, <1>3 DEF FrameInv, ReceivedInv
<1>6. ASSUME ~timedOut'
      PROVE  Underway' /\ StopInv' /\ ~Ended
  <2>1. Underway /\ StopInv
    BY <1>2, <1>6 DEF CountInv
  <2>2. ~hw.stop /\ ~Ended
    BY <1>3, <2>1 DEF StopInv, Quiet, Idle
  <2>3. hw'.busy.kind = "none"
    BY <1>3
  <2>4. Underway'
    BY <1>2, <1>3, <2>1, <2>3 DEF Underway
  <2>5. ~hw'.stop
    BY <1>3, <2>2
  <2>6. StopInv'
    BY <1>2, <1>4, <2>1, <2>2, <2>5 DEF StopInv, notifyVars
  <2> QED
    BY <2>2, <2>4, <2>6
<1>7. FullCountMeansMoved'
  <2> SUFFICES ASSUME NEW u \in Tasks, stage'[u] = "counted", ~timedOut'
               PROVE  FALSE
    BY DEF FullCountMeansMoved
  <2>1. access = u
    BY <1>1, <1>2 DEF ControlInv
  <2> QED
    BY <1>2, <1>6, <2>1 DEF Ended
<1> QED
  BY <1>4, <1>5, <1>6, <1>7 DEF CountInv

LEMMA IsrDrainCount ==
    ASSUME CountInv, IsrDrain
    PROVE  CountInv'
<1>1. FrameInv /\ ControlInv /\ ReceivedInv
  BY DEF CountInv
<1>2. /\ handler = "none" /\ irqOn /\ intr_stat # {} /\ handler' = "fill"
      /\ UNCHANGED <<notifyVars, stage, access, task_to_notify, want, count, irqOn,
                     issued, moved, refused, refusals, timedOut>>
  BY DEF IsrDrain
<1>3. PICK n \in Nat : /\ n <= hw.rx /\ n <= ctr.rcnt
                       /\ ctr' = [ctr EXCEPT !.rcnt = ctr.rcnt - n]
                       /\ hw' = [hw EXCEPT !.rx = hw.rx - n]
                       /\ stored' = stored + n
  BY <1>1, IsrDrainFacts
<1>4. /\ hw'.tx = hw.tx /\ hw'.busy = hw.busy /\ hw'.rx = hw.rx - n /\ hw'.stop = hw.stop
      /\ hw'.abort = hw.abort /\ hw'.mask = hw.mask /\ hw.rx \in Nat /\ stored \in Nat
      /\ moved.r \in Nat
  BY <1>1, <1>3 DEF FrameInv, Controllers, ReceivedInv
<1>5. ControlInv' /\ (Ended' <=> Ended)
  BY <1>2, ControlKept DEF notifyVars
<1>6. FrameInv' /\ ReceivedInv'
  <2>1. FrameInv'
    BY <1>1, IsrDrainFrame
  <2>2. stored' + hw'.rx = stored + hw.rx
    BY <1>3, <1>4
  <2> QED
    BY <1>1, <1>2, <2>1, <2>2 DEF ReceivedInv
<1>7. hw.mask # {}
  BY <1>2 DEF intr_stat
<1>8. ASSUME ~timedOut'
      PROVE  Underway' /\ StopInv'
  <2>1. Underway /\ StopInv
    BY <1>2, <1>8 DEF CountInv
  <2>2. ~Ended
    BY <1>7, <2>1 DEF StopInv
  <2>3. Underway'
    BY <1>2, <1>4, <2>1 DEF Underway, Crossed, OnBus
  <2>4. Complete' = Complete /\ Quiet' = Quiet
    BY <1>2, <1>4 DEF Complete, Crossed, Quiet
  <2>5. StopInv'
    BY <1>2, <1>4, <1>5, <2>1, <2>2, <2>4 DEF StopInv, notifyVars
  <2> QED
    BY <2>3, <2>5
<1>9. FullCountMeansMoved'
  BY <1>2 DEF CountInv, FullCountMeansMoved
<1> QED
  BY <1>5, <1>6, <1>8, <1>9 DEF CountInv

LEMMA IsrFillCount ==
    ASSUME CountInv, IsrFill
    PROVE  CountInv'
<1>1. FrameInv /\ ControlInv /\ ReceivedInv
  BY DEF CountInv
<1>2. /\ handler = "fill" /\ handler' = "stop"
      /\ UNCHANGED <<notifyVars, stage, access, task_to_notify, want, count, irqOn,
                     moved, stored, refused, refusals, timedOut>>
  BY DEF IsrFill
<1>3. FrameInv'
  BY <1>1, IsrFillFrame
<1>4. ControlInv' /\ (Ended' <=> Ended)
  BY <1>2, ControlKept DEF notifyVars
<1>5. FullCountMeansMoved'
  BY <1>2 DEF CountInv, FullCountMeansMoved
<1>6. ASSUME ~timedOut
      PROVE  Underway /\ StopInv /\ ~Ended
  BY <1>2, <1>6 DEF CountInv, StopInv
<1>7. CASE UNCHANGED <<ctr, hw, issued>>
  <2>1. ReceivedInv'
    BY <1>1, <1>2, <1>7 DEF ReceivedInv
  <2>2. ASSUME ~timedOut'
        PROVE  Underway' /\ StopInv'
    <3>1. Underway'
      BY <1>2, <1>6, <1>7, <2>2, StillUnderway
    <3>2. Complete' = Complete /\ Quiet' = Quiet
      BY <1>2, <1>7 DEF Complete, Crossed, Quiet
    <3>3. StopInv'
      BY <1>2, <1>4, <1>6, <1>7, <2>2, <3>2 DEF StopInv, notifyVars
    <3> QED
      BY <3>1, <3>3
  <2> QED
    BY <1>3, <1>4, <1>5, <2>1, <2>2 DEF CountInv
<1>8. CASE /\ hw.tx = <<>>
           /\ \E cmds \in Seq(Commands), m \in SUBSET Masks :
                /\ Written(want, ctr', issued \o cmds) /\ ctr'.rcnt = ctr.rcnt
                /\ hw' = Loaded(hw, cmds, m)
                /\ issued' = issued \o cmds
  <2>1. PICK cmds \in Seq(Commands), m \in SUBSET Masks :
                /\ Written(want, ctr', issued \o cmds) /\ ctr'.rcnt = ctr.rcnt
                /\ hw' = Loaded(hw, cmds, m)
                /\ issued' = issued \o cmds
    BY <1>8
  <2>2. PICK h : h = hw
    OBVIOUS
  <2>3. h \in Controllers
    BY <1>1, <2>2 DEF FrameInv
  <2>4. /\ Loaded(h, cmds, m).tx = IF h.abort THEN h.tx ELSE h.tx \o cmds
        /\ Loaded(h, cmds, m).busy = h.busy /\ Loaded(h, cmds, m).rx = h.rx
        /\ Loaded(h, cmds, m).stop = h.stop /\ Loaded(h, cmds, m).abort = h.abort
    BY <2>3, PutFacts
  <2>5. /\ hw'.tx = IF hw.abort THEN <<>> ELSE <<>> \o cmds
        /\ hw'.busy = hw.busy /\ hw'.rx = hw.rx
        /\ hw'.stop = hw.stop /\ hw'.abort = hw.abort
    BY <1>8, <2>1, <2>2, <2>4
  <2>6. <<>> \o cmds = cmds
    BY ConcatEmptySeq
  <2>7. PICK s : s = issued
    OBVIOUS
  <2>8. s \in Seq(Commands) /\ Len(s) \in Nat /\ Len(cmds) \in Nat
    BY <1>1, <2>7 DEF FrameInv, Written
  <2>9. /\ Len(s \o cmds) = Len(s) + Len(cmds)
        /\ \A i \in 1..Len(s) : (s \o cmds)[i] = s[i]
        /\ \A i \in 1..Len(cmds) : (s \o cmds)[Len(s) + i] = cmds[i]
    BY <2>8
  <2>10. ReceivedInv'
    BY <1>1, <1>2, <2>5 DEF ReceivedInv
  <2>11. ASSUME ~timedOut'
         PROVE  Underway' /\ StopInv'
    <3>1. Underway /\ StopInv /\ ~Ended
      BY <1>2, <1>6, <2>11
    <3>2. OnBus' = OnBus /\ Crossed' = Crossed /\ OnBus \in {0, 1} /\ Crossed \in Nat
      BY <1>1, <1>2, <2>5 DEF OnBus, Crossed, ReceivedInv
    <3>3. CASE hw.abort
      <4>1. Underway'
        BY <1>2, <2>5, <3>1, <3>2, <3>3 DEF Underway
      <4>2. Quiet' <=> Quiet
        BY <1>8, <2>5, <3>3 DEF Quiet
      <4>3. StopInv'
        BY <1>2, <1>4, <2>5, <3>1, <3>2, <4>2 DEF StopInv, Complete, notifyVars
      <4> QED
        BY <4>1, <4>3
    <3>4. CASE ~hw.abort
      <4>1. Len(s) = Crossed + OnBus /\ hw'.tx = cmds
        BY <1>8, <2>5, <2>6, <2>7, <3>1, <3>2, <3>4 DEF Underway
      <4>2. issued' = s \o cmds /\ Len(issued') = Crossed + OnBus + Len(cmds)
        BY <2>1, <2>7, <2>9, <4>1
      <4>3. \A i \in 1..Len(cmds) : cmds[i] = issued'[Crossed + OnBus + i]
        BY <2>9, <4>1, <4>2
      <4>4. OnBus = 1 => hw.busy = issued'[Crossed + 1]
        <5> SUFFICES ASSUME OnBus = 1 PROVE hw.busy = issued'[Crossed + 1]
          OBVIOUS
        <5>1. hw.busy = s[Crossed + 1] /\ Crossed + 1 \in 1..Len(s)
          <6>1. hw.busy = s[Crossed + 1]
            BY <2>7, <3>1, <3>4 DEF Underway
          <6>2. Len(s) = Crossed + 1
            BY <4>1
          <6> QED
            BY <3>2, <6>1, <6>2
        <5> QED
          BY <2>9, <4>2, <5>1
      <4>5. Underway'
        BY <1>2, <2>5, <3>1, <3>2, <3>4, <4>1, <4>2, <4>3, <4>4 DEF Underway
      <4>6. hw'.stop => Quiet' /\ Complete'
        <5> SUFFICES ASSUME hw.stop PROVE Quiet' /\ Complete'
          BY <2>5
        <5>1. Quiet /\ Crossed = want.w + want.r
          BY <3>1, <3>4 DEF StopInv, Complete, Underway
        <5>2. Len(issued') <= want.w + want.r /\ want.w \in Nat /\ want.r \in Nat
          <6>1. PICK q, c, w : q = want /\ c = ctr' /\ w = issued'
            OBVIOUS
          <6>2. Written(q, c, w)
            BY <2>1, <6>1
          <6> QED
            BY <6>1, <6>2, WithinFrame
        <5>3. Len(cmds) = 0
          BY <2>8, <3>2, <4>2, <5>1, <5>2
        <5>4. hw'.tx = <<>>
          BY <4>1, <5>3
        <5> QED
          BY <1>2, <2>5, <3>2, <5>1, <5>4 DEF Quiet, Complete
      <4>7. StopInv'
        BY <1>2, <1>4, <3>1, <4>6 DEF StopInv, notifyVars
      <4> QED
        BY <4>5, <4>7
    <3> QED
      BY <3>3, <3>4
  <2> QED
    BY <1>3, <1>4, <1>5, <2>10, <2>11 DEF CountInv
<1> QED
  BY <1>1, <1>7, <1>8, IsrFillFacts

LEMMA IsrStopCount ==
    ASSUME CountInv, IsrStop
    PROVE  CountInv'
<1>1. FrameInv /\ ControlInv /\ ReceivedInv
  BY DEF CountInv
<1>2. /\ handler = "stop" /\ handler' = "none"
      /\ UNCHANGED <<stage, access, task_to_notify, want, ctr, count, irqOn, history>>
  BY DEF IsrStop
<1>3. access \in Tasks /\ task_to_notify = access
  BY <1>1, <1>2 DEF ControlInv
<1>4. ASSUME ~timedOut
      PROVE  Underway /\ StopInv /\ ~Ended
  BY <1>2, <1>4 DEF CountInv, StopInv
<1>5. FullCountMeansMoved'
  BY <1>2 DEF CountInv, FullCountMeansMoved, history
<1>6. CASE UNCHANGED <<hw, notifyVars>>
  <2>1. ControlInv' /\ (Ended' <=> Ended)
    BY <1>2, <1>6, ControlKept DEF notifyVars
  <2>2. FrameInv' /\ ReceivedInv'
    BY <1>1, <1>2, <1>6 DEF FrameInv, ReceivedInv, history
  <2>3. ASSUME ~timedOut'
        PROVE  Underway' /\ StopInv'
    <3>1. Underway /\ StopInv /\ ~Ended
      BY <1>2, <1>4, <2>3 DEF history
    <3>2. Underway'
      BY <1>2, <1>6, <3>1, StillUnderway DEF history
    <3>3. Complete' = Complete /\ Quiet' = Quiet
      BY <1>2, <1>6 DEF Complete, Crossed, Quiet, history
    <3>4. StopInv'
      BY <1>2, <1>6, <2>1, <3>1, <3>3 DEF StopInv, notifyVars
    <3> QED
      BY <3>2, <3>4
  <2> QED
    BY <1>5, <2>1, <2>2, <2>3 DEF CountInv
<1>7. CASE /\ hw.stop /\ "STOP_DET" \in hw.mask /\ NotifyFromISR(task_to_notify)
           /\ hw' \in Controllers /\ hw'.mask = {} /\ ~hw'.stop
           /\ hw'.tx = hw.tx /\ hw'.busy = hw.busy /\ hw'.rx = hw.rx /\ hw'.abort = hw.abort
  <2>1. ulNotifiedValue' = [ulNotifiedValue EXCEPT ![access] = 1]
    BY <1>3, <1>7 DEF NotifyFromISR
  <2>2. /\ ulNotifiedValue' \in [Tasks -> 0..1]
        /\ \A u \in Tasks : ulNotifiedValue'[u] = IF u = access THEN 1 ELSE ulNotifiedValue[u]
    BY <1>1, <1>3, <2>1 DEF ControlInv
  <2>3. ControlInv'
    BY <1>1, <1>2, <2>2 DEF ControlInv
  <2>4. FrameInv' /\ ReceivedInv'
    BY <1>1, <1>2, <1>7 DEF FrameInv, ReceivedInv, history
  <2>5. ASSUME ~timedOut'
        PROVE  Underway' /\ StopInv'
    <3>1. Underway /\ StopInv /\ ~Ended
      BY <1>2, <1>4, <2>5 DEF history
    <3>2. Quiet /\ Complete
      BY <1>7, <3>1 DEF StopInv
    <3>3. Underway'
      BY <1>2, <1>7, <3>1 DEF Underway, Crossed, OnBus, history
    <3>4. Complete' /\ Quiet'
      BY <1>2, <1>7, <3>2 DEF Complete, Crossed, Quiet, history
    <3>5. \A u \in Tasks : stage[u] # "counted"
      BY <1>1, <1>3, <3>1, I2CAssumption DEF Ended, ControlInv
    <3>6. StopInv'
      BY <1>2, <1>7, <2>2, <3>1, <3>4, <3>5 DEF StopInv
    <3> QED
      BY <3>3, <3>6
  <2> QED
    BY <1>5, <2>3, <2>4, <2>5 DEF CountInv
<1> QED
  BY <1>1, <1>6, <1>7, IsrStopFacts

LEMMA NextCount ==
    ASSUME CountInv, [I2CNext]_i2cVars
    PROVE  CountInv'
<1>1. ASSUME NEW t \in Tasks, I2CTask(t)
      PROVE  CountInv'
  BY <1>1, BeginCount, WaitCount, WokenCount, ReleaseCount DEF I2CTask, Attend
<1>2. CASE UNCHANGED i2cVars
  <2>1. FrameInv' /\ ControlInv' /\ ReceivedInv'
    BY <1>2 DEF CountInv, FrameInv, ControlInv, ReceivedInv, i2cVars, history, notifyVars
  <2>2. Complete' = Complete /\ Quiet' = Quiet /\ (Ended' <=> Ended)
    BY <1>2 DEF Complete, Crossed, Quiet, Ended, i2cVars, history, notifyVars
  <2>3. Underway => Underway'
    BY <1>2, StillUnderway DEF i2cVars, history
  <2>4. StopInv => StopInv'
    BY <1>2, <2>2 DEF StopInv, i2cVars, history, notifyVars
  <2>5. FullCountMeansMoved'
    BY <1>2 DEF CountInv, FullCountMeansMoved, i2cVars, history
  <2> QED
    BY <1>2, <2>1, <2>3, <2>4, <2>5 DEF CountInv, i2cVars, history
<1> QED
  BY <1>1, <1>2, FetchCount, ExecuteCount, RefuseCount, IsrDrainCount, IsrFillCount, IsrStopCount
  DEF I2CNext, I2CIsr

LEMMA CountsInvariant == I2CSpec => []CountInv
<1>1. CountInv /\ [I2CNext]_i2cVars => CountInv'
  BY NextCount
<1> QED
  BY <1>1, InitCount, PTL DEF I2CSpec

\* As long as no transaction has timed out, a count that equals the lengths means
\* that every byte crossed the bus (but for a write that the device refused), and
\* no transaction begins while the controller is still at work for another or has
\* a stop to report: for a FIFO of any depth, any lengths and any refusals.
THEOREM CountsAreHonest == I2CSpec => TransfersAreHonest
<1>1. CountInv => FullCountMeansMoved
  BY DEF CountInv
<1>2. ASSUME CountInv, NEW t \in Tasks, Begin(t), ~timedOut
      PROVE  hw.tx = <<>> /\ hw.busy = Idle /\ ~hw.stop
  <2>1. access = NoTask
    BY <1>2 DEF Begin
  <2> QED
    BY <1>2, <2>1 DEF CountInv, StopInv, Ended, Quiet
<1>3. CountInv =>
        ((\E t \in Tasks : Begin(t)) => timedOut \/ (hw.tx = <<>> /\ hw.busy = Idle /\ ~hw.stop))
  BY <1>2
<1> QED
  BY <1>1, <1>3, CountsInvariant, PTL DEF TransfersAreHonest, NeverCutShort

===============================================================================
