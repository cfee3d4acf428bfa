----------------------------- MODULE StreamBuffer -----------------------------
(***************************************************************************)
(* A stream or message buffer of the kernel, stream_buffer.c: a ring that  *)
(* one writer and one reader, tasks or interrupts, use without a lock.     *)
(* Each moves an index of its own, after the bytes are copied, and wakes   *)
(* the other by a task notification.  A step is what happens between two   *)
(* points where the one may see what the other did.                        *)
(***************************************************************************)
EXTENDS Integers, Sequences

CONSTANTS
    xLength,        \* the bytes of the ring: one more than it holds
    LengthBytes,    \* sbBYTES_TO_STORE_MESSAGE_LENGTH
    SendCalls,      \* the calls of the writer: [length, waits]
    ReceiveCalls,   \* and of the reader: [room, waits]
    TriggerLevels,
    Alphabet        \* bytes are numbered modulo this

\* What the kernel asserts, or types say, of the parameters.
StreamParameters ==
    /\ LengthBytes \in Nat \ {0} /\ xLength \in Nat \ 0..1
    /\ SendCalls \subseteq [length : Nat, waits : BOOLEAN]
    /\ ReceiveCalls \subseteq [room : Nat, waits : BOOLEAN]
    /\ TriggerLevels \subseteq Nat
    /\ Alphabet \in Nat \ {0}

VARIABLES
    isMessageBuffer,    \* the flag of ucFlags
    pucBuffer, xHead, xTail,
    xTriggerLevelBytes,
    waitingTask,        \* whether xTaskWaitingToSend, xTaskWaitingToReceive are set
    notified,           \* ucNotifyState of the two tasks
    at,                 \* where each of them is in its call
    sending,            \* the locals of the one, [length, xSpace, xNextHead]
    receiving,          \* and of the other, [room, waits, xBytesAvailable, xNextTail]
    pvRxData,           \* what was read
    unread,             \* history: what was written and not yet read, as stored
    nextByte            \* history: the number of the next byte

ringVars == <<isMessageBuffer, pucBuffer, xHead, xTail, xTriggerLevelBytes>>
streamVars == <<ringVars, waitingTask, notified, at, sending, receiving, pvRxData,
                unread, nextByte>>

Ends == {"send", "receive"}

NotSending == [length |-> 0, xSpace |-> 0, xNextHead |-> 0]
NotReceiving == [room |-> 0, waits |-> FALSE, xBytesAvailable |-> 0, xNextTail |-> 0]

StreamInit ==
    /\ isMessageBuffer \in BOOLEAN
    /\ pucBuffer = [i \in 0..(xLength - 1) |-> 0] /\ xHead = 0 /\ xTail = 0
    /\ xTriggerLevelBytes = 1
    /\ waitingTask = [e \in Ends |-> FALSE]
    /\ notified = [e \in Ends |-> "NOT_WAITING"]
    /\ at = [e \in Ends |-> "idle"]
    /\ sending = NotSending /\ receiving = NotReceiving /\ pvRxData = <<>>
    /\ unread = <<>> /\ nextByte = 0

-------------------------------------------------------------------------------
Lesser(m, n) == IF m < n THEN m ELSE n

\* An index that moves n bytes on.
Moved(index, n) == (index + n) % xLength

\* prvBytesInBuffer
BytesInBuffer == (xLength + xHead - xTail) % xLength

\* Variant of SpacesAvailable that counts the byte that stays free.
SpacesWithAll == xLength - BytesInBuffer

\* xStreamBufferSpacesAvailable
SpacesAvailable == (xLength + xTail - xHead - 1) % xLength

\* The bytes in front of a message.
Overhead == IF isMessageBuffer THEN LengthBytes ELSE 0

\* What a sender waits for: all of a message, of a stream at most what fits.
RequiredSpace(n) == IF isMessageBuffer THEN n + Overhead ELSE Lesser(n, xLength - 1)

\* prvWriteMessageToBuffer: how many bytes of n are written.
Written(n, xSpace) ==
    IF isMessageBuffer THEN IF xSpace >= n + Overhead THEN n ELSE 0
    ELSE Lesser(n, xSpace)

\* n bytes as they are stored: behind their number, if they are a message.
NewBytes(n) == [i \in 1..n |-> (nextByte + i) % Alphabet]
Stored(n) ==
    (IF isMessageBuffer THEN [i \in 1..LengthBytes |-> IF i = 1 THEN n ELSE 0] ELSE <<>>)
        \o NewBytes(n)

\* prvWriteBytesToBuffer and prvReadBytesFromBuffer: up to the end of the ring,
\* and the rest at its start.
WriteBytes(bytes, index) ==
    [i \in DOMAIN pucBuffer |->
        LET k == (xLength + i - index) % xLength
        IN  IF k < Len(bytes) THEN bytes[k + 1] ELSE pucBuffer[i]]
ReadBytes(n, index) == [i \in 1..n |-> pucBuffer[Moved(index, i - 1)]]

\* prvReadMessageFromBuffer: how many bytes are read; none of a message that is
\* longer than the room for it.
Readable(room, xBytesAvailable) ==
    IF isMessageBuffer
    THEN LET n == ReadBytes(LengthBytes, xTail)[1]
         IN  IF n > room THEN 0 ELSE Lesser(n, xBytesAvailable - LengthBytes)
    ELSE Lesser(room, xBytesAvailable)

\* sbSEND_COMPLETED and sbRECEIVE_COMPLETED: the other is woken if it waits.
Wake(e) ==
    /\ notified' = IF waitingTask[e] THEN [notified EXCEPT ![e] = "RECEIVED"] ELSE notified
    /\ waitingTask' = [waitingTask EXCEPT ![e] = FALSE]

\* Variant of Triggered that waits for more than the level.
TriggeredAbove(bytes) == bytes > xTriggerLevelBytes

\* Whether the reader is to be woken.
Triggered(bytes) == bytes >= xTriggerLevelBytes

To(e, place) == at' = [at EXCEPT ![e] = place]

-------------------------------------------------------------------------------
\* What both ends do to wait: xTaskNotifyStateClear and the handle, in one
\* critical section, then xTaskNotifyWait.
Register(e) ==
    /\ notified' = IF notified[e] = "RECEIVED" THEN [notified EXCEPT ![e] = "NOT_WAITING"]
                   ELSE notified
    /\ waitingTask' = [waitingTask EXCEPT ![e] = TRUE]

Block(e) ==
    /\ at[e] = "block"
    /\ IF notified[e] = "RECEIVED"
       THEN To(e, "awake") /\ UNCHANGED notified
       ELSE To(e, "asleep") /\ notified' = [notified EXCEPT ![e] = "WAITING"]
    /\ UNCHANGED <<ringVars, waitingTask, sending, receiving, pvRxData, unread, nextByte>>

TimeIsUp(e) ==
    /\ at[e] = "asleep" /\ notified[e] = "WAITING" /\ To(e, "awake")
    /\ UNCHANGED <<ringVars, waitingTask, notified, sending, receiving, pvRxData, unread, nextByte>>

Awake(e) ==
    /\ \/ at[e] = "awake"
       \/ at[e] = "asleep" /\ notified[e] = "RECEIVED"
    /\ notified' = [notified EXCEPT ![e] = "NOT_WAITING"]
    /\ To(e, "woken")
    /\ UNCHANGED <<ringVars, waitingTask, sending, receiving, pvRxData, unread, nextByte>>

-------------------------------------------------------------------------------
\* xStreamBufferSend: who waits looks for space first, unless a message could
\* never fit.
BeginSend(c) ==
    /\ at["send"] = "idle"
    /\ sending' = [NotSending EXCEPT !.length = c.length]
    /\ To("send", IF c.waits /\ RequiredSpace(c.length) < xLength THEN "look" ELSE "write")
    /\ UNCHANGED <<ringVars, waitingTask, notified, receiving, pvRxData, unread, nextByte>>

LookForSpace ==
    /\ at["send"] = "look"
    /\ sending' = [sending EXCEPT !.xSpace = SpacesAvailable]
    /\ IF SpacesAvailable < RequiredSpace(sending.length)
       THEN Register("send") /\ To("send", "block")
       ELSE UNCHANGED <<waitingTask, notified>> /\ To("send", "write")
    /\ UNCHANGED <<ringVars, receiving, pvRxData, unread, nextByte>>

\* Woken or late, the sender looks again until xTaskCheckForTimeOut ends it.
SenderGoesOn ==
    /\ at["send"] = "woken"
    /\ waitingTask' = [waitingTask EXCEPT !["send"] = FALSE]
    /\ \E place \in {"look", "write"} : To("send", place)
    /\ UNCHANGED <<ringVars, notified, sending, receiving, pvRxData, unread, nextByte>>

\* The bytes are copied behind xHead, where the reader does not look yet; the
\* space may be what it was before the wait.
Write ==
    LET n == Written(sending.length, IF sending.xSpace = 0 THEN SpacesAvailable
                                     ELSE sending.xSpace)
    IN  /\ at["send"] = "write"
        /\ IF n = 0
           THEN /\ sending' = NotSending /\ To("send", "idle")
                /\ UNCHANGED pucBuffer
           ELSE /\ pucBuffer' = WriteBytes(Stored(n), xHead)
                /\ sending' = [sending EXCEPT !.length = n, !.xNextHead = Moved(xHead, Overhead + n)]
                /\ To("send", "publish")
        /\ UNCHANGED <<isMessageBuffer, xHead, xTail, xTriggerLevelBytes, waitingTask,
                       notified, receiving, pvRxData, unread, nextByte>>

Publish ==
    /\ at["send"] = "publish"
    /\ xHead' = sending.xNextHead
    /\ unread' = unread \o Stored(sending.length)
    /\ nextByte' = (nextByte + sending.length) % Alphabet
    /\ sending' = NotSending /\ To("send", "published")
    /\ UNCHANGED <<isMessageBuffer, pucBuffer, xTail, xTriggerLevelBytes, waitingTask,
                   notified, receiving, pvRxData>>

CheckTrigger ==
    /\ at["send"] = "published"
    /\ To("send", IF Triggered(BytesInBuffer) THEN "complete" ELSE "idle")
    /\ UNCHANGED <<ringVars, waitingTask, notified, sending, receiving, pvRxData, unread, nextByte>>

CompleteSend ==
    /\ at["send"] = "complete"
    /\ Wake("receive") /\ To("send", "idle")
    /\ UNCHANGED <<ringVars, sending, receiving, pvRxData, unread, nextByte>>

\* xStreamBufferSendFromISR, while no task sends.
StreamSendFromISR(length) ==
    LET n == Written(length, SpacesAvailable)
    IN  /\ at["send"] = "idle" /\ n > 0
        /\ pucBuffer' = WriteBytes(Stored(n), xHead)
        /\ xHead' = Moved(xHead, Overhead + n)
        /\ unread' = unread \o Stored(n)
        /\ nextByte' = (nextByte + n) % Alphabet
        /\ IF Triggered(BytesInBuffer + Overhead + n) THEN Wake("receive")
           ELSE UNCHANGED <<waitingTask, notified>>
        /\ UNCHANGED <<isMessageBuffer, xTail, xTriggerLevelBytes, at, sending, receiving, pvRxData>>

-------------------------------------------------------------------------------
\* xStreamBufferReceive
BeginReceive(c) ==
    /\ at["receive"] = "idle"
    /\ receiving' = [NotReceiving EXCEPT !.room = c.room, !.waits = c.waits]
    /\ To("receive", "look")
    /\ UNCHANGED <<ringVars, waitingTask, notified, sending, pvRxData, unread, nextByte>>

LookForBytes ==
    /\ at["receive"] = "look"
    /\ receiving' = [receiving EXCEPT !.xBytesAvailable = BytesInBuffer]
    /\ IF receiving.waits /\ BytesInBuffer <= Overhead
       THEN Register("receive") /\ To("receive", "block")
       ELSE UNCHANGED <<waitingTask, notified>> /\ To("receive", "read")
    /\ UNCHANGED <<ringVars, sending, pvRxData, unread, nextByte>>

\* Woken or late, the reader takes what there is.
ReaderGoesOn ==
    /\ at["receive"] = "woken"
    /\ waitingTask' = [waitingTask EXCEPT !["receive"] = FALSE]
    /\ receiving' = [receiving EXCEPT !.xBytesAvailable = BytesInBuffer]
    /\ To("receive", "read")
    /\ UNCHANGED <<ringVars, notified, sending, pvRxData, unread, nextByte>>

Read ==
    LET n == IF receiving.xBytesAvailable > Overhead
             THEN Readable(receiving.room, receiving.xBytesAvailable) ELSE 0
    IN  /\ at["receive"] = "read"
        /\ IF n = 0
           THEN /\ receiving' = NotReceiving /\ To("receive", "idle")
                /\ UNCHANGED pvRxData
           ELSE /\ pvRxData' = ReadBytes(n, Moved(xTail, Overhead))
                /\ receiving' = [receiving EXCEPT !.xNextTail = Moved(xTail, Overhead + n)]
                /\ To("receive", "consume")
        /\ UNCHANGED <<ringVars, waitingTask, notified, sending, unread, nextByte>>

Consume ==
    /\ at["receive"] = "consume"
    /\ xTail' = receiving.xNextTail
    /\ unread' = SubSeq(unread, Overhead + Len(pvRxData) + 1, Len(unread))
    /\ receiving' = NotReceiving /\ pvRxData' = <<>> /\ To("receive", "complete")
    /\ UNCHANGED <<isMessageBuffer, pucBuffer, xHead, xTriggerLevelBytes, waitingTask,
                   notified, sending, nextByte>>

CompleteReceive ==
    /\ at["receive"] = "complete"
    /\ Wake("send") /\ To("receive", "idle")
    /\ UNCHANGED <<ringVars, sending, receiving, pvRxData, unread, nextByte>>

\* xStreamBufferReceiveFromISR, while no task receives.
StreamReceiveFromISR(room) ==
    /\ at["receive"] = "idle" /\ BytesInBuffer > Overhead
    /\ LET n == Readable(room, BytesInBuffer)
       IN  /\ n > 0
           /\ xTail' = Moved(xTail, Overhead + n)
           /\ unread' = SubSeq(unread, Overhead + n + 1, Len(unread))
    /\ Wake("send")
    /\ UNCHANGED <<isMessageBuffer, pucBuffer, xHead, xTriggerLevelBytes, at, sending,
                   receiving, pvRxData, nextByte>>

\* xStreamBufferReset by the reader: the kernel sees to it that nobody waits, and
\* the callers that nobody is about to move the head.
Reset ==
    /\ at["receive"] = "idle" /\ at["send"] # "publish"
    /\ \A e \in Ends : ~waitingTask[e]
    /\ xHead' = 0 /\ xTail' = 0 /\ unread' = <<>>
    /\ UNCHANGED <<isMessageBuffer, pucBuffer, xTriggerLevelBytes, waitingTask, notified, at,
                   sending, receiving, pvRxData, nextByte>>

\* xStreamBufferSetTriggerLevel by the reader: 0 stands for 1.
SetTriggerLevel(level) ==
    /\ at["receive"] = "idle" /\ level < xLength /\ ~isMessageBuffer
    /\ xTriggerLevelBytes' = IF level = 0 THEN 1 ELSE level
    /\ UNCHANGED <<isMessageBuffer, pucBuffer, xHead, xTail, waitingTask, notified, at,
                   sending, receiving, pvRxData, unread, nextByte>>

StreamNext ==
    \/ \E c \in SendCalls : BeginSend(c) \/ StreamSendFromISR(c.length)
    \/ LookForSpace \/ SenderGoesOn \/ Write \/ Publish \/ CheckTrigger \/ CompleteSend
    \/ \E c \in ReceiveCalls : BeginReceive(c) \/ StreamReceiveFromISR(c.room)
    \/ LookForBytes \/ ReaderGoesOn \/ Read \/ Consume \/ CompleteReceive
    \/ \E e \in Ends : Block(e) \/ TimeIsUp(e) \/ Awake(e)
    \/ Reset
    \/ \E level \in TriggerLevels : SetTriggerLevel(level)

StreamSpec == StreamInit /\ [][StreamNext]_streamVars

-------------------------------------------------------------------------------
\* The ring holds what was written, byte for byte, while the writer copies more
\* into it, and a read returns the oldest bytes, or one whole message.
StreamIsWhole ==
    /\ ReadBytes(BytesInBuffer, xTail) = unread
    /\ at["receive"] = "consume" =>
          /\ pvRxData = SubSeq(unread, Overhead + 1, Overhead + Len(pvRxData))
          /\ isMessageBuffer => Len(pvRxData) = unread[1]

\* Neither end is left asleep, or about to sleep, though what it waits for is
\* there and the other has done what it had to do.
Sleeps(e) == at[e] \in {"block", "asleep"} /\ notified[e] # "RECEIVED"
NobodySleepsInVain ==
    /\ Sleeps("receive") /\ at["send"] \notin {"published", "complete"}
          => BytesInBuffer < xTriggerLevelBytes
    /\ Sleeps("send") /\ at["receive"] # "complete"
          => SpacesAvailable < RequiredSpace(sending.length)
===============================================================================
