-------------------------------- MODULE IPStack --------------------------------
(***************************************************************************)
(* IPStack.cpp: a TCP client over lwIP, whose callbacks run in lwIP's own  *)
(* task and preempt the task that reads.  What is received is kept in a    *)
(* ring, and dropped when that is full; callback and reader share its    *)
(* count without a lock.                                                   *)
(***************************************************************************)
EXTENDS Integers, SequencesExt

CONSTANTS
    BUF_SIZE,
    Segments,       \* the sizes of what lwIP hands over
    ReadLengths,    \* the lengths that read is called with
    Alphabet        \* bytes are numbered modulo this

\* What the types of IPStack.cpp say of them.
IPStackParameters ==
    /\ BUF_SIZE \in Nat \ {0} /\ Alphabet \in Nat \ {0}
    /\ Segments \subseteq Nat /\ ReadLengths \subseteq Nat

VARIABLES
    tcp_pcb,        \* "none", "connecting", "connected"; "freed", by lwIP, after an error
    ring,           \* buffer
    count, wr, rd,
    reading,        \* the call of read: [at, len, first_copy, bytes_to_copy, loaded]
    got,            \* what it has copied
    sent,           \* history: how many bytes the server has sent
    kept,           \* history: what is in the ring, or being read, in the order it came
    torn            \* history: an addition of the callback was overwritten

ringVars == <<ring, count, wr, rd>>
netVars == <<tcp_pcb, ringVars, reading, got, sent, kept, torn>>

NotReading == [at |-> "idle", len |-> 0, first_copy |-> 0, bytes_to_copy |-> 0, loaded |-> 0]

IPStackInit ==
    /\ tcp_pcb = "none"
    /\ ring = [i \in 0..(BUF_SIZE - 1) |-> 0] /\ count = 0 /\ wr = 0 /\ rd = 0
    /\ reading = NotReading /\ got = <<>>
    /\ sent = 0 /\ kept = <<>> /\ torn = FALSE

-------------------------------------------------------------------------------
SmallerOf(a, b) == IF a < b THEN a ELSE b

\* The next n bytes of the server.
NewBytes(n) == [i \in 1..n |-> (sent + i) % Alphabet]

\* pbuf_copy_partial: n bytes of a segment, from its offset, to a place in the buffer.
CopiedIn(b, at, bytes, offset, n) ==
    [i \in DOMAIN b |-> IF i >= at /\ i < at + n THEN bytes[offset + i - at + 1] ELSE b[i]]

\* Variant of FirstCopy that forgets the write index.
FirstCopyAll(n) == IF wr + n > BUF_SIZE THEN BUF_SIZE ELSE 0

\* The part that is copied to the end of the buffer before the rest wraps around.
FirstCopy(n) == IF wr + n > BUF_SIZE THEN BUF_SIZE - wr ELSE 0

\* Variant of Room that counts the room between the indices.
RoomBetween == IF rd > wr THEN rd - wr ELSE BUF_SIZE - wr + rd

Room == BUF_SIZE - count

\* tcp_client_recv, with a segment of n bytes.
Receive(n) ==
    LET bytes == NewBytes(n)
        accepted == SmallerOf(n, Room)
        first == FirstCopy(accepted)
        begin == IF first > 0 THEN 0 ELSE wr
        part == CopiedIn(ring, wr, bytes, 0, first)
    IN  /\ tcp_pcb = "connected"
        /\ ring' = CopiedIn(part, begin, bytes, first, accepted - first)
        /\ wr' = (begin + accepted - first) % BUF_SIZE
        /\ count' = count + accepted
        /\ sent' = (sent + n) % Alphabet
        /\ torn' = (torn \/ (accepted > 0 /\ reading.at \in {"subtract first", "subtract rest"}))
        /\ kept' = IF torn' THEN <<>> ELSE kept \o SubSeq(bytes, 1, accepted)
        /\ UNCHANGED <<tcp_pcb, rd, reading, got>>

\* connect, without its errors, and tcp_client_connected.
Connect ==
    /\ reading.at = "idle"
    /\ tcp_pcb = "none" /\ tcp_pcb' = "connecting"
    /\ UNCHANGED <<ringVars, reading, got, sent, kept, torn>>

Connected ==
    /\ tcp_pcb = "connecting" /\ tcp_pcb' = "connected"
    /\ UNCHANGED <<ringVars, reading, got, sent, kept, torn>>

\* tcp_client_err: it changes nothing, lwIP has freed the connection.
Failed ==
    /\ tcp_pcb \in {"connecting", "connected"} /\ tcp_pcb' = "freed"
    /\ UNCHANGED <<ringVars, reading, got, sent, kept, torn>>

\* disconnect: what is in the buffer stays there.  (What it does to a connection
\* that lwIP has freed is undefined, and left out.)
Disconnect ==
    /\ reading.at = "idle"
    /\ tcp_pcb \in {"connecting", "connected"} /\ tcp_pcb' = "none"
    /\ UNCHANGED <<ringVars, reading, got, sent, kept, torn>>

-------------------------------------------------------------------------------
\* read: the wait ends with enough bytes, or with its time.
BeginRead(len) ==
    /\ reading.at = "idle"
    /\ reading' = [NotReading EXCEPT !.at = "waiting", !.len = len]
    /\ got' = <<>>
    /\ UNCHANGED <<tcp_pcb, ringVars, sent, kept, torn>>

EndWait ==
    /\ reading.at = "waiting"
    /\ reading' = LET n == SmallerOf(count, reading.len)
                     first == IF rd + n > BUF_SIZE THEN BUF_SIZE - rd ELSE 0
                 IN  [reading EXCEPT !.at = IF n = 0 THEN "idle"
                                           ELSE IF first > 0 THEN "first" ELSE "rest",
                                    !.bytes_to_copy = n, !.first_copy = first]
    /\ UNCHANGED <<tcp_pcb, ringVars, got, sent, kept, torn>>

CopiedOut(at, n) == [i \in 1..n |-> ring[at + i - 1]]

\* The part up to the end of the buffer; count is loaded to be reduced.
ReadFirst ==
    /\ reading.at = "first"
    /\ got' = CopiedOut(rd, reading.first_copy)
    /\ reading' = [reading EXCEPT !.at = "subtract first", !.loaded = count,
                                !.bytes_to_copy = @ - reading.first_copy]
    /\ UNCHANGED <<tcp_pcb, ringVars, sent, kept, torn>>

SubtractFirst ==
    /\ reading.at = "subtract first"
    /\ count' = reading.loaded - reading.first_copy
    /\ reading' = [reading EXCEPT !.at = "rest"]
    /\ UNCHANGED <<tcp_pcb, ring, wr, rd, got, sent, kept, torn>>

\* The rest, and the read index.
ReadRest ==
    LET from == IF reading.first_copy > 0 THEN 0 ELSE rd
    IN  /\ reading.at = "rest"
        /\ got' = got \o CopiedOut(from, reading.bytes_to_copy)
        /\ rd' = (from + reading.bytes_to_copy) % BUF_SIZE
        /\ reading' = [reading EXCEPT !.at = "subtract rest", !.loaded = count]
        /\ UNCHANGED <<tcp_pcb, ring, count, wr, sent, kept, torn>>

SubtractRest ==
    /\ reading.at = "subtract rest"
    /\ count' = reading.loaded - reading.bytes_to_copy
    /\ reading' = [reading EXCEPT !.at = "idle"]
    /\ kept' = SubSeq(kept, Len(got) + 1, Len(kept))
    /\ UNCHANGED <<tcp_pcb, ring, wr, rd, got, sent, torn>>

IPStackNext ==
    \/ \E n \in Segments : Receive(n)
    \/ Connect \/ Connected \/ Failed \/ Disconnect
    \/ \E len \in ReadLengths : BeginRead(len)
    \/ EndWait \/ ReadFirst \/ SubtractFirst \/ ReadRest \/ SubtractRest

IPStackSpec == IPStackInit /\ [][IPStackNext]_netVars

-------------------------------------------------------------------------------
\* What the indices and the count say is in the buffer.
Unread == [i \in 1..count |-> ring[(rd + i - 1) % BUF_SIZE]]

\* Whatever the sizes and wherever they wrap around, every read returns the
\* oldest bytes that were kept, in order, also while more come in: as long as
\* none came between the load of count and its store, whose length would be
\* lost.  Nothing is ever taken for more than the buffer holds.
StreamIsWhole ==
    /\ count \in 0..BUF_SIZE /\ rd \in DOMAIN ring /\ wr \in DOMAIN ring
    /\ ~torn =>
          /\ reading.at \in {"idle", "waiting"} => Unread = kept
          /\ reading.at \in {"subtract first", "rest", "subtract rest"} => IsPrefix(got, kept)
===============================================================================
