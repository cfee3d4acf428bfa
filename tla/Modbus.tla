-------------------------------- MODULE Modbus --------------------------------
(***************************************************************************)
(* The Modbus RTU client: ModbusRegister and ModbusClient of               *)
(* src/src/keijo/modbus over the requests of nanomodbus.c that they use,   *)
(* reading one holding or input register and writing one register.  The    *)
(* only user is the Greenhouse task, one request at a time.                *)
(*                                                                         *)
(* The UART is a queue of received bytes here (module Uart); requests are  *)
(* short and always written.  A byte knows the frame it was sent in, its   *)
(* place there, and whether it arrived intact: a byte in the place of      *)
(* another never passes for it, and a checksum holds for no bytes but its  *)
(* own.  A device answers a request whole or in a way `Faults' names.  RTU *)
(* frames carry no transaction number; `id' is history.                    *)
(***************************************************************************)
EXTENDS Integers, Sequences

CONSTANTS
    Requests,   \* what the program asks: records of unit, fc and what, where
                \* `what' is the register read or the value written
    Faults,     \* what may become of an answer
    RxQueueSize,     \* the length of the UART's receive queue, 256
    Ids,        \* bound: requests are numbered modulo Ids
    MaxOwed     \* bound: answers under way at a time

FaultKinds == {"silent", "cut", "payload", "header", "exception", "late"}

ASSUME ModbusAssumption ==
    /\ \A r \in Requests : r.fc \in {3, 4, 6}
    /\ Faults \subseteq FaultKinds
    /\ Ids \in Nat \ {0} /\ MaxOwed \in Nat \ {0} /\ RxQueueSize \in Nat

VARIABLES
    rxQueue,         \* the receive queue
    owed,       \* answers under way: their bytes, and whether they are late
    part,         \* which part of the response is received next
    req,        \* the request, with its number
    buf,        \* nmbs->msg.buf: the bytes of the response so far
    need,       \* the length the response claims
    value,      \* the local of ModbusRegister::read; <<>> is its initial 0
    err         \* the nmbs_error of the request

modbusVars == <<rxQueue, owed, part, req, buf, need, value, err>>

NONE == "NMBS_ERROR_NONE"

Errors == {NONE, "NMBS_ERROR_TIMEOUT", "NMBS_ERROR_CRC",
           "NMBS_ERROR_INVALID_UNIT_ID", "NMBS_ERROR_INVALID_RESPONSE",
           "NMBS_EXCEPTION"}

Frames == [unit : {r.unit : r \in Requests},
           fc : {3, 4, 6} \cup {128 + 3, 128 + 4, 128 + 6},
           what : {r.what : r \in Requests}, id : 0..Ids - 1]
Bytes == [f : Frames, at : 1..8, ok : BOOLEAN]

ModbusTypeOK ==
    /\ rxQueue \in Seq(Bytes) /\ Len(rxQueue) <= RxQueueSize
    /\ owed \in Seq([bytes : Seq(Bytes), late : BOOLEAN]) /\ Len(owed) <= MaxOwed
    /\ part \in {"idle", "unit", "fc", "len", "data", "echo", "exc", "crc", "done"}
    /\ req \in Frames
    /\ buf \in Seq(Bytes) /\ value \in Seq(Bytes)
    /\ Len(buf) <= IF need = 255 THEN 260 ELSE 8
    /\ need \in {0, 2, 4, 255}
    /\ err \in Errors

ModbusInit ==
    /\ rxQueue = <<>> /\ owed = <<>>
    /\ part = "idle"
    /\ req \in Frames /\ req.id = 0
    /\ buf = <<>> /\ need = 0 /\ value = <<>> /\ err = NONE

-------------------------------------------------------------------------------
\* What arrives for a request

Size(f) == IF f.fc > 128 THEN 5 ELSE IF f.fc = 6 THEN 8 ELSE 7

Whole(f) == [i \in 1..Size(f) |-> [f |-> f, at |-> i, ok |-> TRUE]]

Damaged(f, i) == [j \in 1..Size(f) |-> [f |-> f, at |-> j, ok |-> j # i]]

Answers(f) ==
    {Whole(f)}
    \cup (IF "silent" \in Faults THEN {<<>>} ELSE {})
    \cup (IF "cut" \in Faults
          THEN {SubSeq(Whole(f), 1, n) : n \in 1..Size(f) - 1} ELSE {})
    \cup (IF "payload" \in Faults
          THEN {Damaged(f, i) : i \in 4..Size(f)} ELSE {})
    \cup (IF "header" \in Faults THEN {Damaged(f, i) : i \in 1..3} ELSE {})
    \cup (IF "exception" \in Faults
          THEN {Whole([f EXCEPT !.fc = @ + 128])} ELSE {})

\* An answer reaches the receive queue, which drops what it has no room for.
Deliver ==
    /\ owed # <<>>
    /\ LET line == rxQueue \o Head(owed).bytes
           room == IF Len(line) <= RxQueueSize THEN Len(line) ELSE RxQueueSize
       IN  rxQueue' = SubSeq(line, 1, room)
    /\ owed' = Tail(owed)
    /\ UNCHANGED <<part, req, buf, need, value, err>>

-------------------------------------------------------------------------------
\* The request

\* ModbusRegister::read and write: the request is put together and sent.
Request ==
    \E r \in Requests :
        LET f == [unit |-> r.unit, fc |-> r.fc, what |-> r.what,
                  id |-> (req.id + 1) % Ids]
        IN  /\ part = "idle"
            /\ Len(owed) < MaxOwed
            /\ \E late \in BOOLEAN, a \in Answers(f) :
                  /\ late => "late" \in Faults
                  /\ owed' = Append(owed, [bytes |-> a, late |-> late])
            /\ req' = f
            /\ part' = "unit"
            /\ buf' = <<>> /\ value' = <<>> /\ need' = 0
            /\ UNCHANGED <<rxQueue, err>>

\* How many bytes the next recv asks for.
Count == CASE part \in {"unit", "fc", "len", "exc"} -> 1
           [] part = "data" -> need
           [] part = "echo" -> 4
           [] part = "crc" -> 2

receiving == part \notin {"idle", "done"}

\* recv, called where part is `at', gets its bytes.
Recv(at) ==
    /\ part = at
    /\ Len(rxQueue) >= Count
    /\ buf' = buf \o SubSeq(rxQueue, 1, Count)
    /\ rxQueue' = SubSeq(rxQueue, Count + 1, Len(rxQueue))
    /\ UNCHANGED <<owed, req>>

\* Variant of RecvTimeout that puts back what a request cut short received.
RecvTimeoutPutsBack ==
    /\ receiving
    /\ Len(rxQueue) < Count
    /\ \A i \in 1..Len(owed) : owed[i].late
    /\ err' = "NMBS_ERROR_TIMEOUT" /\ part' = "done"
    /\ UNCHANGED <<rxQueue, owed, req, buf, need, value>>

\* Variant with the loop of uart_transport_read going on when a read of the
\* UART returned nothing.
RecvTimeoutNever ==
    /\ receiving
    /\ Len(rxQueue) < Count
    /\ \A i \in 1..Len(owed) : owed[i].late
    /\ rxQueue' = <<>> /\ buf' = buf \o rxQueue
    /\ UNCHANGED <<owed, part, req, need, value, err>>

\* It does not, for nothing more comes in time: what there is, is consumed.
RecvTimeout ==
    /\ receiving
    /\ Len(rxQueue) < Count
    /\ \A i \in 1..Len(owed) : owed[i].late
    /\ rxQueue' = <<>>
    /\ err' = "NMBS_ERROR_TIMEOUT" /\ part' = "done"
    /\ UNCHANGED <<owed, req, buf, need, value>>

Finish(error) == part' = "done" /\ err' = error

Continue(at) == part' = at /\ UNCHANGED err

Holds(byte, at) == byte.ok /\ byte.at = at

\* recv_msg_header.
RecvUnit == Recv("unit") /\ Continue("fc") /\ UNCHANGED <<need, value>>

\* recv_res_header: unit and function code against the request's.
RecvFc ==
    /\ Recv("fc")
    /\ LET unit == buf'[1]
           fc == buf'[2]
       IN  IF ~(Holds(unit, 1) /\ unit.f.unit = req.unit)
           THEN Finish("NMBS_ERROR_INVALID_UNIT_ID")
           ELSE IF Holds(fc, 2) /\ fc.f.fc = req.fc
           THEN Continue(IF req.fc = 6 THEN "echo" ELSE "len")
           ELSE IF Holds(fc, 2) /\ fc.f.fc - 128 = req.fc THEN Continue("exc")
           ELSE Finish("NMBS_ERROR_INVALID_RESPONSE")
    /\ UNCHANGED <<need, value>>

\* recv_read_registers_res: a length that is not intact is any other.
RecvLen ==
    /\ Recv("len")
    /\ need' \in IF Holds(buf'[3], 3) THEN {2} ELSE {0, 4, 255}
    /\ Continue("data")
    /\ UNCHANGED value

\* The register goes to the caller before the checksum is known.
RecvData ==
    /\ Recv("data")
    /\ value' = SubSeq(rxQueue, 1, need)
    /\ Continue("crc")
    /\ UNCHANGED need

\* recv_write_single_register_res: address and value.
RecvEcho == Recv("echo") /\ Continue("crc") /\ UNCHANGED <<need, value>>

\* The code of an exception.
RecvExc == Recv("exc") /\ Continue("crc") /\ UNCHANGED <<need, value>>

\* The bytes received are one frame, intact.
Intact(bytes) == bytes = Whole(bytes[1].f)

\* Variant of RecvCrc that ignores the checksum.
RecvCrcUnchecked ==
    /\ Recv("crc")
    /\ Finish(NONE)
    /\ UNCHANGED <<need, value>>

\* recv_msg_footer, and the checks that follow it in each kind of response.
RecvCrc ==
    /\ Recv("crc")
    /\ LET f == buf'[1].f
       IN  Finish(IF ~Intact(buf') THEN "NMBS_ERROR_CRC"
                  ELSE IF f.fc > 128 THEN "NMBS_EXCEPTION"
                  ELSE IF f.fc = 6 /\ f.what # req.what
                  THEN "NMBS_ERROR_INVALID_RESPONSE"
                  ELSE NONE)
    /\ UNCHANGED <<need, value>>

\* ModbusRegister returns the value, and drops the error.
Return ==
    /\ part = "done"
    /\ part' = "idle"
    /\ UNCHANGED <<rxQueue, owed, req, buf, need, value, err>>

Client == \/ RecvUnit \/ RecvFc \/ RecvLen \/ RecvData \/ RecvEcho \/ RecvExc
          \/ RecvCrc \/ RecvTimeout \/ Return

ModbusNext == Request \/ Client \/ Deliver

ModbusSpec == ModbusInit /\ [][ModbusNext]_modbusVars

-------------------------------------------------------------------------------
\* A request that succeeds got the answer to itself, every byte of it intact:
\* an earlier answer is never taken for it (nanomodbus.c:393-433, 490-520).
AnswerBelongs ==
    part = "done" /\ err = NONE
        => \A i \in 1..Len(buf) : buf[i].ok /\ buf[i].f.id = req.id

\* A request leaves nothing behind that the next would take for its answer,
\* whatever became of its own: nothing flushes the queue between the two.
LineClean == part = "idle" => rxQueue = <<>> /\ owed = <<>>

\* Every request returns to the control loop, also one whose answer is cut
\* short (ModbusClient.cpp:50-54).
Returns == receiving ~> part = "idle"

-------------------------------------------------------------------------------
\* "Send a FC 03 (0x03) Read Holding Registers request ... NMBS_ERROR_NONE if
\* successful" (nanomodbus.h:317-324): a request that succeeds has read the
\* register it asked for.
ReadsWhatItAsked ==
    part = "done" /\ err = NONE /\ req.fc = 3 => buf[1].f.what = req.what
===============================================================================
