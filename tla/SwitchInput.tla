----------------------------- MODULE SwitchInput ------------------------------
(***************************************************************************)
(* From the pins to SwitchHandler's events: the interrupt handler stamps   *)
(* every edge with the time and queues it, the task handles it later and   *)
(* tells presses from bounces, and turns from the shaking of a press, by   *)
(* the stamps.  Edges come at any time, lost when the queue is full.       *)
(***************************************************************************)
EXTENDS Naturals, Sequences

CONSTANTS
    Buttons,        \* SW_0, SW_1, SW_2 and SW_ROT
    BUTTON_DEBOUNCE,
    EventQueueLength,
    MaxTime         \* bound on the time

SW_ROT == "SW_ROT"
Rotor == "ROT"

ASSUME InputAssumption ==
    /\ SW_ROT \in Buttons /\ Rotor \notin Buttons
    /\ BUTTON_DEBOUNCE \in Nat /\ EventQueueLength \in Nat \ {0} /\ MaxTime \in Nat

VARIABLES
    time_us,
    qSwitchIRQ,         \* [gpio, timeStamp, calm]; calm is history
    mPrevEventTimeMap, mPrevSW_ROT,
    lastEdge,           \* history: when the pin of a button last fell
    outcome             \* history: what became of the last event

inputVars == <<time_us, qSwitchIRQ, mPrevEventTimeMap, mPrevSW_ROT, lastEdge, outcome>>

InputInit ==
    /\ time_us = 0 /\ qSwitchIRQ = <<>>
    /\ mPrevEventTimeMap = [b \in Buttons |-> 0] /\ mPrevSW_ROT = 0
    /\ lastEdge = [b \in Buttons |-> 0]
    /\ outcome = [calm |-> FALSE, counts |-> FALSE]

TimePasses ==
    /\ time_us < MaxTime
    /\ time_us' = time_us + 1
    /\ UNCHANGED <<qSwitchIRQ, mPrevEventTimeMap, mPrevSW_ROT, lastEdge, outcome>>

\* irq_handler
IrqHandler(gpio) ==
    /\ LET pin == IF gpio = Rotor THEN SW_ROT ELSE gpio
           event == [gpio |-> gpio, timeStamp |-> time_us,
                     calm |-> time_us - lastEdge[pin] > BUTTON_DEBOUNCE]
       IN  qSwitchIRQ' = IF Len(qSwitchIRQ) < EventQueueLength
                         THEN Append(qSwitchIRQ, event) ELSE qSwitchIRQ
    /\ lastEdge' = IF gpio = Rotor THEN lastEdge ELSE [lastEdge EXCEPT ![gpio] = time_us]
    /\ UNCHANGED <<time_us, mPrevEventTimeMap, mPrevSW_ROT, outcome>>

\* Variant of Stamp: the time at which the task handles the event.
StampOnHandling(event) == time_us

\* What the task remembers of a press.
Stamp(event) == event.timeStamp

\* rot_event
RotEvent ==
    /\ qSwitchIRQ # <<>> /\ Head(qSwitchIRQ).gpio = Rotor
    /\ outcome' = [calm |-> Head(qSwitchIRQ).calm,
                   counts |-> Head(qSwitchIRQ).timeStamp - mPrevSW_ROT > BUTTON_DEBOUNCE]
    /\ qSwitchIRQ' = Tail(qSwitchIRQ)
    /\ UNCHANGED <<time_us, mPrevEventTimeMap, mPrevSW_ROT, lastEdge>>

\* button_event
ButtonEvent ==
    /\ qSwitchIRQ # <<>> /\ Head(qSwitchIRQ).gpio # Rotor
    /\ LET event == Head(qSwitchIRQ)
           counts == event.timeStamp - mPrevEventTimeMap[event.gpio] > BUTTON_DEBOUNCE
       IN  /\ outcome' = [calm |-> event.calm, counts |-> counts]
           /\ mPrevEventTimeMap' = IF counts
                 THEN [mPrevEventTimeMap EXCEPT ![event.gpio] = Stamp(event)]
                 ELSE mPrevEventTimeMap
           /\ mPrevSW_ROT' = IF counts /\ event.gpio = SW_ROT THEN Stamp(event)
                                                             ELSE mPrevSW_ROT
    /\ qSwitchIRQ' = Tail(qSwitchIRQ)
    /\ UNCHANGED <<time_us, lastEdge>>

InputNext ==
    \/ TimePasses \/ RotEvent \/ ButtonEvent
    \/ \E gpio \in Buttons \cup {Rotor} : IrqHandler(gpio)

InputSpec == InputInit /\ [][InputNext]_inputVars

-------------------------------------------------------------------------------
\* A press after a calm of the debounce time is never taken for a bounce, nor a
\* turn after one for the shaking of a press, however late the task handles it
\* and whatever it handled before.
CalmEventCounts == outcome.calm => outcome.counts
===============================================================================
