----------------------------- MODULE SwitchHandler ----------------------------
(***************************************************************************)
(* The user's input, src/src/taskers/SwitchHandler.cpp.  One action is one  *)
(* event taken from qSwitchIRQ.  A handler first changes the task's own     *)
(* variables, which nobody else sees, and then overwrites mailboxes, gives  *)
(* semaphores and queues store commands one after the other, and another    *)
(* task may run between any two of these: Display has the same priority and *)
(* is scheduled in turn, Greenhouse preempts, and a store blocks while the  *)
(* queue is full.  The action therefore leaves that sequence of operations  *)
(* in `outbox', and each of them is a step of its own.  The next event is   *)
(* handled when the outbox is empty.                                        *)
(*                                                                         *)
(* Which presses pass the debouncing is left to the environment: a press    *)
(* either counts or only resets the rotor.                                  *)
(***************************************************************************)
EXTENDS Mailboxes, CharMap

CONSTANT Chars      \* bound: the rotor only goes to these characters

ASSUME CharsAssumption == Chars \subseteq Int /\ INIT_CHAR \in Chars

VARIABLES
    hpc,                    \* "boot", "peek", then "run"
    outbox,                 \* the operations of the event still to be done
    mState, mNetworkPhase,
    mCO2TargetCurrent, mCO2TargetPending,
    mCharPending, mNetworkStrings,
    mPrevRotation

handlerVars == <<hpc, outbox, mState, mNetworkPhase, mCO2TargetCurrent,
                 mCO2TargetPending, mCharPending, mNetworkStrings,
                 mPrevRotation>>

\* The strings that fit their mailboxes.
BoundedStrings == UNION {[1..n -> Chars] : n \in 0..MAX_CREDENTIAL_STRING_LEN}

Directions == {"UNKNOWN", "ROT_CLOCKWISE", "ROT_COUNTER_CLOCKWISE"}
NoStrings == [p \in PhaseSet |-> <<>>]

\* Operations
Overwrite(box, value) == <<box, value>>
Redraw == <<"sUpdateDisplay">>
Update == <<"sUpdateGreenhouse">>
Store(command) == <<"store", command>>

HandlerInit ==
    /\ hpc = "boot"
    /\ outbox = <<>>
    /\ mState = "STATUS" /\ mNetworkPhase = "NEW_API"
    /\ mCO2TargetCurrent = 0 /\ mCO2TargetPending = 0
    /\ mCharPending = INIT_CHAR /\ mNetworkStrings = NoStrings
    /\ mPrevRotation = "UNKNOWN"

\* The same as the outcome of a reset.
HandlerReset ==
    /\ hpc' = "boot"
    /\ outbox' = <<>>
    /\ mState' = "STATUS" /\ mNetworkPhase' = "NEW_API"
    /\ mCO2TargetCurrent' = 0 /\ mCO2TargetPending' = 0
    /\ mCharPending' = INIT_CHAR /\ mNetworkStrings' = NoStrings
    /\ mPrevRotation' = "UNKNOWN"

-------------------------------------------------------------------------------
\* Operations on the queues

Pending == outbox # <<>>

OverwriteMailbox ==
    /\ Pending
    /\ Head(outbox)[1] \in MailboxNames
    /\ mail' = [mail EXCEPT ![Head(outbox)[1]] = Head(outbox)[2]]
    /\ outbox' = Tail(outbox)
    /\ UNCHANGED <<sUpdateDisplay, qStorageQueue>>

GiveDisplay ==
    /\ Pending
    /\ Head(outbox) = Redraw
    /\ sUpdateDisplay' = TRUE
    /\ outbox' = Tail(outbox)
    /\ UNCHANGED <<mail, qStorageQueue>>

GiveGreenhouse ==
    /\ Pending
    /\ Head(outbox) = Update
    /\ outbox' = Tail(outbox)
    /\ UNCHANGED queueVars

\* Storage::store with room in the queue, or made while it waits.
StoreQueued ==
    /\ Pending
    /\ Head(outbox)[1] = "store"
    /\ Len(qStorageQueue) < StorageQueueLength
    /\ qStorageQueue' = Append(qStorageQueue, Queued(Head(outbox)[2]))
    /\ outbox' = Tail(outbox)
    /\ UNCHANGED <<mail, sUpdateDisplay>>

\* Storage::store that finds the queue full for a second: the command is lost.
StoreLost ==
    /\ Pending
    /\ Head(outbox)[1] = "store"
    /\ Len(qStorageQueue) = StorageQueueLength
    /\ outbox' = Tail(outbox)
    /\ UNCHANGED queueVars

Publish ==
    /\ \/ OverwriteMailbox \/ GiveDisplay \/ GiveGreenhouse
       \/ StoreQueued \/ StoreLost
    /\ UNCHANGED <<hpc, mState, mNetworkPhase, mCO2TargetCurrent,
                   mCO2TargetPending, mCharPending, mNetworkStrings, mPrevRotation>>

-------------------------------------------------------------------------------
\* Boot

BootState ==
    /\ hpc = "boot"
    /\ mail' = [mail EXCEPT !["qState"] = mState]
    /\ hpc' = "peek"
    /\ UNCHANGED <<sUpdateDisplay, qStorageQueue, outbox,
                   mState, mNetworkPhase, mCO2TargetCurrent, mCO2TargetPending,
                   mCharPending, mNetworkStrings, mPrevRotation>>

\* Variant that keeps to its own zero.
BootTargetIgnored ==
    /\ hpc = "peek"
    /\ hpc' = "run"
    /\ UNCHANGED <<mCO2TargetCurrent, mCO2TargetPending>>
    /\ UNCHANGED <<queueVars, outbox, mState, mNetworkPhase, mCharPending,
                   mNetworkStrings, mPrevRotation>>

\* The peek with a timeout of one second finds a target, or times out.
BootTarget ==
    /\ hpc = "peek"
    /\ hpc' = "run"
    /\ IF mail["qCO2TargetCurrent"] = Empty
       THEN UNCHANGED <<mCO2TargetCurrent, mCO2TargetPending>>
       ELSE /\ mCO2TargetCurrent' = mail["qCO2TargetCurrent"]
            /\ mCO2TargetPending' = mail["qCO2TargetCurrent"]
    /\ UNCHANGED <<queueVars, outbox, mState, mNetworkPhase, mCharPending,
                   mNetworkStrings, mPrevRotation>>

-------------------------------------------------------------------------------
\* Events

Idle == hpc = "run" /\ outbox = <<>>

targetVars == <<mCO2TargetCurrent, mCO2TargetPending>>
networkVars == <<mNetworkPhase, mNetworkStrings, mCharPending>>

\* rot_event on the status screen; at either end the rotation is ignored.
TurnTarget(direction) ==
    LET next == mCO2TargetPending + IF direction = "ROT_CLOCKWISE" THEN 1 ELSE -1
    IN  /\ next \in CO2Targets
        /\ mCO2TargetPending' = next
        /\ outbox' = <<Overwrite("qCO2TargetPending", next), Redraw>>
        /\ UNCHANGED <<networkVars, mCO2TargetCurrent>>

\* rot_event on the network screen; at either end the rotation is ignored.
TurnChar(direction) ==
    LET next == IF direction = "ROT_CLOCKWISE" THEN inc_pending_char(mCharPending)
                ELSE dec_pending_char(mCharPending)
    IN  /\ next # mCharPending
        /\ next \in Chars
        /\ mCharPending' = next
        /\ outbox' = <<Overwrite("qCharPending", next), Redraw>>
        /\ UNCHANGED <<targetVars, mNetworkPhase, mNetworkStrings>>

\* rot_event: the first rotation in a direction only records the direction.
RotEvent(direction) ==
    /\ Idle
    /\ mPrevRotation' = direction
    /\ IF direction = mPrevRotation /\ direction # "UNKNOWN"
       THEN IF mState = "STATUS" THEN TurnTarget(direction) ELSE TurnChar(direction)
       ELSE UNCHANGED <<targetVars, networkVars, outbox>>
    /\ UNCHANGED <<queueVars, hpc, mState>>

\* button_event for a press that is not debounced away, and the rest of it.
Press ==
    /\ Idle
    /\ mPrevRotation' = "UNKNOWN"
    /\ UNCHANGED <<sUpdateDisplay, qStorageQueue, hpc>>

Bounce ==
    /\ Press
    /\ UNCHANGED <<mail, targetVars, networkVars, mState, outbox>>

\* Variant that resets the phase for itself only.
ToggleToStatusKeepsPhase ==
    /\ Press
    /\ mState = "NETWORK"
    /\ mState' = "STATUS"
    /\ mCharPending' = INIT_CHAR
    /\ mNetworkPhase' = "NEW_API"
    /\ outbox' = <<Overwrite("qState", "STATUS"), Redraw>>
    /\ UNCHANGED <<mail, targetVars, mNetworkStrings>>

\* state_toggle from the network screen.
ToggleToStatus ==
    /\ Press
    /\ mState = "NETWORK"
    /\ mState' = "STATUS"
    /\ mCharPending' = INIT_CHAR
    /\ mNetworkPhase' = "NEW_API"
    /\ outbox' = <<Overwrite("qNetworkPhase", "NEW_API"),
                   Overwrite("qState", "STATUS"), Redraw>>
    /\ UNCHANGED <<mail, targetVars, mNetworkStrings>>

\* Variant that announces the screen before it has emptied the strings.
ToggleToNetworkStateFirst ==
    /\ Press
    /\ mState = "STATUS"
    /\ mState' = "NETWORK"
    /\ mNetworkStrings' = NoStrings
    /\ outbox' = <<Overwrite("qState", "NETWORK")>>
                 \o [i \in 1..3 |-> Overwrite(Phases[i], <<>>)] \o <<Redraw>>
    /\ UNCHANGED <<mail, targetVars, mNetworkPhase, mCharPending>>

\* state_toggle from the status screen.
ToggleToNetwork ==
    /\ Press
    /\ mState = "STATUS"
    /\ mState' = "NETWORK"
    /\ mNetworkStrings' = NoStrings
    /\ outbox' = [i \in 1..3 |-> Overwrite(Phases[i], <<>>)]
                 \o <<Overwrite("qState", "NETWORK"), Redraw>>
    /\ UNCHANGED <<mail, targetVars, mNetworkPhase, mCharPending>>

\* Variant that asks for the redraw before the mailboxes are written.
InsertTargetRedrawFirst ==
    /\ Press
    /\ mState = "STATUS"
    /\ mCO2TargetCurrent # mCO2TargetPending
    /\ mCO2TargetCurrent' = mCO2TargetPending
    /\ outbox' = <<Redraw, Overwrite("qCO2TargetCurrent", mCO2TargetPending),
                   Overwrite("qCO2TargetPending", mCO2TargetPending),
                   Store("CO2_target"), Update>>
    /\ UNCHANGED <<mail, networkVars, mState, mCO2TargetPending>>

\* Variant that tells Storage before the mailbox is written.
InsertTargetStoreFirst ==
    /\ Press
    /\ mState = "STATUS"
    /\ mCO2TargetCurrent # mCO2TargetPending
    /\ mCO2TargetCurrent' = mCO2TargetPending
    /\ outbox' = <<Store("CO2_target"),
                   Overwrite("qCO2TargetCurrent", mCO2TargetPending),
                   Overwrite("qCO2TargetPending", mCO2TargetPending), Redraw, Update>>
    /\ UNCHANGED <<mail, networkVars, mState, mCO2TargetPending>>

\* insert on the status screen.
InsertTarget ==
    /\ Press
    /\ mState = "STATUS"
    /\ mCO2TargetCurrent # mCO2TargetPending
    /\ mCO2TargetCurrent' = mCO2TargetPending
    /\ outbox' = <<Overwrite("qCO2TargetCurrent", mCO2TargetPending),
                   Overwrite("qCO2TargetPending", mCO2TargetPending),
                   Store("CO2_target"), Redraw, Update>>
    /\ UNCHANGED <<mail, networkVars, mState, mCO2TargetPending>>

\* insert where there is nothing to insert: the target as before, or a string
\* that is full.
InsertNothing ==
    /\ Press
    /\ IF mState = "STATUS" THEN mCO2TargetCurrent = mCO2TargetPending
       ELSE Len(mNetworkStrings[mNetworkPhase]) >= MAX_CREDENTIAL_STRING_LEN
    /\ UNCHANGED <<mail, targetVars, networkVars, mState, outbox>>

\* Variant that asks for the redraw before the writes.
PublishStringRedrawFirst ==
    /\ mCharPending' = INIT_CHAR
    /\ outbox' = <<Redraw, Overwrite(mNetworkPhase, mNetworkStrings'[mNetworkPhase]),
                   Overwrite("qCharPending", INIT_CHAR)>>

\* The writes that end insert and backspace on the network screen.
PublishString ==
    /\ mCharPending' = INIT_CHAR
    /\ outbox' = <<Overwrite(mNetworkPhase, mNetworkStrings'[mNetworkPhase]),
                   Overwrite("qCharPending", INIT_CHAR), Redraw>>

\* insert on the network screen: append the pending character.
InsertChar ==
    /\ Press
    /\ mState = "NETWORK"
    /\ Len(mNetworkStrings[mNetworkPhase]) < MAX_CREDENTIAL_STRING_LEN
    /\ mNetworkStrings' = [mNetworkStrings EXCEPT
                              ![mNetworkPhase] = Append(@, mCharPending)]
    /\ PublishString
    /\ UNCHANGED <<mail, targetVars, mState, mNetworkPhase>>

NextPhase(p) == IF p = "NEW_API" THEN "NEW_SSID" ELSE "NEW_PW"
PrevPhase(p) == IF p = "NEW_SSID" THEN "NEW_API" ELSE "NEW_SSID"

\* next_phase before the last phase.
ConfirmString ==
    /\ Press
    /\ mState = "NETWORK"
    /\ mNetworkPhase # "NEW_PW"
    /\ mNetworkPhase' = NextPhase(mNetworkPhase)
    /\ outbox' = <<Store(mNetworkPhase),
                   Overwrite("qNetworkPhase", mNetworkPhase'), Redraw>>
    /\ UNCHANGED <<mail, targetVars, mState, mNetworkStrings, mCharPending>>

\* Variant that empties the mailbox of the string with its own copy.
ConfirmLastClears ==
    /\ Press
    /\ mState = "NETWORK"
    /\ mNetworkPhase = "NEW_PW"
    /\ mNetworkStrings' = NoStrings
    /\ mState' = "STATUS"
    /\ mNetworkPhase' = "NEW_API"
    /\ outbox' = <<Store("NEW_PW"), Overwrite("NEW_PW", <<>>), Overwrite("qState", "STATUS"),
                   Overwrite("qNetworkPhase", "NEW_API"), Redraw>>
    /\ UNCHANGED <<mail, targetVars, mCharPending>>

\* next_phase in the last phase: back to the status screen.
ConfirmLast ==
    /\ Press
    /\ mState = "NETWORK"
    /\ mNetworkPhase = "NEW_PW"
    /\ mNetworkStrings' = NoStrings
    /\ mState' = "STATUS"
    /\ mNetworkPhase' = "NEW_API"
    /\ outbox' = <<Store("NEW_PW"), Overwrite("qState", "STATUS"),
                   Overwrite("qNetworkPhase", "NEW_API"), Redraw>>
    /\ UNCHANGED <<mail, targetVars, mCharPending>>

\* omit_CO2_target: xQueueReceive empties the mailbox at once.
OmitTarget ==
    /\ Press
    /\ mState = "STATUS"
    /\ IF mail["qCO2TargetCurrent"] = Empty
       THEN UNCHANGED <<mail, mCO2TargetCurrent>>
       ELSE /\ mCO2TargetCurrent' = mail["qCO2TargetCurrent"]
            /\ mail' = [mail EXCEPT !["qCO2TargetCurrent"] = Empty]
    /\ outbox' = <<Redraw, Update>>
    /\ UNCHANGED <<networkVars, mState, mCO2TargetPending>>

\* backspace on the status screen.
ResetPending ==
    /\ Press
    /\ mState = "STATUS"
    /\ mCO2TargetPending' = mCO2TargetCurrent
    /\ outbox' = <<Overwrite("qCO2TargetPending", mCO2TargetCurrent), Redraw>>
    /\ UNCHANGED <<mail, networkVars, mState, mCO2TargetCurrent>>

\* backspace on the network screen: remove a character.
RemoveChar ==
    /\ Press
    /\ mState = "NETWORK"
    /\ mNetworkStrings[mNetworkPhase] # <<>>
    /\ mNetworkStrings' = [mNetworkStrings EXCEPT
                              ![mNetworkPhase] = SubSeq(@, 1, Len(@) - 1)]
    /\ PublishString
    /\ UNCHANGED <<mail, targetVars, mState, mNetworkPhase>>

\* Variant that does not ask for a redraw.
PreviousPhaseSilent ==
    /\ Press
    /\ mState = "NETWORK"
    /\ mNetworkStrings[mNetworkPhase] = <<>>
    /\ IF mNetworkPhase = "NEW_API"
       THEN UNCHANGED <<mNetworkPhase, outbox>>
       ELSE /\ mNetworkPhase' = PrevPhase(mNetworkPhase)
            /\ outbox' = <<Overwrite("qNetworkPhase", mNetworkPhase')>>
    /\ UNCHANGED <<mail, targetVars, mState, mNetworkStrings, mCharPending>>

\* backspace on an empty string: back to the previous phase, if there is one.
PreviousPhase ==
    /\ Press
    /\ mState = "NETWORK"
    /\ mNetworkStrings[mNetworkPhase] = <<>>
    /\ IF mNetworkPhase = "NEW_API"
       THEN UNCHANGED <<mNetworkPhase, outbox>>
       ELSE /\ mNetworkPhase' = PrevPhase(mNetworkPhase)
            /\ outbox' = <<Overwrite("qNetworkPhase", mNetworkPhase'), Redraw>>
    /\ UNCHANGED <<mail, targetVars, mState, mNetworkStrings, mCharPending>>

ButtonEvent == \/ Bounce \/ ToggleToStatus \/ ToggleToNetwork \/ InsertTarget
               \/ InsertNothing \/ InsertChar \/ ConfirmString \/ ConfirmLast
               \/ OmitTarget \/ ResetPending \/ RemoveChar \/ PreviousPhase

Handler == \/ BootState \/ BootTarget \/ Publish \/ ButtonEvent
           \/ \E direction \in Directions : RotEvent(direction)

===============================================================================
