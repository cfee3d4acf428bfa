----------------------------- MODULE UserInterface ----------------------------
(***************************************************************************)
(* SwitchHandler and Display side by side.  They have the same priority, so  *)
(* any step of one may come between any two of the other.  Greenhouse asks   *)
(* for redraws of its own at any time and Storage receives the commands;     *)
(* Storage has already put what it found in the EEPROM into the mailboxes    *)
(* (Persistence has the race in which it has not).                           *)
(***************************************************************************)
EXTENDS SwitchHandler, Display

vars == <<queueVars, handlerVars, displayVars>>

Strings == {s \in [1..1 -> Chars] : MAX_CREDENTIAL_STRING_LEN >= 1}

Init ==
    /\ \E target \in CO2Targets \cup {Empty}, stored \in Strings \cup {Empty} :
          mail = [box \in MailboxNames |->
                    CASE box \in {"qCO2TargetCurrent", "qCO2TargetPending"} -> target
                      [] box \in PhaseSet -> stored
                      [] OTHER -> Empty]
    /\ sUpdateDisplay = FALSE
    /\ qStorageQueue = <<>>
    /\ HandlerInit
    /\ DisplayInit

HandlerStep == Handler /\ UNCHANGED displayVars
DisplayStep == DisplayTask /\ UNCHANGED handlerVars

\* Greenhouse: a sensor value or the fan has changed.
SensorsChange ==
    /\ sUpdateDisplay' = TRUE
    /\ UNCHANGED <<mail, qStorageQueue, handlerVars, displayVars>>

\* Storage receives a command.
StorageTakes ==
    /\ qStorageQueue # <<>>
    /\ qStorageQueue' = Tail(qStorageQueue)
    /\ UNCHANGED <<mail, sUpdateDisplay, handlerVars, displayVars>>

Next == HandlerStep \/ DisplayStep \/ SensorsChange \/ StorageTakes

Spec == Init /\ [][Next]_vars

\* The two tasks share the processor by time slices, and the tasks above them
\* sleep most of the time: each runs on as long as it can.  Users need not act.
FairSpec == /\ Spec
            /\ WF_vars((BootState \/ BootTarget \/ Publish) /\ UNCHANGED displayVars)
            /\ WF_vars(DisplayStep)

-------------------------------------------------------------------------------
\* Types

\* Every value is one the code's types and limits admit: targets in range,
\* strings no longer than their mailbox.
TypeOK ==
    /\ mState \in {"STATUS", "NETWORK"} /\ mNetworkPhase \in PhaseSet
    /\ mCO2TargetCurrent \in CO2Targets /\ mCO2TargetPending \in CO2Targets
    /\ mCharPending \in Chars
    /\ \A p \in PhaseSet : /\ mNetworkStrings[p] \in BoundedStrings
                           /\ mail[p] \in BoundedStrings \cup {Empty}
                           /\ dStrings[p] \in BoundedStrings \cup {<<Garbage>>}
    /\ mail["qCO2TargetCurrent"] \in CO2Targets \cup {Empty}
    /\ mail["qCO2TargetPending"] \in CO2Targets \cup {Empty}
    /\ Len(outbox) <= 5
    /\ Len(qStorageQueue) <= StorageQueueLength

-------------------------------------------------------------------------------
\* What the mailboxes say of the handler

\* When the handler waits for an event, every other task finds in the mailboxes
\* the state its next event will be handled in.  One value may differ: the
\* pending character after the network screen was left (README.md).
MailboxesAgree ==
    Idle =>
        /\ mail["qState"] = mState
        /\ \/ mail["qNetworkPhase"] = mNetworkPhase
           \/ mail["qNetworkPhase"] = Empty /\ mNetworkPhase = "NEW_API"
        /\ mState = "STATUS" => mNetworkPhase = "NEW_API"
        /\ mState = "NETWORK" => \A p \in PhaseSet : mail[p] = mNetworkStrings[p]
        /\ mail["qCO2TargetCurrent"] \in {mCO2TargetCurrent, Empty}
        /\ \/ mail["qCO2TargetPending"] = mCO2TargetPending
           \/ mail["qCO2TargetPending"] = Empty /\ mCO2TargetPending = mCO2TargetCurrent
        /\ mail["qCharPending"] = mCharPending \/ mCharPending = INIT_CHAR

-------------------------------------------------------------------------------
\* What is on the screen

AtRest == Idle /\ dpc = "take" /\ ~sUpdateDisplay /\ screen # InitFrame

StatusDrawn ==
    /\ screen.status /\ screen.headings = {} /\ screen.char = NoLine
    /\ mail["qCO2TargetCurrent"] # Empty =>
         screen.target = TargetLine(mCO2TargetPending,
                                    mCO2TargetPending # mCO2TargetCurrent)

StringsDrawn ==
    /\ \A p \in PhaseSet : screen.strings[p] =
         IF p \in UpTo(mNetworkPhase) THEN mNetworkStrings[p] ELSE Empty
    /\ screen.char = <<Peeked("qCharPending", INIT_CHAR), mNetworkPhase,
                       Len(mNetworkStrings[mNetworkPhase])>>

\* Once both tasks are done the status screen shows the target of the
\* mailboxes, boxed if it is pending: no redraw that Display merged, took too
\* early or drew from a half-written event is the last one (insert, rot_event,
\* backspace against print_CO2_target 72-102).
StatusShown == AtRest /\ mState = "STATUS" => StatusDrawn

\* And the network screen shows the strings entered so far, up to the phase,
\* and the character box behind the one that is being entered.
StringsShown == AtRest /\ mState = "NETWORK" => StringsDrawn

\* Display draws no string from a buffer that its peek left unwritten
\* (Display.cpp:195-200): the screen changes only after the strings are there.
NoGarbageDrawn == \A p \in PhaseSet : dStrings[p] # <<Garbage>>

\* The whole screen: its labels or the headings of the phases, and what they are
\* the labels of.
ScreenIsRight ==
    IF mState = "STATUS" THEN StatusDrawn
    ELSE ~screen.status /\ screen.headings = UpTo(mNetworkPhase) /\ StringsDrawn

\* The screen of NetworkScreen's counterexample below: the strings of the first
\* phase over the labels of the status screen.
GhostDrawn ==
    /\ mState = "NETWORK" /\ mNetworkPhase = "NEW_API"
    /\ screen.status /\ screen.headings = {} /\ StringsDrawn

\* When the user lets go, the whole screen ends up right and stays so, however
\* often Greenhouse asks for redraws.  It may stay wrong in two cases only, and
\* in these only as long as nobody asks for another redraw: nothing but the first
\* frame was ever drawn, or the ghost of the status screen was.
Settles ==
    <>[]Idle =>
        <>[](\/ ScreenIsRight
             \/ dpc = "take" /\ ~sUpdateDisplay /\ (screen = InitFrame \/ GhostDrawn))

-------------------------------------------------------------------------------
\* What the documentation says and the code does not do

\* "toggle screen / system state between status and network"
\* (SwitchHandler.cpp:142): in the network state the screen is the network one.
NetworkScreen ==
    AtRest /\ mState = "NETWORK" =>
        ~screen.status /\ screen.headings = UpTo(mNetworkPhase)

===============================================================================
