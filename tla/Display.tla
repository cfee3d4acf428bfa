------------------------------- MODULE Display --------------------------------
(***************************************************************************)
(* The display task, src/src/taskers/Display.cpp.  It takes sUpdateDisplay,  *)
(* clears the frame, peeks the mailboxes one after the other and draws what *)
(* it found, and then sends the frame to the OLED.  A peek that finds its    *)
(* mailbox empty leaves the task's own copy as it was, so the frame also     *)
(* depends on what was peeked for earlier frames.                            *)
(*                                                                         *)
(* A frame is what can be told apart on it: whether the labels of the status *)
(* screen are on it, the line of the CO2 target, and of the network screen   *)
(* the headings, the strings, and the boxed character with its place.  The   *)
(* five sensor lines of the status screen are left out: each prints one      *)
(* mailbox that SwitchHandler does not write.                                *)
(***************************************************************************)
EXTENDS Mailboxes, CharMap

CONSTANT Garbage        \* the text an uninitialised buffer holds

ASSUME GarbageAssumption == Garbage \notin Int

VARIABLES
    dpc,                            \* what the task does next
    frame,                          \* the frame being drawn
    screen,                         \* the frame on the OLED
    dState, dPhase,                 \* copies: mState, mNetworkPhase,
    dTargetCurrent, dTargetPending, \* mCO2TargetCurrent, mCO2TargetPending,
    dPendingEmpty,                  \* the local pendingQempty
    dChar, dStrings                 \* mCharPending, mNetworkStrings

displayVars == <<dpc, frame, screen, dState, dPhase, dTargetCurrent,
                 dTargetPending, dPendingEmpty, dChar, dStrings>>

\* Target lines: nothing, "N/A", or a number that is boxed when it is pending.
NoLine == <<>>
NotAvailable == <<"N/A">>
TargetLine(value, boxed) == <<value, boxed>>

NoCopies == [p \in PhaseSet |-> <<>>]
Nothing == [p \in PhaseSet |-> Empty]
BlankFrame == [status |-> FALSE, target |-> NoLine, headings |-> {},
               strings |-> Nothing, char |-> NoLine]
\* "Initializing..."
InitFrame == [BlankFrame EXCEPT !.char = <<"Initializing">>]

DisplayInit ==
    /\ dpc = "take"
    /\ frame = BlankFrame
    /\ screen = InitFrame
    /\ dState = "STATUS" /\ dPhase = "NEW_API"
    /\ dTargetCurrent = 0 /\ dTargetPending = 0 /\ dPendingEmpty = FALSE
    /\ dChar = INIT_CHAR /\ dStrings = NoCopies

\* xQueuePeek into the task's copy of a mailbox.
Peeked(box, copy) == IF mail[box] = Empty THEN copy ELSE mail[box]

PhaseIndex(p) == CHOOSE i \in 1..3 : Phases[i] = p
UpTo(p) == {Phases[i] : i \in 1..PhaseIndex(p)}

-------------------------------------------------------------------------------
\* display(): take the semaphore, clear the frame.
DisplayTakes ==
    /\ dpc = "take"
    /\ sUpdateDisplay
    /\ sUpdateDisplay' = FALSE
    /\ frame' = BlankFrame
    /\ dpc' = "state"
    /\ UNCHANGED <<mail, qStorageQueue, screen, dState, dPhase,
                   dTargetCurrent, dTargetPending, dPendingEmpty, dChar, dStrings>>

\* update(): which of the two screens.
PeekState ==
    /\ dpc = "state"
    /\ dState' = Peeked("qState", dState)
    /\ IF dState' = "STATUS"
       THEN frame' = [frame EXCEPT !.status = TRUE] /\ dpc' = "pending"
       ELSE UNCHANGED frame /\ dpc' = "phase"
    /\ UNCHANGED <<queueVars, screen, dPhase, dTargetCurrent, dTargetPending,
                   dPendingEmpty, dChar, dStrings>>

\* print_CO2_target: the two peeks, then the line.
PeekPending ==
    /\ dpc = "pending"
    /\ dPendingEmpty' = (mail["qCO2TargetPending"] = Empty)
    /\ dTargetPending' = Peeked("qCO2TargetPending", dTargetPending)
    /\ dpc' = "current"
    /\ UNCHANGED <<queueVars, frame, screen, dState, dPhase, dTargetCurrent,
                   dChar, dStrings>>

TargetText(pendingEmpty, currentEmpty, pending, current) ==
    IF currentEmpty /\ (pendingEmpty \/ pending = current) THEN NotAvailable
    ELSE TargetLine(IF pending # current THEN pending ELSE current,
                    ~pendingEmpty /\ pending # current)

\* The status screen goes on with the sensors; on the network screen this is
\* the call from print_network_base.
PeekCurrent ==
    /\ dpc = "current"
    /\ dTargetCurrent' = Peeked("qCO2TargetCurrent", dTargetCurrent)
    /\ frame' = [frame EXCEPT !.target =
            TargetText(dPendingEmpty, mail["qCO2TargetCurrent"] = Empty,
                       dTargetPending, dTargetCurrent')]
    /\ dPendingEmpty' = FALSE
    /\ dpc' = IF dState = "STATUS" THEN "show" ELSE "NEW_API"
    /\ UNCHANGED <<queueVars, screen, dState, dPhase, dTargetPending,
                   dChar, dStrings>>

\* Variant whose switch does not fall through: the heading of the phase only.
PeekPhaseOneHeading ==
    /\ dpc = "phase"
    /\ dPhase' = Peeked("qNetworkPhase", dPhase)
    /\ IF mail["qNetworkPhase"] # Empty /\ dPhase = "NEW_PW" /\ dPhase' = "NEW_API"
       THEN /\ dStrings' = NoCopies
            /\ frame' = [frame EXCEPT !.status = TRUE]
            /\ dpc' = "pending"
       ELSE /\ frame' = [frame EXCEPT !.headings = {dPhase'}]
            /\ dpc' = "NEW_API"
            /\ UNCHANGED dStrings
    /\ UNCHANGED <<queueVars, screen, dState, dTargetCurrent, dTargetPending,
                   dPendingEmpty, dChar>>

\* print_network_base.
PeekPhase ==
    /\ dpc = "phase"
    /\ dPhase' = Peeked("qNetworkPhase", dPhase)
    /\ IF mail["qNetworkPhase"] # Empty /\ dPhase = "NEW_PW" /\ dPhase' = "NEW_API"
       THEN /\ dStrings' = NoCopies
            /\ frame' = [frame EXCEPT !.status = TRUE]
            /\ dpc' = "pending"
       ELSE /\ frame' = [frame EXCEPT !.headings = UpTo(dPhase')]
            /\ dpc' = "NEW_API"
            /\ UNCHANGED dStrings
    /\ UNCHANGED <<queueVars, screen, dState, dTargetCurrent, dTargetPending,
                   dPendingEmpty, dChar>>

\* print_network_input: one string after the other; the buffer of a peek that
\* fails is read all the same.  Those up to the phase are drawn.
PeekString ==
    /\ dpc \in PhaseSet
    /\ dStrings' = [dStrings EXCEPT ![dpc] =
                        IF mail[dpc] = Empty THEN <<Garbage>> ELSE mail[dpc]]
    /\ IF dpc = "NEW_PW"
       THEN /\ frame' = [frame EXCEPT !.strings =
                            [p \in PhaseSet |-> IF p \in UpTo(dPhase)
                                                THEN dStrings'[p] ELSE Empty]]
            /\ dpc' = "char"
       ELSE UNCHANGED frame /\ dpc' = Phases[PhaseIndex(dpc) + 1]
    /\ UNCHANGED <<queueVars, screen, dState, dPhase, dTargetCurrent,
                   dTargetPending, dPendingEmpty, dChar>>

\* print_network_pending_char: boxed, behind the string of the phase.
PeekChar ==
    /\ dpc = "char"
    /\ dChar' = Peeked("qCharPending", dChar)
    /\ frame' = [frame EXCEPT !.char = <<dChar', dPhase, Len(dStrings[dPhase])>>]
    /\ dpc' = "show"
    /\ UNCHANGED <<queueVars, screen, dState, dPhase, dTargetCurrent,
                   dTargetPending, dPendingEmpty, dStrings>>

\* mSSD1306.show() and the delay.  The copies of the strings are not read again
\* before they are written, and are forgotten here.
Show ==
    /\ dpc = "show"
    /\ screen' = frame
    /\ dpc' = "take"
    /\ dStrings' = NoCopies
    /\ UNCHANGED <<queueVars, frame, dState, dPhase, dTargetCurrent,
                   dTargetPending, dPendingEmpty, dChar>>

DisplayTask == \/ DisplayTakes \/ PeekState \/ PeekPending \/ PeekCurrent
               \/ PeekPhase \/ PeekString \/ PeekChar \/ Show

===============================================================================
