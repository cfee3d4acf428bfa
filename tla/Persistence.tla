----------------------------- MODULE Persistence ------------------------------
(***************************************************************************)
(* SwitchHandler and Storage over resets: what the user confirms, what is    *)
(* in the EEPROM, and what the next boot makes of it.  Storage has a lower   *)
(* priority than SwitchHandler and waits for the I2C bus, so any step of the *)
(* handler may come between any two of its own.  Power may fail at any time  *)
(* and leaves the EEPROM only.                                               *)
(***************************************************************************)
EXTENDS SwitchHandler, Storage

CONSTANTS
    Unknown,    \* of a string: no promise is made
    Replaced    \* nor here: Storage has put the stored string over the user's

\* Storage reads the commands it is sent.
ASSUME QueuedAssumption == \A command \in Commands : Queued(command) = command

VARIABLES
    watched,    \* the entry of the EEPROM the properties are about: any one
    unsaved,    \* history: its last command was lost, or failed
    confirmed   \* history: the string as it was confirmed last

watchVars == <<watched, unsaved, confirmed>>
vars == <<queueVars, handlerVars, storageVars, watchVars>>

Strings == {<<c>> : c \in IF MAX_CREDENTIAL_STRING_LEN > 0 THEN Chars ELSE {}}

EmptyMail == [box \in MailboxNames |-> Empty]

\* The EEPROM as an earlier power cycle, or other firmware, has left it.
Init ==
    /\ watched \in Commands
    /\ \E target \in {CO2_MIN, CO2_MAX + 1, Empty}, string \in Strings \cup {Empty} :
          eeprom = [c \in Commands |-> CASE c = "CO2_target" -> target
                                         [] c = watched -> string
                                         [] OTHER -> Empty]
    /\ mail = EmptyMail
    /\ sUpdateDisplay = FALSE
    /\ qStorageQueue = <<>>
    /\ HandlerInit
    /\ StorageInit
    /\ unsaved = FALSE
    /\ confirmed = Unknown

-------------------------------------------------------------------------------
\* Steps of the handler

Storing == Pending /\ Head(outbox)[1] = "store" /\ outbox' = Tail(outbox)
Losing == Storing /\ UNCHANGED qStorageQueue

\* Storage has looked for the target before the handler's second is over: the
\* read takes it some 5 ms.  The handler goes on as soon as the mailbox is
\* filled, or when the second is over, and events come from then on, while
\* Storage may still be reading the strings.
InTime == hpc = "peek" => spc # "target"

\* The watched string is confirmed; from the next edit on, Storage may save the
\* edited one.
Confirmed ==
    IF mNetworkPhase = watched
    THEN CASE ConfirmString \/ ConfirmLast ->
                 IF confirmed = Replaced THEN Replaced ELSE mNetworkStrings[watched]
           [] InsertChar \/ RemoveChar \/ ToggleToNetwork -> Unknown
           [] OTHER -> confirmed
    ELSE IF ToggleToNetwork THEN Unknown ELSE confirmed

LateHandlerStep ==
    /\ Handler
    /\ mLostStores' = (mLostStores \/ Losing)
    /\ unsaved' = (unsaved \/ (Losing /\ Head(outbox)[2] = watched))
    /\ confirmed' = Confirmed
    /\ UNCHANGED <<spc, storageData, saved, eeprom, watched>>

HandlerStep == InTime /\ LateHandlerStep

\* The handler has written the mailbox since the boot, and Storage, still reading
\* the EEPROM, overwrites it: the screen and the copy of the handler differ until
\* the next edit.
Replacing == spc = watched /\ mail[watched] # Empty /\ mail'[watched] # mail[watched]

\* Steps of Storage.
StorageStep ==
    /\ StorageTask
    /\ unsaved' = CASE storageData = watched /\ WriteFails -> TRUE
                    [] storageData = watched /\ PeekToSave -> FALSE
                    [] OTHER -> unsaved
    /\ confirmed' = IF Replacing THEN Replaced ELSE confirmed
    /\ UNCHANGED <<handlerVars, watched>>

\* Display takes the semaphore.
DisplayTakes ==
    /\ sUpdateDisplay
    /\ sUpdateDisplay' = FALSE
    /\ UNCHANGED <<mail, qStorageQueue, handlerVars, storageVars, watchVars>>

Quiet == Idle /\ spc = "receive" /\ qStorageQueue = <<>>

\* A reset: everything but the EEPROM starts anew.  What was still on its way is
\* promised no longer.
PowerLoss ==
    /\ mail' = EmptyMail
    /\ sUpdateDisplay' = FALSE
    /\ qStorageQueue' = <<>>
    /\ HandlerReset
    /\ StorageReset
    /\ unsaved' = FALSE
    /\ confirmed' = IF Quiet /\ ~unsaved THEN confirmed ELSE Unknown
    /\ UNCHANGED <<eeprom, watched>>

Next == HandlerStep \/ StorageStep \/ DisplayTakes \/ PowerLoss
LateNext == LateHandlerStep \/ StorageStep \/ DisplayTakes \/ PowerLoss

Spec == Init /\ [][Next]_vars

\* The handler's peek may time out first: an I2C transaction with an EEPROM that
\* does not answer takes the same second (PicoI2C.cpp:160).
LateSpec == Init /\ [][LateNext]_vars

-------------------------------------------------------------------------------
\* Properties

\* When both tasks wait, the target in force is the one the next boot will find,
\* whatever was inserted, omitted and inserted again while Storage was writing:
\* unless the command was lost in a full queue or the EEPROM refused it
\* (Storage::storage 73-80 peeks when it gets to it, not when it was told).
TargetSaved ==
    Quiet /\ watched = "CO2_target" /\ ~unsaved /\ mail["qCO2TargetCurrent"] # Empty =>
        eeprom["CO2_target"] = mail["qCO2TargetCurrent"]

\* And each string is saved as it was confirmed, in its own entry, if the user
\* has not edited it since (next_phase 211-230 clears its own copy of all
\* strings while Storage may not have read the last one), and had not begun it
\* before Storage had read the stored one (Storage::storage 51-68): that one
\* replaces the user's in the mailbox, and is saved again.
StringsSaved ==
    Quiet /\ watched \in PhaseSet /\ ~unsaved /\ confirmed \notin {Unknown, Replaced} =>
        eeprom[watched] = confirmed

\* The handler knows the target in force: it resets the pending target to it
\* and compares it with the target to be inserted (switch_handler 47-51,
\* backspace, insert).
HandlerKnowsTarget ==
    Idle => mail["qCO2TargetCurrent"] \in {mCO2TargetCurrent, Empty}

\* "resets pending user input (CO2 target) to current CO2 target"
\* (SwitchHandler.cpp:263, backspace): the one in force, if there is one.
ResetsToTarget ==
    [][ResetPending => mail["qCO2TargetCurrent"] \in {mCO2TargetPending', Empty}]_vars

===============================================================================
