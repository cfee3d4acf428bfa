------------------------------- MODULE Storage --------------------------------
(***************************************************************************)
(* The storage task, src/src/taskers/Storage.cpp, and the entries it keeps   *)
(* in the EEPROM, src/src/peripherals/EEPROM.cpp.  At boot it copies what is *)
(* stored into the mailboxes; then it takes commands from qStorageQueue and  *)
(* saves what the mailbox of the command holds by the time it looks.         *)
(*                                                                         *)
(* An entry carries a CRC and is written in one I2C transfer of a known      *)
(* address: what is told apart of it is its value, or that its CRC fails.    *)
(* The log entries and the log index of EEPROM.cpp are left out: nothing in  *)
(* the program writes a log entry.                                           *)
(***************************************************************************)
EXTENDS Mailboxes

VARIABLES
    spc,                \* what the task does next
    storageData,        \* the command being processed
    saved,              \* the task's copy of the mailbox: mCO2Target, mAPI, mPW, mSSID
    eeprom,             \* the entries; Empty: the CRC fails
    mLostStores         \* a store was lost and not reported yet

storageVars == <<spc, storageData, saved, eeprom, mLostStores>>

Commands == {"CO2_target"} \cup PhaseSet
Box(command) == IF command = "CO2_target" THEN "qCO2TargetCurrent" ELSE command

\* The strings in the order in which they are read at boot.
BootOrder == <<"NEW_API", "NEW_PW", "NEW_SSID">>

Booting == {"target", "pending"} \cup PhaseSet

StorageInit ==
    /\ spc = "target" /\ storageData = "CO2_target" /\ saved = Empty
    /\ mLostStores = FALSE

\* The same as the outcome of a reset.
StorageReset ==
    /\ spc' = "target" /\ storageData' = "CO2_target" /\ saved' = Empty
    /\ mLostStores' = FALSE

-------------------------------------------------------------------------------
\* Boot

\* get and the range check; a read the bus fails leaves a CRC that does not fit.
ReadTarget(read) ==
    /\ spc = "target"
    /\ read \in {eeprom["CO2_target"], Empty}
    /\ IF read \in CO2Targets
       THEN /\ mail' = [mail EXCEPT !["qCO2TargetCurrent"] = read]
            /\ saved' = read
            /\ spc' = "pending"
       ELSE UNCHANGED <<mail, saved>> /\ spc' = BootOrder[1]
    /\ UNCHANGED <<sUpdateDisplay, qStorageQueue, storageData, eeprom, mLostStores>>

FillPending ==
    /\ spc = "pending"
    /\ mail' = [mail EXCEPT !["qCO2TargetPending"] = saved]
    /\ spc' = BootOrder[1]
    /\ UNCHANGED <<sUpdateDisplay, qStorageQueue, storageData, saved, eeprom, mLostStores>>

\* get_str refuses the empty string.
ReadString(read) ==
    /\ spc \in PhaseSet
    /\ read \in {eeprom[spc], Empty}
    /\ mail' = IF read \in {Empty, <<>>} THEN mail ELSE [mail EXCEPT ![spc] = read]
    /\ spc' = LET i == CHOOSE i \in 1..3 : BootOrder[i] = spc
              IN  IF i = 3 THEN "receive" ELSE BootOrder[i + 1]
    /\ UNCHANGED <<sUpdateDisplay, qStorageQueue, storageData, saved, eeprom, mLostStores>>

-------------------------------------------------------------------------------
\* Commands

Receive ==
    /\ spc = "receive"
    /\ qStorageQueue # <<>>
    /\ storageData' = Head(qStorageQueue)
    /\ qStorageQueue' = Tail(qStorageQueue)
    /\ spc' = "peek"
    /\ UNCHANGED <<mail, sUpdateDisplay, saved, eeprom, mLostStores>>

\* An empty mailbox ends the command.
PeekToSave ==
    /\ spc = "peek"
    /\ IF mail[Box(storageData)] = Empty
       THEN spc' = "receive" /\ UNCHANGED saved
       ELSE spc' = "put" /\ saved' = mail[Box(storageData)]
    /\ UNCHANGED <<queueVars, storageData, eeprom, mLostStores>>

\* The transfer starts: from now on the entry is neither the old nor the new one.
StartWrite ==
    /\ spc = "put"
    /\ eeprom' = [eeprom EXCEPT ![storageData] = Empty]
    /\ spc' = "writing"
    /\ UNCHANGED <<queueVars, storageData, saved, mLostStores>>

EndWrite ==
    /\ spc = "writing"
    /\ eeprom' = [eeprom EXCEPT ![storageData] = saved]
    /\ spc' = "receive"
    /\ UNCHANGED <<queueVars, storageData, saved, mLostStores>>

\* The EEPROM does not acknowledge; write_to_eeprom ignores the result.
WriteFails ==
    /\ spc = "put"
    /\ spc' = "receive"
    /\ UNCHANGED <<queueVars, storageData, saved, eeprom, mLostStores>>

\* The queue is empty and something was lost: logged here, reset in the next step.
ReportLost ==
    /\ spc = "receive"
    /\ qStorageQueue = <<>>
    /\ mLostStores
    /\ spc' = "reset"
    /\ UNCHANGED <<queueVars, storageData, saved, eeprom, mLostStores>>

ResetLost ==
    /\ spc = "reset"
    /\ mLostStores' = FALSE
    /\ spc' = "receive"
    /\ UNCHANGED <<queueVars, storageData, saved, eeprom>>

StorageTask ==
    \/ \E read \in CO2Targets \cup {Empty} : ReadTarget(read)
    \/ \E read \in {eeprom[p] : p \in PhaseSet} \cup {Empty} : ReadString(read)
    \/ FillPending \/ Receive \/ PeekToSave
    \/ StartWrite \/ EndWrite \/ WriteFails \/ ReportLost \/ ResetLost

===============================================================================
