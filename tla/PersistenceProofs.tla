-------------------------- MODULE PersistenceProofs ---------------------------
(***************************************************************************)
(* Proofs about SwitchHandler and Storage over resets, for any targets,      *)
(* string lengths, characters and queue lengths, and whichever entry of the  *)
(* EEPROM is watched.                                                        *)
(***************************************************************************)
EXTENDS Persistence, SwitchHandlerProofs

-------------------------------------------------------------------------------
\* Types of Storage, and the boot

StorageOK ==
    /\ spc \in Booting \cup {"receive", "peek", "put", "writing", "reset"}
    /\ storageData \in Commands
    /\ qStorageQueue \in Seq(Commands)
    /\ eeprom = [c \in Commands |-> eeprom[c]]
    /\ \A p \in PhaseSet : eeprom[p] \in BoundedStrings \cup {Empty}
    /\ spc = "pending" => saved \in CO2Targets
    /\ spc \in {"put", "writing"} => saved \in Values(Box(storageData))
    /\ watched \in Commands
    /\ unsaved \in BOOLEAN
    /\ confirmed \in BoundedStrings \cup {Unknown, Replaced}

\* The user's input waits until Storage has looked for the target, and may begin
\* while it reads the strings: the handler knows the target in force, and the
\* watched string unless Storage has replaced it.
BootOK ==
    /\ spc = "target" => hpc # "run"
    /\ hpc # "run" => mState = "STATUS"
    /\ hpc = "run" => CurrentAgreed
    /\ watched \in PhaseSet /\ confirmed # Replaced => StringAgreed(watched)

-------------------------------------------------------------------------------
\* What has not reached the EEPROM yet

\* Storage has still to look at the mailbox of the command.
InOutbox(c) == \E i \in 1..Len(outbox) : outbox[i] = Store(c)
InQueue(c) == \E i \in 1..Len(qStorageQueue) : qStorageQueue[i] = c
Peeking(c) == spc = "peek" /\ storageData = c
StoreDue(c) == InOutbox(c) \/ InQueue(c) \/ Peeking(c)

\* Storage has its copy of the mailbox, and the EEPROM not yet.
Saving(c) == spc \in {"put", "writing"} /\ storageData = c

\* A new target is written to its mailbox before Storage is told.
StoreLast(ops) ==
    \A i \in 1..Len(ops) : ops[i][1] = "qCO2TargetCurrent" =>
        \E j \in i + 1..Len(ops) : ops[j] = Store("CO2_target")

\* Unless Storage is going to look, it has saved or is saving what is in force.
TargetInv ==
    watched = "CO2_target" /\ ~unsaved =>
        \/ StoreDue(watched)
        \/ mail["qCO2TargetCurrent"] = Empty
        \/ mail["qCO2TargetCurrent"] = IF Saving(watched) THEN saved ELSE eeprom[watched]

\* The confirmed string stays in its mailbox as long as Storage may need it.
StringInv ==
    watched \in PhaseSet /\ confirmed \notin {Unknown, Replaced} =>
        /\ unsaved \/ StoreDue(watched) \/ Saving(watched) =>
              /\ mail[watched] = confirmed
              /\ \A i \in 1..Len(outbox) : outbox[i][1] # watched
        /\ \/ unsaved \/ StoreDue(watched)
           \/ confirmed = IF Saving(watched) THEN saved ELSE eeprom[watched]

PInv ==
    /\ HandlerOK /\ Distinct(outbox) /\ StoreLast(outbox)
    /\ StorageOK /\ BootOK
    /\ TargetInv /\ StringInv

-------------------------------------------------------------------------------
\* What events leave to be done

LEMMA CommandFacts ==
    /\ PhaseSet \subseteq Commands /\ "CO2_target" \in Commands
    /\ Commands = PhaseSet \cup {"CO2_target"} /\ "CO2_target" \notin PhaseSet
    /\ "qCO2TargetCurrent" \notin PhaseSet
    /\ \A p \in PhaseSet : Box(p) = p /\ Box(p) \in MailboxNames /\ Values(Box(p)) = BoundedStrings
    /\ Box("CO2_target") = "qCO2TargetCurrent" /\ Box("CO2_target") \in MailboxNames
    /\ Values(Box("CO2_target")) = CO2Targets
  BY BoxFacts DEF Commands, PhaseSet, Box

LEMMA StoreFacts ==
    \A c, d \in Commands :
        /\ Store(c)[1] = "store" /\ Store(c)[2] = c
        /\ Store(c) = Store(d) => c = d
  BY DEF Store

\* Which operations an event leaves.
LEMMA EventOps ==
    ASSUME HandlerOK, Event
    PROVE  /\ StoreLast(outbox')
           /\ \A i \in 1..Len(outbox'), p \in PhaseSet :
                /\ outbox'[i][1] = p =>
                      \/ ToggleToNetwork
                      \/ (InsertChar \/ RemoveChar) /\ mNetworkPhase = p
                /\ outbox'[i] = Store(p) =>
                      (ConfirmString \/ ConfirmLast) /\ mNetworkPhase = p
<1> USE BoxFacts
<1>1. outbox = <<>> /\ mNetworkPhase \in PhaseSet
  BY EventFrame DEF HandlerOK
<1>2. CASE outbox' = outbox
  BY <1>1, <1>2 DEF StoreLast
<1>3. CASE \E box \in MailboxNames \ (PhaseSet \cup {"qCO2TargetCurrent"}) :
             \E v : outbox' = <<Overwrite(box, v), Redraw>>
  <2>1. PICK box \in MailboxNames \ (PhaseSet \cup {"qCO2TargetCurrent"}) :
             \E v : outbox' = <<Overwrite(box, v), Redraw>>
    BY <1>3
  <2>2. /\ Len(outbox') = 2 /\ outbox'[1][1] = box /\ outbox'[2][1] = "sUpdateDisplay"
    BY <2>1 DEF Overwrite, Redraw
  <2>3. box # "store"
    BY DEF MailboxNames, PhaseSet
  <2> QED
    BY <2>2, <2>3, StoreFacts, CommandFacts DEF StoreLast, PhaseSet
<1>4. CASE ToggleToStatus
  BY <1>4 DEF ToggleToStatus, StoreLast, Overwrite, Redraw, Store, PhaseSet
<1>5. CASE ToggleToNetwork
  <2>1. outbox' = [i \in 1..3 |-> Overwrite(Phases[i], <<>>)]
                  \o <<Overwrite("qState", "NETWORK"), Redraw>>
    BY <1>5 DEF ToggleToNetwork
  <2>2. \A i \in 1..Len(outbox') :
            outbox'[i][1] \in PhaseSet \cup {"qState"} \/ outbox'[i] = Redraw
    <3> DEFINE first == [i \in 1..3 |-> Overwrite(Phases[i], <<>>)]
               last == <<Overwrite("qState", "NETWORK"), Redraw>>
    <3>1. \A i \in 1..3 : Phases[i] \in PhaseSet
      BY DEF Phases, PhaseSet
    <3>2. first \in Seq({Overwrite(p, <<>>) : p \in PhaseSet}) /\ Len(first) = 3
      BY <3>1
    <3>3. Len(last) = 2 /\ last[1] = Overwrite("qState", "NETWORK") /\ last[2] = Redraw
      OBVIOUS
    <3> QED
      BY <2>1, <3>2, <3>3 DEF Overwrite
  <2> QED
    BY <1>5, <2>2 DEF StoreLast, Redraw, Store, PhaseSet
<1>6. CASE InsertTarget
  <2>1. PICK v : outbox' = <<Overwrite("qCO2TargetCurrent", v), Overwrite("qCO2TargetPending", v),
                             Store("CO2_target"), Redraw, Update>>
    BY <1>6 DEF InsertTarget
  <2>2. /\ Len(outbox') = 5 /\ outbox'[3] = Store("CO2_target")
        /\ outbox'[1][1] = "qCO2TargetCurrent" /\ outbox'[2][1] = "qCO2TargetPending"
        /\ outbox'[3][1] = "store" /\ outbox'[3][2] = "CO2_target"
        /\ outbox'[4][1] = "sUpdateDisplay" /\ outbox'[5][1] = "sUpdateGreenhouse"
    BY <2>1 DEF Overwrite, Store, Redraw, Update
  <2> QED
    BY <2>2, StoreFacts, CommandFacts DEF StoreLast, PhaseSet
<1>7. CASE InsertChar \/ RemoveChar
  <2>1. PICK v : outbox' = <<Overwrite(mNetworkPhase, v), Overwrite("qCharPending", INIT_CHAR), Redraw>>
    BY <1>7 DEF InsertChar, RemoveChar, PublishString
  <2>2. /\ Len(outbox') = 3 /\ outbox'[1][1] = mNetworkPhase
        /\ outbox'[2][1] = "qCharPending" /\ outbox'[3][1] = "sUpdateDisplay"
    BY <2>1 DEF Overwrite, Redraw
  <2> QED
    BY <1>1, <1>7, <2>2, StoreFacts, CommandFacts DEF StoreLast, PhaseSet
<1>8. CASE ConfirmString
  <2>1. PICK v : outbox' = <<Store(mNetworkPhase), Overwrite("qNetworkPhase", v), Redraw>>
    BY <1>8 DEF ConfirmString
  <2>2. /\ Len(outbox') = 3 /\ outbox'[1][1] = "store" /\ outbox'[1][2] = mNetworkPhase
        /\ outbox'[2][1] = "qNetworkPhase" /\ outbox'[3][1] = "sUpdateDisplay"
    BY <2>1 DEF Overwrite, Redraw, Store
  <2> QED
    BY <1>1, <1>8, <2>2, StoreFacts, CommandFacts DEF StoreLast, PhaseSet
<1>9. CASE ConfirmLast
  <2>1. /\ Len(outbox') = 4 /\ outbox'[1][1] = "store" /\ outbox'[1][2] = mNetworkPhase
        /\ outbox'[2][1] = "qState" /\ outbox'[3][1] = "qNetworkPhase"
        /\ outbox'[4][1] = "sUpdateDisplay"
    BY <1>9 DEF ConfirmLast, Overwrite, Redraw, Store
  <2> QED
    BY <1>1, <1>9, <2>1, StoreFacts, CommandFacts DEF StoreLast, PhaseSet
<1>10. CASE OmitTarget
  BY <1>10 DEF OmitTarget, StoreLast, Redraw, Update, Store, PhaseSet
<1>11. CASE \E direction \in Directions : RotEvent(direction)
  <2>1. \/ outbox' = outbox
        \/ \E v : outbox' = <<Overwrite("qCO2TargetPending", v), Redraw>>
        \/ \E v : outbox' = <<Overwrite("qCharPending", v), Redraw>>
    BY <1>11 DEF RotEvent, TurnTarget, TurnChar
  <2> QED
    BY <1>2, <1>3, <2>1 DEF PhaseSet
<1>12. CASE Bounce \/ InsertNothing \/ ResetPending \/ PreviousPhase
  <2>1. \/ outbox' = outbox
        \/ \E v : outbox' = <<Overwrite("qCO2TargetPending", v), Redraw>>
        \/ \E v : outbox' = <<Overwrite("qNetworkPhase", v), Redraw>>
    BY <1>12 DEF Bounce, InsertNothing, ResetPending, PreviousPhase
  <2> QED
    BY <1>2, <1>3, <2>1 DEF PhaseSet
<1> QED
  BY <1>4, <1>5, <1>6, <1>7, <1>8, <1>9, <1>10, <1>11, <1>12 DEF Event, ButtonEvent

\* Confirming a string tells Storage, and is no other event.
LEMMA ConfirmOps ==
    ASSUME ConfirmString \/ ConfirmLast
    PROVE  /\ \E i \in 1..Len(outbox') : outbox'[i] = Store(mNetworkPhase)
           /\ ~(InsertChar \/ RemoveChar \/ ToggleToNetwork)
           /\ mState = "NETWORK"
<1>1. \E i \in 1..Len(outbox') : outbox'[i] = Store(mNetworkPhase)
  <2>1. Len(outbox') \in 3..4 /\ outbox'[1] = Store(mNetworkPhase)
    BY DEF ConfirmString, ConfirmLast
  <2> QED
    BY <2>1
<1>2. ~(InsertChar \/ RemoveChar \/ ToggleToNetwork) /\ mState = "NETWORK"
  BY DEF ConfirmString, ConfirmLast, NextPhase, InsertChar, RemoveChar, ToggleToNetwork
<1> QED
  BY <1>1, <1>2

-------------------------------------------------------------------------------
\* Steps of the handler

\* Every step of the handler is one of these.
LEMMA LateStepFacts ==
    ASSUME LateHandlerStep
    PROVE  /\ BootState \/ BootTarget \/ Publish \/ Event
           /\ spc' = spc /\ storageData' = storageData /\ saved' = saved
           /\ eeprom' = eeprom /\ watched' = watched
           /\ unsaved' = (unsaved \/ (Losing /\ Head(outbox)[2] = watched))
           /\ confirmed' = Confirmed
  BY DEF LateHandlerStep, Handler, Event

\* The first write of the handler comes before it takes any event.
LEMMA BootStatePersists ==
    ASSUME PInv, HandlerStep, BootState
    PROVE  PInv'
<1>1. /\ hpc = "boot" /\ hpc' = "peek" /\ outbox = <<>> /\ outbox' = outbox
      /\ mail' = [mail EXCEPT !["qState"] = mState]
      /\ UNCHANGED <<sUpdateDisplay, qStorageQueue, mState, mNetworkPhase,
                     mCO2TargetCurrent, mCO2TargetPending, mCharPending, mNetworkStrings>>
  BY DEF PInv, HandlerOK, BootState
<1>2. /\ spc' = spc /\ storageData' = storageData /\ saved' = saved
      /\ eeprom' = eeprom /\ watched' = watched /\ unsaved' = unsaved
      /\ confirmed' = confirmed
  <2>1. ~Losing
    BY <1>1 DEF Losing, Storing, Pending
  <2>2. ~Idle
    BY <1>1 DEF Idle
  <2>3. /\ ~ConfirmString /\ ~ConfirmLast /\ ~InsertChar /\ ~RemoveChar /\ ~ToggleToNetwork
    BY <2>2 DEF ConfirmString, ConfirmLast, InsertChar, RemoveChar, ToggleToNetwork, Press
  <2>4. Confirmed = confirmed
    BY <2>3 DEF Confirmed
  <2>5. unsaved \in BOOLEAN
    BY DEF PInv, StorageOK
  <2> QED
    BY <2>1, <2>4, <2>5, LateStepFacts DEF HandlerStep
<1>3. /\ \A box \in MailboxNames \ {"qState"} : mail'[box] = mail[box]
      /\ mail'["qState"] = mState
      /\ mail' = [box \in MailboxNames |-> mail'[box]]
  BY <1>1, BoxFacts DEF PInv, HandlerOK
<1>4. HandlerOK' /\ Distinct(outbox)' /\ StoreLast(outbox)'
  <2>1. \A box \in MailboxNames : mail'[box] \in Values(box) \cup {Empty}
    BY <1>3, BoxFacts DEF PInv, HandlerOK
  <2> QED
    BY <1>1, <1>3, <2>1 DEF PInv, HandlerOK, Distinct, StoreLast
<1>5. StorageOK'
  BY <1>1, <1>2, <1>3, BoxFacts DEF PInv, StorageOK
<1>6. BootOK'
  BY <1>1, <1>2 DEF PInv, BootOK, StringAgreed
<1>7. TargetInv' /\ StringInv'
  <2>1. \A c \in Commands : mail'[Box(c)] = mail[Box(c)]
    BY <1>3, CommandFacts, BoxFacts DEF Box, PhaseSet
  <2> QED
    BY <1>1, <1>2, <2>1, CommandFacts
       DEF PInv, TargetInv, StringInv, StoreDue, InOutbox, InQueue, Peeking, Saving
<1> QED
  BY <1>4, <1>5, <1>6, <1>7 DEF PInv

\* The handler starts from the target Storage has found, if it has found one.
LEMMA BootTargetPersists ==
    ASSUME PInv, HandlerStep, BootTarget
    PROVE  PInv'
<1>1. /\ hpc = "peek" /\ hpc' = "run" /\ outbox = <<>> /\ outbox' = outbox
      /\ Len(outbox) = 0 /\ mail' = mail
      /\ UNCHANGED <<sUpdateDisplay, qStorageQueue, mState, mNetworkPhase,
                     mCharPending, mNetworkStrings>>
  BY DEF PInv, HandlerOK, BootTarget, queueVars
<1>2. \/ /\ mail["qCO2TargetCurrent"] = Empty
         /\ mCO2TargetCurrent' = mCO2TargetCurrent /\ mCO2TargetPending' = mCO2TargetPending
      \/ /\ mail["qCO2TargetCurrent"] \in CO2Targets
         /\ mCO2TargetCurrent' = mail["qCO2TargetCurrent"]
         /\ mCO2TargetPending' = mail["qCO2TargetCurrent"]
  BY BoxFacts DEF BootTarget, PInv, HandlerOK
<1>3. spc # "target"
  BY <1>1 DEF HandlerStep, InTime
<1>4. /\ spc' = spc /\ storageData' = storageData /\ saved' = saved
      /\ eeprom' = eeprom /\ watched' = watched /\ unsaved' = unsaved
      /\ confirmed' = confirmed
  <2>1. ~Losing
    BY <1>1 DEF Losing, Storing, Pending
  <2>2. ~Idle
    BY <1>1 DEF Idle
  <2>3. /\ ~ConfirmString /\ ~ConfirmLast /\ ~InsertChar /\ ~RemoveChar /\ ~ToggleToNetwork
    BY <2>2 DEF ConfirmString, ConfirmLast, InsertChar, RemoveChar, ToggleToNetwork, Press
  <2>4. Confirmed = confirmed
    BY <2>3 DEF Confirmed
  <2>5. unsaved \in BOOLEAN
    BY DEF PInv, StorageOK
  <2> QED
    BY <2>1, <2>4, <2>5, LateStepFacts DEF HandlerStep
<1>5. HandlerOK' /\ Distinct(outbox)' /\ StoreLast(outbox)'
  BY <1>1, <1>2 DEF PInv, HandlerOK, Distinct, StoreLast
<1>6. StorageOK'
  BY <1>1, <1>4 DEF PInv, StorageOK
<1>7. CurrentAgreed'
  <2>1. After("qCO2TargetCurrent")' = mail["qCO2TargetCurrent"]
    BY <1>1, WrittenNot DEF After
  <2> QED
    BY <1>2, <2>1 DEF CurrentAgreed
<1>8. BootOK'
  BY <1>1, <1>3, <1>4, <1>7 DEF PInv, BootOK, StringAgreed
<1>9. TargetInv' /\ StringInv'
  BY <1>1, <1>4 DEF PInv, TargetInv, StringInv, StoreDue, InOutbox, InQueue, Peeking, Saving
<1> QED
  BY <1>5, <1>6, <1>8, <1>9 DEF PInv

\* An event: what is confirmed is in its mailbox, Storage is told, and nothing
\* that follows overwrites it.
LEMMA EventPersists ==
    ASSUME PInv, HandlerStep, Event
    PROVE  PInv'
<1>1. /\ Idle /\ outbox = <<>> /\ Len(outbox) = 0 /\ hpc = "run" /\ hpc' = "run"
      /\ \/ mail' = mail
         \/ mail' = [mail EXCEPT !["qCO2TargetCurrent"] = Empty]
      /\ sUpdateDisplay' = sUpdateDisplay /\ qStorageQueue' = qStorageQueue
  BY EventFrame
<1>2. HandlerOK /\ CurrentAgreed /\ watched \in Commands /\ spc # "target"
  BY <1>1 DEF PInv, BootOK, StorageOK
<1>3. EventAgrees
  BY <1>2, EventsAgree
<1>4. HandlerOK' /\ CurrentAgreed' /\ Distinct(outbox')
  BY <1>2, <1>3, EmptyFacts DEF EventAgrees, Announces
<1>5. /\ spc' = spc /\ storageData' = storageData /\ saved' = saved
      /\ eeprom' = eeprom /\ watched' = watched /\ unsaved' = unsaved
      /\ confirmed' = Confirmed
  <2>1. ~Losing
    BY <1>1 DEF Losing, Storing, Pending
  <2>2. unsaved \in BOOLEAN
    BY DEF PInv, StorageOK
  <2> QED
    BY <2>1, <2>2, LateStepFacts DEF HandlerStep
<1>6. StoreLast(outbox')
  BY <1>2, EventOps
<1>7. StorageOK'
  <2>2. Confirmed \in BoundedStrings \cup {Unknown, Replaced}
    <3>1. watched \in PhaseSet => mNetworkStrings[watched] \in BoundedStrings
      BY <1>2 DEF HandlerOK
    <3>2. mNetworkPhase = watched => watched \in PhaseSet
      BY <1>2 DEF HandlerOK
    <3>3. confirmed \in BoundedStrings \cup {Unknown, Replaced}
      BY DEF PInv, StorageOK
    <3>4. CASE mNetworkPhase = watched /\ (ConfirmString \/ ConfirmLast)
      BY <3>1, <3>2, <3>4, ConfirmOps DEF Confirmed
    <3>5. CASE ~(mNetworkPhase = watched /\ (ConfirmString \/ ConfirmLast))
      BY <3>3, <3>5 DEF Confirmed
    <3> QED
      BY <3>4, <3>5
  <2>3. qStorageQueue \in Seq(Commands) /\ storageData \in Commands
    BY DEF PInv, StorageOK
  <2> QED
    BY <1>1, <1>5, <2>2, <2>3 DEF PInv, StorageOK
<1>8. BootOK'
  <2> SUFFICES ASSUME watched \in PhaseSet, Confirmed # Replaced
               PROVE  StringAgreed(watched)'
    BY <1>1, <1>2, <1>4, <1>5 DEF BootOK
  <2>1. PICK p \in PhaseSet : p = watched
    OBVIOUS
  <2>2. CASE ToggleToNetwork \/ ((InsertChar \/ RemoveChar) /\ mNetworkPhase = p)
    <3>1. StringAgreed(p)'
      BY <1>2, <2>2, EditsAgree
    <3> QED
      BY <1>5, <2>1, <3>1 DEF StringAgreed
  <2>3. CASE ~(ToggleToNetwork \/ ((InsertChar \/ RemoveChar) /\ mNetworkPhase = p))
    <3>1. confirmed # Replaced
      BY <2>1, <2>3 DEF Confirmed
    <3>2. StringAgreed(p)
      BY <2>1, <3>1 DEF PInv, BootOK
    <3>3. StringAgreed(p)'
      BY <1>3, <3>2 DEF EventAgrees
    <3> QED
      BY <1>5, <2>1, <3>3 DEF StringAgreed
  <2> QED
    BY <2>2, <2>3
<1>9. /\ ~InOutbox(watched)
      /\ InQueue(watched)' <=> InQueue(watched)
      /\ Peeking(watched)' <=> Peeking(watched)
      /\ Saving(watched)' <=> Saving(watched)
  BY <1>1, <1>5 DEF InOutbox, InQueue, Peeking, Saving
<1>10. TargetInv'
  <2>1. \/ mail'["qCO2TargetCurrent"] = mail["qCO2TargetCurrent"]
        \/ mail'["qCO2TargetCurrent"] = Empty
    <3>1. mail = [box \in MailboxNames |-> mail[box]]
      BY <1>2 DEF HandlerOK
    <3> QED
      BY <1>1, <3>1, BoxFacts
  <2> QED
    BY <1>5, <1>9, <2>1 DEF PInv, TargetInv, StoreDue
<1>11. StringInv'
  <2> SUFFICES ASSUME watched \in PhaseSet, Confirmed \notin {Unknown, Replaced}
               PROVE  StringInv'
    BY <1>5 DEF StringInv
  <2>1. mail'[watched] = mail[watched]
    <3>1. mail = [box \in MailboxNames |-> mail[box]]
      BY <1>2 DEF HandlerOK
    <3> QED
      BY <1>1, <3>1, BoxFacts, CommandFacts
  <2>2. CASE mNetworkPhase = watched /\ (ConfirmString \/ ConfirmLast)
    <3>1. Confirmed = mNetworkStrings[watched] /\ confirmed # Replaced
      BY <2>2 DEF Confirmed
    <3>2. mail[watched] = mNetworkStrings[watched]
      <4>1. mState = "NETWORK" /\ After(watched) = mail[watched]
        BY <1>1, <2>2, ConfirmOps, IdleFacts, BoxFacts
      <4> QED
        BY <3>1, <4>1 DEF PInv, BootOK, StringAgreed
    <3>3. \A i \in 1..Len(outbox') : outbox'[i][1] # watched
      BY <1>2, <2>2, EventOps, ConfirmOps
    <3>4. InOutbox(watched)'
      BY <1>5, <2>2, ConfirmOps DEF InOutbox
    <3> QED
      BY <1>5, <2>1, <3>1, <3>2, <3>3, <3>4 DEF StringInv, StoreDue
  <2>3. CASE ~(mNetworkPhase = watched /\ (ConfirmString \/ ConfirmLast))
    <3>1. /\ Confirmed = confirmed
          /\ ~ToggleToNetwork /\ ~((InsertChar \/ RemoveChar) /\ mNetworkPhase = watched)
      BY <2>3 DEF Confirmed
    <3>2. \A i \in 1..Len(outbox') : outbox'[i][1] # watched /\ outbox'[i] # Store(watched)
      BY <1>2, <2>3, <3>1, EventOps
    <3>3. ~InOutbox(watched)'
      BY <1>5, <3>2 DEF InOutbox
    <3> QED
      BY <1>5, <1>9, <2>1, <3>1, <3>2, <3>3 DEF PInv, StringInv, StoreDue
  <2> QED
    BY <2>2, <2>3
<1> QED
  BY <1>4, <1>6, <1>7, <1>8, <1>10, <1>11 DEF PInv

\* An operation of the outbox leaves Storage as much to do as before: what is
\* told moves to the queue, or is known to be lost.
LEMMA PublishDue ==
    ASSUME PInv, HandlerStep, Publish
    PROVE  /\ unsaved \/ StoreDue(watched) => unsaved' \/ StoreDue(watched)'
           /\ unsaved' \/ StoreDue(watched)' => unsaved \/ StoreDue(watched)
           /\ unsaved => unsaved'
           /\ qStorageQueue' \in Seq(Commands)
<1>1. /\ outbox # <<>> /\ Head(outbox) = outbox[1]
      /\ Len(outbox) \in Nat /\ Len(outbox) > 0 /\ Len(outbox') = Len(outbox) - 1
      /\ outbox' = Tail(outbox) /\ outbox[1] \in Operations
      /\ \A i \in 1..Len(outbox) - 1 : outbox'[i] = outbox[i + 1]
  BY PublishFacts DEF PInv
<1>2. /\ spc' = spc /\ storageData' = storageData /\ watched' = watched
      /\ unsaved' = (unsaved \/ (Losing /\ Head(outbox)[2] = watched))
  BY LateStepFacts DEF HandlerStep
<1>3. PICK w \in Commands : w = watched
  BY DEF PInv, StorageOK
<1>4. Peeking(watched)' <=> Peeking(watched)
  BY <1>2 DEF Peeking
<1>5. qStorageQueue \in Seq(Commands)
  BY DEF PInv, StorageOK
<1>6. \A i \in 1..Len(outbox') : i + 1 \in 1..Len(outbox) /\ outbox'[i] = outbox[i + 1]
  BY <1>1
<1>7. ASSUME NEW i \in 1..Len(outbox), i # 1
      PROVE  i - 1 \in 1..Len(outbox') /\ outbox'[i - 1] = outbox[i]
  <2>1. i - 1 \in 1..Len(outbox) - 1 /\ (i - 1) + 1 = i
    BY <1>1, <1>7
  <2> QED
    BY <1>1, <2>1
<1>8. InOutbox(w) <=> outbox[1] = Store(w) \/ InOutbox(w)'
  <2>1. InOutbox(w) => outbox[1] = Store(w) \/ InOutbox(w)'
    BY <1>7 DEF InOutbox
  <2>2. InOutbox(w)' => InOutbox(w)
    BY <1>6 DEF InOutbox
  <2>3. outbox[1] = Store(w) => InOutbox(w)
    BY <1>1 DEF InOutbox
  <2> QED
    BY <2>1, <2>2, <2>3
<1>9. CASE outbox[1][1] = "store"
  <2>1. PICK c \in Commands : outbox[1] = Store(c)
    <3>1. ~(outbox[1][1] \in MailboxNames)
      BY <1>9 DEF MailboxNames, PhaseSet
    <3> QED
      BY <1>1, <1>9, <3>1, CommandFacts
         DEF Operations, Overwrites, Overwrite, Stores, Redraw, Update
  <2>2. outbox[1][2] = c /\ (c = w <=> outbox[1] = Store(w))
    BY <1>3, <2>1, StoreFacts
  <2>3. CASE StoreQueued
    <3>1. qStorageQueue' = Append(qStorageQueue, c)
      BY <1>1, <2>2, <2>3, QueuedAssumption DEF StoreQueued
    <3>2. /\ qStorageQueue' \in Seq(Commands) /\ Len(qStorageQueue) \in Nat
          /\ Len(qStorageQueue') = Len(qStorageQueue) + 1
          /\ qStorageQueue'[Len(qStorageQueue) + 1] = c
          /\ \A i \in 1..Len(qStorageQueue) : qStorageQueue'[i] = qStorageQueue[i]
      BY <1>5, <3>1
    <3>3. InQueue(w)' <=> InQueue(w) \/ c = w
      BY <3>2 DEF InQueue
    <3>4. StoreDue(watched)' <=> StoreDue(watched)
      BY <1>2, <1>3, <1>4, <1>8, <2>2, <3>3 DEF StoreDue
    <3>5. Head(outbox)[2] = watched => StoreDue(watched)
      BY <1>1, <1>3, <1>8, <2>2 DEF StoreDue
    <3> QED
      BY <1>2, <3>2, <3>4, <3>5
  <2>4. CASE StoreLost
    <3>1. Losing /\ qStorageQueue' = qStorageQueue
      BY <1>1, <2>4 DEF StoreLost, Losing, Storing, Pending, queueVars
    <3>2. unsaved' = (unsaved \/ c = w)
      BY <1>1, <1>2, <1>3, <2>2, <3>1
    <3>3. InQueue(w)' <=> InQueue(w)
      BY <3>1 DEF InQueue
    <3>4. StoreDue(watched)' \/ c = w <=> StoreDue(watched)
      BY <1>2, <1>3, <1>4, <1>8, <2>2, <3>3 DEF StoreDue
    <3> QED
      BY <1>5, <3>1, <3>2, <3>4
  <2>5. ~OverwriteMailbox /\ ~GiveDisplay /\ ~GiveGreenhouse
    BY <1>1, <1>9 DEF OverwriteMailbox, GiveDisplay, GiveGreenhouse, Redraw, Update,
       MailboxNames, PhaseSet
  <2> QED
    BY <2>3, <2>4, <2>5 DEF Publish
<1>10. CASE outbox[1][1] # "store"
  <2>1. qStorageQueue' = qStorageQueue /\ ~Losing
    BY <1>1, <1>10 DEF Publish, OverwriteMailbox, GiveDisplay, GiveGreenhouse, StoreQueued,
       StoreLost, Losing, Storing, queueVars
  <2>2. unsaved' = unsaved
    <3>1. unsaved \in BOOLEAN
      BY DEF PInv, StorageOK
    <3> QED
      BY <1>2, <2>1, <3>1
  <2>3. outbox[1] # Store(w) /\ (InQueue(w)' <=> InQueue(w))
    BY <1>3, <1>10, <2>1, StoreFacts DEF InQueue
  <2>4. StoreDue(watched)' <=> StoreDue(watched)
    BY <1>2, <1>3, <1>4, <1>8, <2>3 DEF StoreDue
  <2> QED
    BY <1>5, <2>1, <2>2, <2>4
<1> QED
  BY <1>9, <1>10

LEMMA PublishPersists ==
    ASSUME PInv, HandlerStep, Publish
    PROVE  PInv'
<1>1. /\ hpc = "run" /\ hpc' = "run" /\ outbox # <<>> /\ outbox' = Tail(outbox)
      /\ Len(outbox) \in Nat /\ Len(outbox) > 0 /\ Len(outbox') = Len(outbox) - 1
      /\ \A i \in 1..Len(outbox) - 1 : outbox'[i] = outbox[i + 1]
      /\ \/ /\ outbox[1][1] \in MailboxNames /\ outbox[1][2] \in Values(outbox[1][1])
            /\ \A box \in MailboxNames :
                  mail'[box] = IF box = outbox[1][1] THEN outbox[1][2] ELSE mail[box]
         \/ /\ outbox[1][1] \notin MailboxNames
            /\ mail' = mail
  BY PublishFacts DEF PInv
<1>2. UNCHANGED <<hpc, mState, mNetworkPhase, mCO2TargetCurrent, mCO2TargetPending,
                  mCharPending, mNetworkStrings>>
  BY DEF Publish
<1>3. /\ spc' = spc /\ storageData' = storageData /\ saved' = saved
      /\ eeprom' = eeprom /\ watched' = watched /\ confirmed' = confirmed
      /\ unsaved' \in BOOLEAN
  <2>1. ~Idle
    BY <1>1 DEF Idle
  <2>2. /\ ~ConfirmString /\ ~ConfirmLast /\ ~InsertChar /\ ~RemoveChar /\ ~ToggleToNetwork
    BY <2>1 DEF ConfirmString, ConfirmLast, InsertChar, RemoveChar, ToggleToNetwork, Press
  <2>3. Confirmed = confirmed
    BY <2>2 DEF Confirmed
  <2> QED
    BY <2>3, LateStepFacts DEF HandlerStep
<1>4. /\ Distinct(outbox') /\ outbox' \in Seq(Operations)
      /\ mail' = [box \in MailboxNames |-> mail'[box]]
      /\ \A box \in MailboxNames : /\ mail'[box] \in Values(box) \cup {Empty}
                                   /\ After(box)' = After(box)
      /\ sUpdateDisplay' \in BOOLEAN
  BY PublishWritten DEF PInv
<1>5. HandlerOK'
  BY <1>1, <1>2, <1>4 DEF PInv, HandlerOK
<1>6. StoreLast(outbox')
  <2> SUFFICES ASSUME NEW i \in 1..Len(outbox'), outbox'[i][1] = "qCO2TargetCurrent"
               PROVE  \E j \in i + 1..Len(outbox') : outbox'[j] = Store("CO2_target")
    BY DEF StoreLast
  <2>1. i + 1 \in 1..Len(outbox) /\ outbox[i + 1][1] = "qCO2TargetCurrent"
    BY <1>1
  <2>2. PICK j \in (i + 1) + 1..Len(outbox) : outbox[j] = Store("CO2_target")
    BY <2>1 DEF PInv, StoreLast
  <2>3. j - 1 \in i + 1..Len(outbox') /\ j - 1 \in 1..Len(outbox) - 1 /\ (j - 1) + 1 = j
    BY <1>1, <2>1, <2>2
  <2>4. outbox'[j - 1] = Store("CO2_target")
    BY <1>1, <2>2, <2>3
  <2> QED
    BY <2>3, <2>4
<1>7. spc # "target" /\ CurrentAgreed
  BY <1>1 DEF PInv, BootOK
<1>8. StorageOK'
  BY <1>3, PublishDue DEF PInv, StorageOK
<1>9. BootOK'
  <2>1. CurrentAgreed'
    BY <1>2, <1>4, <1>7, BoxFacts DEF CurrentAgreed
  <2>2. ASSUME watched \in PhaseSet, confirmed # Replaced PROVE StringAgreed(watched)'
    <3>1. StringAgreed(watched)
      BY <2>2 DEF PInv, BootOK
    <3>2. After(watched)' = After(watched)
      <4>1. PICK p \in MailboxNames : p = watched
        BY <2>2, BoxFacts
      <4>2. After(p)' = After(p)
        BY <1>4
      <4> QED
        BY <1>3, <4>1, <4>2 DEF After
    <3> QED
      BY <1>2, <1>3, <3>1, <3>2 DEF StringAgreed
  <2> QED
    BY <1>1, <1>3, <1>7, <2>1, <2>2 DEF BootOK
<1>10. Saving(watched)' <=> Saving(watched)
  BY <1>3 DEF Saving
<1>11. TargetInv'
  <2> SUFFICES ASSUME watched = "CO2_target", ~unsaved'
               PROVE  TargetInv'
    BY <1>3 DEF TargetInv
  <2>1. ~unsaved /\ (StoreDue(watched)' <=> StoreDue(watched))
    BY PublishDue
  <2>2. CASE outbox[1][1] = "qCO2TargetCurrent"
    <3>1. PICK j \in 1 + 1..Len(outbox) : outbox[j] = Store("CO2_target")
      BY <1>1, <2>2 DEF PInv, StoreLast
    <3>2. j \in 1..Len(outbox)
      BY <1>1, <3>1
    <3>3. StoreDue(watched)
      BY <3>1, <3>2 DEF StoreDue, InOutbox
    <3> QED
      BY <2>1, <3>3 DEF TargetInv
  <2>3. CASE outbox[1][1] # "qCO2TargetCurrent"
    <3>1. mail'["qCO2TargetCurrent"] = mail["qCO2TargetCurrent"]
      BY <1>1, <2>3, BoxFacts
    <3> QED
      BY <1>3, <1>10, <2>1, <3>1 DEF PInv, TargetInv
  <2> QED
    BY <2>2, <2>3
<1>12. StringInv'
  <2> SUFFICES ASSUME watched \in PhaseSet, confirmed \notin {Unknown, Replaced}
               PROVE  StringInv'
    BY <1>3 DEF StringInv
  <2>1. ASSUME unsaved' \/ StoreDue(watched)' \/ Saving(watched)'
        PROVE  /\ mail'[watched] = confirmed
               /\ \A i \in 1..Len(outbox') : outbox'[i][1] # watched
    <3>1. /\ mail[watched] = confirmed
          /\ \A i \in 1..Len(outbox) : outbox[i][1] # watched
      BY <1>10, <2>1, PublishDue DEF PInv, StringInv
    <3>2. outbox[1][1] # watched
      BY <1>1, <3>1
    <3>3. mail'[watched] = mail[watched]
      BY <1>1, <3>2, BoxFacts
    <3>4. \A i \in 1..Len(outbox') : outbox'[i] = outbox[i + 1] /\ i + 1 \in 1..Len(outbox)
      BY <1>1
    <3> QED
      BY <3>1, <3>3, <3>4
  <2>2. \/ unsaved' \/ StoreDue(watched)'
        \/ confirmed' = IF Saving(watched)' THEN saved' ELSE eeprom'[watched']
    BY <1>3, <1>10, PublishDue DEF PInv, StringInv
  <2> QED
    BY <1>3, <2>1, <2>2 DEF StringInv
<1> QED
  BY <1>4, <1>5, <1>6, <1>8, <1>9, <1>11, <1>12 DEF PInv

-------------------------------------------------------------------------------
\* Steps of Storage

\* What a step of Storage leaves alone.
LEMMA StorageFrame ==
    ASSUME PInv, StorageStep
    PROVE  /\ UNCHANGED <<hpc, outbox, mState, mNetworkPhase, mCO2TargetCurrent,
                          mCO2TargetPending, mCharPending, mNetworkStrings>>
           /\ watched' = watched /\ sUpdateDisplay' = sUpdateDisplay
           /\ confirmed' = confirmed \/ (confirmed' = Replaced /\ mail' # mail)
           /\ outbox \in Seq(Operations) /\ Distinct(outbox)' /\ StoreLast(outbox)'
           /\ InOutbox(watched)' <=> InOutbox(watched)
<1>1. /\ UNCHANGED <<handlerVars, watched>>
      /\ confirmed' = confirmed \/ (confirmed' = Replaced /\ mail' # mail)
  BY DEF StorageStep, Replacing
<1>2. sUpdateDisplay' = sUpdateDisplay
  BY DEF StorageStep, StorageTask, ReadTarget, FillPending, ReadString, Receive, PeekToSave,
     StartWrite, EndWrite, WriteFails, ReportLost, ResetLost, queueVars
<1> QED
  BY <1>1, <1>2 DEF handlerVars, PInv, HandlerOK, Distinct, StoreLast, InOutbox

\* While it reads the EEPROM only the mailboxes and its place change.  The user
\* may have begun to enter strings: what is put over them is known to be replaced.
LEMMA BootReads ==
    ASSUME PInv, StorageStep, spc \in Booting,
           UNCHANGED <<qStorageQueue, storageData, eeprom, unsaved>>,
           spc' \in (Booting \ {"target"}) \cup {"receive"},
           spc' = "pending" => saved' \in CO2Targets,
           mail' = [box \in MailboxNames |-> mail'[box]],
           \A box \in MailboxNames : mail'[box] \in Values(box) \cup {Empty},
           \A p \in PhaseSet : p # spc => mail'[p] = mail[p],
           mail'["qCO2TargetCurrent"] \in {mail["qCO2TargetCurrent"], eeprom["CO2_target"]},
           spc # "target" => mail'["qCO2TargetCurrent"] = mail["qCO2TargetCurrent"]
    PROVE  PInv'
<1>1. HandlerOK' /\ Distinct(outbox)' /\ StoreLast(outbox)'
  BY StorageFrame DEF PInv, HandlerOK
<1>2. StorageOK'
  BY StorageFrame DEF PInv, StorageOK, Booting, PhaseSet
<1>3. /\ StoreDue(watched)' <=> StoreDue(watched)
      /\ ~Saving(watched) /\ ~Saving(watched)'
  <2>1. /\ spc # "peek" /\ spc # "put" /\ spc # "writing"
        /\ spc' # "peek" /\ spc' # "put" /\ spc' # "writing"
    BY DEF Booting, PhaseSet
  <2> QED
    BY <2>1, StorageFrame DEF StoreDue, InQueue, Peeking, Saving
<1>4. ASSUME watched \in PhaseSet, confirmed' # Replaced
      PROVE  /\ confirmed' = confirmed
             /\ mail'[watched] = mail[watched] \/ mail[watched] = Empty
  <2>1. confirmed' = IF Replacing THEN Replaced ELSE confirmed
    BY DEF StorageStep
  <2> QED
    BY <1>4, <2>1 DEF Replacing
<1>5. BootOK'
  <2>1. hpc = "run" => CurrentAgreed'
    <3>1. ASSUME hpc = "run" PROVE CurrentAgreed'
      <4>1. CurrentAgreed /\ mail'["qCO2TargetCurrent"] = mail["qCO2TargetCurrent"]
        BY <3>1 DEF PInv, BootOK
      <4> QED
        BY <4>1, StorageFrame DEF CurrentAgreed, After, Written
    <3> QED
      BY <3>1
  <2>2. ASSUME watched \in PhaseSet, confirmed' # Replaced PROVE StringAgreed(watched)'
    <3>1. StringAgreed(watched)
      BY <1>4, <2>2 DEF PInv, BootOK
    <3>2. CASE mail'[watched] = mail[watched]
      BY <3>1, <3>2, StorageFrame DEF StringAgreed, After, Written
    <3>3. CASE mail[watched] = Empty /\ mState = "NETWORK"
      <4>1. PICK p \in MailboxNames : p = watched /\ Values(p) = BoundedStrings
        BY <2>2, BoxFacts
      <4>2. After(watched) = mNetworkStrings[watched] /\ mNetworkStrings[p] \in Values(p)
        BY <2>2, <3>1, <3>3, <4>1 DEF StringAgreed, PInv, HandlerOK
      <4>3. After(watched) # Empty
        BY <4>1, <4>2, ValueFacts
      <4>4. \E i \in 1..Len(outbox) : outbox[i][1] = watched
        BY <3>3, <4>3 DEF After, Written
      <4>5. After(watched)' = After(watched)
        BY <4>4, StorageFrame DEF After, Written
      <4> QED
        BY <4>2, <4>5, StorageFrame DEF StringAgreed
    <3>4. CASE mState # "NETWORK"
      BY <3>4, StorageFrame DEF StringAgreed
    <3> QED
      BY <1>4, <2>2, <3>2, <3>3, <3>4
  <2>3. spc' # "target"
    BY DEF Booting, PhaseSet
  <2> QED
    BY <2>1, <2>2, <2>3, StorageFrame DEF PInv, BootOK
<1>6. TargetInv'
  BY <1>3, StorageFrame DEF PInv, TargetInv
<1>7. StringInv'
  <2> SUFFICES ASSUME watched \in PhaseSet, confirmed' \notin {Unknown, Replaced}
               PROVE  StringInv'
    BY StorageFrame DEF StringInv
  <2>1. confirmed' = confirmed /\ (mail'[watched] = mail[watched] \/ mail[watched] = Empty)
    BY <1>4
  <2>2. /\ unsaved \/ StoreDue(watched) =>
              /\ mail[watched] = confirmed
              /\ \A i \in 1..Len(outbox) : outbox[i][1] # watched
        /\ unsaved \/ StoreDue(watched) \/ confirmed = eeprom[watched]
    BY <1>3, <2>1 DEF PInv, StringInv
  <2>3. confirmed # Empty
    <3>1. PICK p \in MailboxNames : Values(p) = BoundedStrings
      BY BoxFacts
    <3>2. confirmed \in BoundedStrings
      BY <2>1 DEF PInv, StorageOK
    <3> QED
      BY <3>1, <3>2, ValueFacts
  <2> QED
    BY <1>3, <2>1, <2>2, <2>3, StorageFrame DEF StringInv
<1> QED
  BY <1>1, <1>2, <1>5, <1>6, <1>7 DEF PInv

\* What Storage copies to the mailboxes is what the EEPROM holds.
LEMMA BootPersists ==
    ASSUME PInv, StorageStep,
           \/ \E read \in CO2Targets \cup {Empty} : ReadTarget(read)
           \/ FillPending
           \/ \E read \in {eeprom[p] : p \in PhaseSet} \cup {Empty} : ReadString(read)
    PROVE  PInv'
<1> USE BoxFacts
<1>1. /\ spc \in Booting /\ ~PeekToSave /\ ~WriteFails
      /\ UNCHANGED <<qStorageQueue, storageData, eeprom>>
  BY DEF ReadTarget, FillPending, ReadString, PeekToSave, WriteFails, Booting, PhaseSet
<1>2. unsaved' = unsaved
  BY <1>1 DEF StorageStep
<1>3. /\ mail = [box \in MailboxNames |-> mail[box]]
      /\ \A box \in MailboxNames : mail[box] \in Values(box) \cup {Empty}
      /\ \A p \in PhaseSet : eeprom[p] \in BoundedStrings \cup {Empty}
  BY DEF PInv, HandlerOK, StorageOK
<1>5. CASE \E read \in CO2Targets \cup {Empty} : ReadTarget(read)
  <2>1. PICK read \in CO2Targets \cup {Empty} : ReadTarget(read)
    BY <1>5
  <2>2. CASE read \in CO2Targets
    <3>1. /\ mail' = [mail EXCEPT !["qCO2TargetCurrent"] = read]
          /\ saved' = read /\ spc' = "pending" /\ spc = "target"
      BY <2>1, <2>2 DEF ReadTarget
    <3>2. read = eeprom["CO2_target"]
      BY <2>1, <2>2, ValueFacts DEF ReadTarget
    <3>3. /\ mail' = [box \in MailboxNames |-> mail'[box]]
          /\ mail'["qCO2TargetCurrent"] = read
          /\ \A box \in MailboxNames \ {"qCO2TargetCurrent"} : mail'[box] = mail[box]
          /\ \A p \in PhaseSet : mail'[p] = mail[p]
      BY <1>3, <3>1, CommandFacts
    <3>4. \A box \in MailboxNames : mail'[box] \in Values(box) \cup {Empty}
      BY <1>3, <2>2, <3>3
    <3>5. spc' \in (Booting \ {"target"}) \cup {"receive"}
      BY <3>1 DEF Booting
    <3> QED
      BY <1>1, <1>2, <2>2, <3>1, <3>2, <3>3, <3>4, <3>5, BootReads
  <2>3. CASE read \notin CO2Targets
    <3>1. mail' = mail /\ spc' = "NEW_API" /\ spc = "target"
      BY <2>1, <2>3 DEF ReadTarget, BootOrder
    <3>2. spc' \in (Booting \ {"target"}) \cup {"receive"}
      BY <3>1 DEF Booting, PhaseSet
    <3> QED
      BY <1>1, <1>2, <1>3, <3>1, <3>2, BootReads
  <2> QED
    BY <2>2, <2>3
<1>6. CASE FillPending
  <2>1. /\ mail' = [mail EXCEPT !["qCO2TargetPending"] = saved] /\ spc' = "NEW_API"
        /\ saved \in CO2Targets
    BY <1>6 DEF FillPending, BootOrder, PInv, StorageOK
  <2>2. /\ mail' = [box \in MailboxNames |-> mail'[box]]
        /\ mail'["qCO2TargetPending"] = saved
        /\ \A box \in MailboxNames \ {"qCO2TargetPending"} : mail'[box] = mail[box]
        /\ \A p \in PhaseSet : mail'[p] = mail[p]
    BY <1>3, <2>1 DEF PhaseSet
  <2>3. \A box \in MailboxNames : mail'[box] \in Values(box) \cup {Empty}
    BY <1>3, <2>1, <2>2
  <2>4. spc' \in (Booting \ {"target"}) \cup {"receive"}
    BY <2>1 DEF Booting, PhaseSet
  <2> QED
    BY <1>1, <1>2, <2>1, <2>2, <2>3, <2>4, BootReads
<1>7. CASE \E read \in {eeprom[p] : p \in PhaseSet} \cup {Empty} : ReadString(read)
  <2>1. PICK read : ReadString(read)
    BY <1>7
  <2>2. spc \in PhaseSet /\ read \in BoundedStrings \cup {Empty}
    BY <1>3, <2>1 DEF ReadString
  <2>3. /\ mail' = [box \in MailboxNames |-> mail'[box]]
        /\ \A box \in MailboxNames : mail'[box] \in Values(box) \cup {Empty}
        /\ \A box \in MailboxNames \ PhaseSet : mail'[box] = mail[box]
        /\ \A p \in PhaseSet : p # spc => mail'[p] = mail[p]
    <3>1. CASE read \in {Empty, <<>>}
      BY <1>3, <2>1, <3>1 DEF ReadString
    <3>2. CASE read \notin {Empty, <<>>}
      <4>1. mail' = [mail EXCEPT ![spc] = read]
        BY <2>1, <3>2 DEF ReadString
      <4> QED
        BY <1>3, <2>2, <3>2, <4>1
    <3> QED
      BY <3>1, <3>2
  <2>4. spc' \in {"NEW_PW", "NEW_SSID", "receive"}
    <3> DEFINE i == CHOOSE i \in 1..3 : BootOrder[i] = spc
    <3>1. i \in 1..3
      BY <2>2 DEF BootOrder, PhaseSet
    <3>2. spc' = IF i = 3 THEN "receive" ELSE BootOrder[i + 1]
      BY <2>1 DEF ReadString
    <3> HIDE DEF i
    <3>3. i \in {1, 2, 3}
      BY <3>1
    <3> QED
      BY <3>2, <3>3 DEF BootOrder
  <2>5. spc' \in (Booting \ {"target"}) \cup {"receive"} /\ spc' # "pending"
    BY <2>4 DEF Booting, PhaseSet
  <2>6. "qCO2TargetCurrent" \in MailboxNames \ PhaseSet
    BY DEF PhaseSet
  <2> QED
    BY <1>1, <1>2, <2>3, <2>5, <2>6, BootReads
<1> QED
  BY <1>5, <1>6, <1>7

\* Once it has booted, Storage changes no mailbox.
LEMMA CommandFrame ==
    ASSUME PInv, StorageStep, spc \notin Booting, spc' \notin Booting, mail' = mail,
           storageData' \in Commands, qStorageQueue' \in Seq(Commands),
           spc' \in {"receive", "peek", "put", "writing", "reset"},
           spc' \in {"put", "writing"} => saved' \in Values(Box(storageData')),
           eeprom' = [c \in Commands |-> eeprom'[c]],
           \A p \in PhaseSet : eeprom'[p] \in BoundedStrings \cup {Empty},
           unsaved' \in BOOLEAN, TargetInv', StringInv'
    PROVE  PInv'
<1>1. HandlerOK' /\ Distinct(outbox)' /\ StoreLast(outbox)'
  BY StorageFrame DEF PInv, HandlerOK
<1>2. StorageOK'
  BY StorageFrame DEF PInv, StorageOK, Booting
<1>3. BootOK'
  <2>1. outbox' = outbox /\ confirmed' = confirmed
    BY StorageFrame
  <2>2. hpc = "run" => CurrentAgreed'
    BY <2>1, StorageFrame DEF PInv, BootOK, CurrentAgreed, After, Written
  <2>3. StringAgreed(watched) => StringAgreed(watched)'
    BY <2>1, StorageFrame DEF StringAgreed, After, Written
  <2>4. spc' # "target"
    BY DEF Booting
  <2> QED
    BY <2>1, <2>2, <2>3, <2>4, StorageFrame DEF PInv, BootOK
<1> QED
  BY <1>1, <1>2, <1>3 DEF PInv

\* Taken from the queue, a command is looked at next.
LEMMA ReceivePersists ==
    ASSUME PInv, StorageStep, Receive
    PROVE  PInv'
<1>1. /\ spc = "receive" /\ spc' = "peek" /\ qStorageQueue # <<>>
      /\ storageData' = Head(qStorageQueue) /\ qStorageQueue' = Tail(qStorageQueue)
      /\ mail' = mail /\ saved' = saved /\ eeprom' = eeprom
  BY DEF Receive
<1>2. unsaved' = unsaved
  BY <1>1 DEF StorageStep, WriteFails, PeekToSave
<1>3. qStorageQueue \in Seq(Commands) /\ watched \in Commands
  BY DEF PInv, StorageOK
<1>4. /\ storageData' = qStorageQueue[1] /\ storageData' \in Commands
      /\ qStorageQueue' \in Seq(Commands)
      /\ Len(qStorageQueue) \in Nat /\ Len(qStorageQueue) > 0
      /\ Len(qStorageQueue') = Len(qStorageQueue) - 1
      /\ \A i \in 1..Len(qStorageQueue) - 1 : qStorageQueue'[i] = qStorageQueue[i + 1]
  BY <1>1, <1>3, TailFacts
<1>5. StoreDue(watched)' <=> StoreDue(watched)
  <2>1. PICK w \in Commands : w = watched
    BY <1>3
  <2>2. InQueue(w) => InQueue(w)' \/ Peeking(w)'
    <3>1. ASSUME NEW i \in 1..Len(qStorageQueue), qStorageQueue[i] = w, i # 1
          PROVE  InQueue(w)'
      <4>1. i - 1 \in 1..Len(qStorageQueue) - 1 /\ (i - 1) + 1 = i
        BY <1>4, <3>1
      <4>2. i - 1 \in 1..Len(qStorageQueue') /\ qStorageQueue'[i - 1] = w
        BY <1>4, <3>1, <4>1
      <4> QED
        BY <4>2 DEF InQueue
    <3>2. qStorageQueue[1] = w => Peeking(w)'
      BY <1>1, <1>4 DEF Peeking
    <3> QED
      BY <3>1, <3>2 DEF InQueue
  <2>3. Peeking(w)' => InQueue(w)
    <3>1. Peeking(w)' => qStorageQueue[1] = w
      BY <1>4 DEF Peeking
    <3>2. 1 \in 1..Len(qStorageQueue)
      BY <1>4
    <3> QED
      BY <3>1, <3>2 DEF InQueue
  <2>4. InQueue(w)' => InQueue(w)
    <3>1. \A i \in 1..Len(qStorageQueue') :
             i + 1 \in 1..Len(qStorageQueue) /\ qStorageQueue'[i] = qStorageQueue[i + 1]
      BY <1>4
    <3> QED
      BY <3>1 DEF InQueue
  <2>5. ~Peeking(w)
    BY <1>1 DEF Peeking
  <2> QED
    BY <2>1, <2>2, <2>3, <2>4, <2>5, StorageFrame DEF StoreDue
<1>6. ~Saving(watched) /\ ~Saving(watched)'
  BY <1>1 DEF Saving
<1>7. TargetInv' /\ StringInv'
  BY <1>1, <1>2, <1>5, <1>6, StorageFrame DEF PInv, TargetInv, StringInv
<1>8. spc \notin Booting /\ spc' \notin Booting
  BY <1>1 DEF Booting, PhaseSet
<1> QED
  BY <1>1, <1>2, <1>4, <1>7, <1>8, CommandFrame DEF PInv, StorageOK

\* What Storage saves is in the mailbox when it looks: what was confirmed, or
\* the target in force.
LEMMA PeekPersists ==
    ASSUME PInv, StorageStep, PeekToSave
    PROVE  PInv'
<1>1. /\ spc = "peek" /\ mail' = mail /\ qStorageQueue' = qStorageQueue
      /\ storageData' = storageData /\ eeprom' = eeprom
      /\ \/ mail[Box(storageData)] = Empty /\ spc' = "receive" /\ saved' = saved
         \/ /\ mail[Box(storageData)] # Empty
            /\ spc' = "put" /\ saved' = mail[Box(storageData)]
  BY DEF PeekToSave, queueVars
<1>2. /\ storageData = watched => unsaved' = FALSE
      /\ storageData # watched => unsaved' = unsaved
  BY <1>1 DEF StorageStep, WriteFails
<1>3. /\ storageData \in Commands /\ Box(storageData) \in MailboxNames
      /\ watched \in Commands /\ qStorageQueue \in Seq(Commands)
  BY CommandFacts DEF PInv, StorageOK
<1>4. mail[Box(storageData)] \in Values(Box(storageData)) \cup {Empty}
  BY <1>3 DEF PInv, HandlerOK
<1>5. InQueue(watched)' <=> InQueue(watched)
  BY <1>1, StorageFrame DEF InQueue
<1>6. ~Peeking(watched)' /\ ~Saving(watched)
  BY <1>1 DEF Peeking, Saving
<1>7. TargetInv' /\ StringInv'
  <2>1. CASE storageData = watched
    <3>1. StoreDue(watched)
      BY <1>1, <2>1 DEF StoreDue, Peeking
    <3>2. TargetInv'
      BY <1>1, <1>2, <2>1, CommandFacts, StorageFrame DEF TargetInv, Saving
    <3>3. StringInv'
      <4> SUFFICES ASSUME watched \in PhaseSet, confirmed \notin {Unknown, Replaced}
                   PROVE  StringInv'
        BY <1>1, StorageFrame DEF StringInv
      <4>1. /\ mail[watched] = confirmed
            /\ \A i \in 1..Len(outbox) : outbox[i][1] # watched
        BY <3>1 DEF PInv, StringInv
      <4>2. Box(watched) = watched /\ confirmed \in Values(watched) /\ watched \in MailboxNames
        BY CommandFacts DEF PInv, StorageOK
      <4>3. mail[watched] # Empty
        BY <4>1, <4>2, ValueFacts
      <4>4. Saving(watched)' /\ saved' = confirmed
        BY <1>1, <2>1, <4>1, <4>2, <4>3, StorageFrame DEF Saving
      <4> QED
        BY <1>1, <4>1, <4>4, StorageFrame DEF StringInv
    <3> QED
      BY <3>2, <3>3
  <2>2. CASE storageData # watched
    <3>1. ~Peeking(watched) /\ ~Saving(watched)'
      BY <1>1, <2>2, StorageFrame DEF Peeking, Saving
    <3>2. StoreDue(watched)' <=> StoreDue(watched)
      BY <1>5, <1>6, <3>1, StorageFrame DEF StoreDue
    <3> QED
      BY <1>1, <1>2, <1>6, <2>2, <3>1, <3>2, StorageFrame DEF PInv, TargetInv, StringInv
  <2> QED
    BY <2>1, <2>2
<1>8. spc \notin Booting /\ spc' \notin Booting
  BY <1>1 DEF Booting, PhaseSet
<1>9. unsaved' \in BOOLEAN
  BY <1>2 DEF PInv, StorageOK
<1> QED
  BY <1>1, <1>3, <1>4, <1>7, <1>8, <1>9, CommandFrame DEF PInv, StorageOK

\* The write, and a write the EEPROM refuses.
LEMMA WritePersists ==
    ASSUME PInv, StorageStep, StartWrite \/ EndWrite \/ WriteFails
    PROVE  PInv'
<1>1. /\ mail' = mail /\ qStorageQueue' = qStorageQueue /\ storageData' = storageData
      /\ saved' = saved
      /\ \/ /\ spc = "put" /\ spc' = "writing"
            /\ eeprom' = [eeprom EXCEPT ![storageData] = Empty]
         \/ /\ spc = "writing" /\ spc' = "receive"
            /\ eeprom' = [eeprom EXCEPT ![storageData] = saved]
         \/ spc = "put" /\ spc' = "receive" /\ eeprom' = eeprom /\ WriteFails
  BY DEF StartWrite, EndWrite, WriteFails, queueVars
<1>2. /\ storageData = watched /\ WriteFails => unsaved' = TRUE
      /\ ~(storageData = watched /\ WriteFails) => unsaved' = unsaved
  BY <1>1 DEF StorageStep, PeekToSave
<1>3. /\ storageData \in Commands /\ watched \in Commands /\ qStorageQueue \in Seq(Commands)
      /\ saved \in Values(Box(storageData))
      /\ eeprom = [c \in Commands |-> eeprom[c]]
      /\ \A p \in PhaseSet : eeprom[p] \in BoundedStrings \cup {Empty}
  BY <1>1 DEF PInv, StorageOK
<1>4. /\ eeprom' = [c \in Commands |-> eeprom'[c]]
      /\ \A c \in Commands : c # storageData => eeprom'[c] = eeprom[c]
      /\ eeprom'[storageData] \in {Empty, saved, eeprom[storageData]}
      /\ spc = "writing" => eeprom'[storageData] = saved
  BY <1>1, <1>3
<1>5. \A p \in PhaseSet : eeprom'[p] \in BoundedStrings \cup {Empty}
  BY <1>3, <1>4, CommandFacts
<1>6. StoreDue(watched)' <=> StoreDue(watched)
  BY <1>1, StorageFrame DEF StoreDue, InQueue, Peeking
<1>7. TargetInv' /\ StringInv'
  <2>1. CASE storageData = watched
    <3>1. Saving(watched)
      BY <1>1, <2>1 DEF Saving
    <3>2. CASE spc = "put" /\ spc' = "writing"
      <4>1. Saving(watched)' /\ ~WriteFails
        BY <1>1, <2>1, <3>2, StorageFrame DEF Saving, WriteFails
      <4> QED
        BY <1>1, <1>2, <1>6, <3>1, <4>1, StorageFrame DEF PInv, TargetInv, StringInv
    <3>3. CASE spc = "writing"
      <4>1. ~Saving(watched)' /\ ~WriteFails /\ eeprom'[watched] = saved
        BY <1>1, <1>4, <2>1, <3>3, StorageFrame DEF Saving, WriteFails
      <4> QED
        BY <1>1, <1>2, <1>6, <3>1, <4>1, StorageFrame DEF PInv, TargetInv, StringInv
    <3>4. CASE WriteFails
      <4>1. unsaved' = TRUE
        BY <1>2, <2>1, <3>4
      <4> QED
        BY <1>1, <3>1, <4>1, StorageFrame DEF PInv, TargetInv, StringInv
    <3> QED
      BY <1>1, <3>2, <3>3, <3>4
  <2>2. CASE storageData # watched
    <3>1. ~Saving(watched) /\ ~Saving(watched)' /\ eeprom'[watched] = eeprom[watched]
      BY <1>1, <1>3, <1>4, <2>2, StorageFrame DEF Saving
    <3> QED
      BY <1>1, <1>2, <1>6, <2>2, <3>1, StorageFrame DEF PInv, TargetInv, StringInv
  <2> QED
    BY <2>1, <2>2
<1>8. spc \notin Booting /\ spc' \notin Booting
  BY <1>1 DEF Booting, PhaseSet
<1>9. unsaved' \in BOOLEAN
  BY <1>2 DEF PInv, StorageOK
<1> QED
  BY <1>1, <1>3, <1>4, <1>5, <1>8, <1>9, <1>7, CommandFrame

\* The report of a lost command touches nothing of this.
LEMMA ReportPersists ==
    ASSUME PInv, StorageStep, ReportLost \/ ResetLost
    PROVE  PInv'
<1>1. /\ spc \in {"receive", "reset"} /\ spc' \in {"receive", "reset"}
      /\ mail' = mail /\ qStorageQueue' = qStorageQueue /\ storageData' = storageData
      /\ saved' = saved /\ eeprom' = eeprom
  BY DEF ReportLost, ResetLost, queueVars
<1>2. unsaved' = unsaved
  BY <1>1 DEF StorageStep, WriteFails, PeekToSave
<1>3. (StoreDue(watched)' <=> StoreDue(watched)) /\ ~Saving(watched) /\ ~Saving(watched)'
  BY <1>1, StorageFrame DEF StoreDue, InQueue, Peeking, Saving
<1>4. TargetInv' /\ StringInv'
  BY <1>1, <1>2, <1>3, StorageFrame DEF PInv, TargetInv, StringInv
<1>5. spc \notin Booting /\ spc' \notin Booting
  BY <1>1 DEF Booting, PhaseSet
<1> QED
  BY <1>1, <1>2, <1>4, <1>5, CommandFrame DEF PInv, StorageOK

-------------------------------------------------------------------------------
\* Reset, and everything else

\* What the next boot finds is only promised if nothing was on its way.
LEMMA PowerLossPersists ==
    ASSUME PInv, PowerLoss
    PROVE  PInv'
<1>1. /\ mail' = EmptyMail /\ sUpdateDisplay' = FALSE /\ qStorageQueue' = <<>>
      /\ HandlerReset /\ StorageReset /\ unsaved' = FALSE
      /\ eeprom' = eeprom /\ watched' = watched
      /\ confirmed' = IF Quiet /\ ~unsaved THEN confirmed ELSE Unknown
  BY DEF PowerLoss
<1>2. /\ spc' = "target" /\ storageData' = "CO2_target" /\ hpc' = "boot"
      /\ outbox' = <<>> /\ Len(outbox') = 0 /\ Len(qStorageQueue') = 0
      /\ mail' = [box \in MailboxNames |-> mail'[box]]
      /\ \A box \in MailboxNames : mail'[box] = Empty
      /\ 0 \in CO2Targets /\ INIT_CHAR \in Chars
  BY <1>1, CharsAssumption, MailboxesAssumption
     DEF HandlerReset, StorageReset, EmptyMail, CO2Targets, CO2_MIN
<1>3. NoStrings \in [PhaseSet -> BoundedStrings]
  BY StringFacts DEF NoStrings
<1>4. HandlerOK' /\ Distinct(outbox)' /\ StoreLast(outbox)'
  <2>1. HandlerOK'
    BY <1>1, <1>2, <1>3, EmptyFacts DEF HandlerReset, HandlerOK, PhaseSet
  <2> QED
    BY <1>2, <2>1, EmptyFacts DEF StoreLast
<1>5. StorageOK'
  <2>1. <<>> \in Seq(Commands) /\ "CO2_target" \in Commands
    BY CommandFacts
  <2>2. spc' \in Booting /\ spc' # "pending" /\ spc' # "put" /\ spc' # "writing"
    BY <1>2 DEF Booting
  <2> QED
    BY <1>1, <1>2, <2>1, <2>2 DEF PInv, StorageOK
<1>6. BootOK'
  BY <1>1, <1>2 DEF HandlerReset, BootOK, StringAgreed
<1>7. ~StoreDue(watched)' /\ ~Saving(watched)'
  BY <1>1, <1>2 DEF StoreDue, InOutbox, InQueue, Peeking, Saving
<1>8. TargetInv'
  BY <1>2, BoxFacts DEF TargetInv
<1>9. StringInv'
  <2> SUFFICES ASSUME watched \in PhaseSet, Quiet, ~unsaved,
                      confirmed \notin {Unknown, Replaced}, confirmed' = confirmed
               PROVE  StringInv'
    BY <1>1 DEF StringInv
  <2>1. ~StoreDue(watched) /\ ~Saving(watched)
    BY DEF Quiet, Idle, StoreDue, InOutbox, InQueue, Peeking, Saving
  <2>2. confirmed = eeprom[watched]
    BY <2>1 DEF PInv, StringInv
  <2> QED
    BY <1>1, <1>7, <2>2 DEF StringInv
<1> QED
  BY <1>4, <1>5, <1>6, <1>8, <1>9 DEF PInv

\* Display takes the semaphore, or nothing happens.
LEMMA OthersPersist ==
    ASSUME PInv, DisplayTakes \/ UNCHANGED vars
    PROVE  PInv'
<1>1. /\ UNCHANGED <<mail, qStorageQueue, hpc, outbox, mState, mNetworkPhase,
                     mCO2TargetCurrent, mCO2TargetPending, mCharPending, mNetworkStrings>>
      /\ UNCHANGED <<spc, storageData, saved, eeprom, watched, unsaved, confirmed>>
  BY DEF DisplayTakes, vars, queueVars, handlerVars, storageVars, watchVars
<1>2. sUpdateDisplay' \in BOOLEAN
  BY DEF PInv, HandlerOK, DisplayTakes, vars, queueVars
<1>3. HandlerOK' /\ Distinct(outbox)' /\ StoreLast(outbox)'
  BY <1>1, <1>2 DEF PInv, HandlerOK, Distinct, StoreLast
<1>4. StorageOK'
  BY <1>1 DEF PInv, StorageOK
<1>5. \A box \in MailboxNames : After(box)' = After(box)
  BY <1>1 DEF After, Written
<1>6. /\ CurrentAgreed => CurrentAgreed'
      /\ StringAgreed(watched) => StringAgreed(watched)'
  BY <1>1, <1>5 DEF CurrentAgreed, StringAgreed, After, Written
<1>7. BootOK'
  BY <1>1, <1>6 DEF PInv, BootOK
<1>8. TargetInv' /\ StringInv'
  BY <1>1 DEF PInv, TargetInv, StringInv, StoreDue, InOutbox, InQueue, Peeking, Saving
<1> QED
  BY <1>3, <1>4, <1>7, <1>8 DEF PInv

-------------------------------------------------------------------------------
\* The theorems

LEMMA InitPersists ==
    ASSUME Init
    PROVE  PInv
<1>1. /\ hpc = "boot" /\ outbox = <<>> /\ Len(outbox) = 0 /\ qStorageQueue = <<>>
      /\ Len(qStorageQueue) = 0 /\ spc = "target" /\ storageData = "CO2_target"
      /\ mail = [box \in MailboxNames |-> mail[box]]
      /\ \A box \in MailboxNames : mail[box] = Empty
      /\ 0 \in CO2Targets /\ INIT_CHAR \in Chars
      /\ watched \in Commands /\ unsaved = FALSE /\ confirmed = Unknown
      /\ sUpdateDisplay = FALSE
  BY CharsAssumption, MailboxesAssumption
     DEF Init, HandlerInit, StorageInit, EmptyMail, CO2Targets, CO2_MIN
<1>2. NoStrings \in [PhaseSet -> BoundedStrings]
  BY StringFacts DEF NoStrings
<1>3. HandlerOK /\ Distinct(outbox) /\ StoreLast(outbox)
  <2>1. HandlerOK
    BY <1>1, <1>2, EmptyFacts DEF Init, HandlerInit, HandlerOK, PhaseSet
  <2> QED
    BY <1>1, <2>1, EmptyFacts DEF StoreLast
<1>4. StorageOK
  <2>1. PICK target \in {CO2_MIN, CO2_MAX + 1, Empty}, string \in Strings \cup {Empty} :
          eeprom = [c \in Commands |-> CASE c = "CO2_target" -> target
                                         [] c = watched -> string
                                         [] OTHER -> Empty]
    BY DEF Init
  <2>2. string \in BoundedStrings \cup {Empty}
    <3>1. ASSUME NEW c \in Chars, MAX_CREDENTIAL_STRING_LEN > 0
          PROVE  <<c>> \in BoundedStrings
      <4>1. <<c>> \in Seq(Chars) /\ Len(<<c>>) = 1
        OBVIOUS
      <4> QED
        <5>1. Len(<<c>>) <= MAX_CREDENTIAL_STRING_LEN
          BY <3>1, <4>1, MailboxesAssumption
        <5> QED
          BY <4>1, <5>1, StringFacts
    <3> QED
      BY <3>1 DEF Strings
  <2>3. \A p \in PhaseSet : eeprom[p] \in BoundedStrings \cup {Empty}
    BY <2>1, <2>2, CommandFacts
  <2>4. eeprom = [c \in Commands |-> eeprom[c]]
    BY <2>1
  <2> QED
    <3>1. <<>> \in Seq(Commands)
      OBVIOUS
    <3>2. spc \in Booting /\ spc # "pending" /\ spc # "put" /\ spc # "writing"
      BY <1>1 DEF Booting
    <3>3. unsaved \in BOOLEAN
      BY <1>1
    <3> QED
      BY <1>1, <2>3, <2>4, <3>1, <3>2, <3>3, CommandFacts DEF StorageOK
<1>5. BootOK
  BY <1>1 DEF Init, HandlerInit, BootOK, StringAgreed
<1>6. TargetInv /\ StringInv
  BY <1>1, BoxFacts DEF TargetInv, StringInv
<1> QED
  BY <1>3, <1>4, <1>5, <1>6 DEF PInv

LEMMA PInvInductive ==
    ASSUME PInv, [Next]_vars
    PROVE  PInv'
<1>1. CASE HandlerStep
  BY <1>1, LateStepFacts, BootStatePersists, BootTargetPersists, PublishPersists, EventPersists
     DEF HandlerStep
<1>2. CASE StorageStep
  BY <1>2, BootPersists, ReceivePersists, PeekPersists, WritePersists, ReportPersists
     DEF StorageStep, StorageTask
<1>3. CASE PowerLoss
  BY <1>3, PowerLossPersists
<1>4. CASE DisplayTakes \/ UNCHANGED vars
  BY <1>4, OthersPersist
<1> QED
  BY <1>1, <1>2, <1>3, <1>4 DEF Next

\* Over any number of resets, what Storage still has to do accounts for every
\* difference between the mailboxes and the EEPROM.
THEOREM Persistent == Spec => []PInv
<1>1. Init => PInv
  BY InitPersists
<1>2. PInv /\ [Next]_vars => PInv'
  BY PInvInductive
<1> QED
  BY <1>1, <1>2, PTL DEF Spec

LEMMA QuietFacts ==
    ASSUME PInv, Quiet
    PROVE  ~StoreDue(watched) /\ ~Saving(watched)
  BY DEF Quiet, Idle, StoreDue, InOutbox, InQueue, Peeking, Saving

\* When both tasks wait, the next boot finds the target in force, unless the
\* command was lost or its write failed (Storage.cpp 73-80).
THEOREM TargetIsSaved == Spec => []TargetSaved
<1>1. PInv => TargetSaved
  BY QuietFacts DEF PInv, TargetInv, TargetSaved
<1> QED
  BY <1>1, Persistent, PTL

\* When both tasks wait, the EEPROM holds each string as it was confirmed last,
\* unless it was edited since, or begun before Storage had read the stored one, or
\* its command was lost or its write failed (SwitchHandler.cpp 211-230, Storage.cpp
\* 51-68, 81-110).
THEOREM StringsAreSaved == Spec => []StringsSaved
<1>1. PInv => StringsSaved
  BY QuietFacts DEF PInv, StringInv, StringsSaved
<1> QED
  BY <1>1, Persistent, PTL

\* Whenever the handler waits for an event, it knows the target in force, from
\* the boot on: the one the EEPROM held, or the one inserted last
\* (SwitchHandler.cpp 47-51).
THEOREM TargetIsKnown == Spec => []HandlerKnowsTarget
<1>1. ASSUME PInv, Idle PROVE HandlerKnowsTarget
  <2>1. CurrentAgreed /\ \A box \in MailboxNames : After(box) = mail[box]
    BY <1>1, IdleFacts DEF Idle, PInv, BootOK
  <2> QED
    BY <2>1, BoxFacts DEF CurrentAgreed, HandlerKnowsTarget
<1>2. PInv => HandlerKnowsTarget
  BY <1>1 DEF HandlerKnowsTarget
<1> QED
  BY <1>2, Persistent, PTL

\* With the boot read in time, backspace resets the pending target to the one in
\* force (SwitchHandler.cpp:263); LateSpec, without it, does not.
THEOREM ResetsAreRight == Spec => ResetsToTarget
<1>1. ASSUME PInv, [Next]_vars, ResetPending
      PROVE  mail["qCO2TargetCurrent"] \in {mCO2TargetPending', Empty}
  <2>1. Idle /\ mCO2TargetPending' = mCO2TargetCurrent
    BY <1>1 DEF ResetPending, Press
  <2>2. CurrentAgreed /\ \A box \in MailboxNames : After(box) = mail[box]
    BY <1>1, <2>1, IdleFacts DEF Idle, PInv, BootOK
  <2> QED
    BY <2>1, <2>2, BoxFacts DEF CurrentAgreed
<1>2. PInv /\ [Next]_vars
        => [ResetPending => mail["qCO2TargetCurrent"] \in {mCO2TargetPending', Empty}]_vars
  BY <1>1
<1> QED
  BY <1>2, Persistent, PTL DEF Spec, ResetsToTarget

===============================================================================
