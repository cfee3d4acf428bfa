-------------------------- MODULE UserInterfaceProofs --------------------------
(***************************************************************************)
(* Proofs about SwitchHandler and Display side by side, for any targets,    *)
(* string lengths, characters and queue lengths.                            *)
(***************************************************************************)
EXTENDS UserInterface, SwitchHandlerProofs

-------------------------------------------------------------------------------
\* What the mailboxes say

\* Before the first event.
Booting ==
    /\ mState = "STATUS" /\ mNetworkPhase = "NEW_API" /\ mCharPending = INIT_CHAR
    /\ mCO2TargetPending = mCO2TargetCurrent
    /\ mail["qNetworkPhase"] = Empty
    /\ mail["qCO2TargetPending"] = mail["qCO2TargetCurrent"]
    /\ mail["qState"] = IF hpc = "boot" THEN Empty ELSE "STATUS"

AgreeInv ==
    /\ HandlerOK
    /\ Distinct(outbox)
    /\ IF hpc = "run" THEN Agreed ELSE Booting

-------------------------------------------------------------------------------
\* What the display draws

\* What it finds if it looks now.
StateNow == Peeked("qState", "STATUS")
PhaseNow == Peeked("qNetworkPhase", "NEW_API")
CharNow == Peeked("qCharPending", INIT_CHAR)

StatusRight(f) ==
    /\ f.status /\ f.headings = {} /\ f.char = NoLine
    /\ mail["qCO2TargetCurrent"] # Empty =>
          f.target = TargetLine(mail["qCO2TargetPending"],
                                mail["qCO2TargetPending"] # mail["qCO2TargetCurrent"])

StringsWritten(f) ==
    \A p \in PhaseSet : f.strings[p] = IF p \in UpTo(PhaseNow) THEN mail[p] ELSE Empty

StringsRight(f) ==
    StringsWritten(f) /\ f.char = <<CharNow, PhaseNow, Len(mail[PhaseNow])>>

Right(f) == IF StateNow = "STATUS" THEN StatusRight(f) ELSE StringsRight(f)

\* Somebody has asked for a redraw, or is about to.
Asked == sUpdateDisplay \/ \E i \in 1..Len(outbox) : outbox[i] = Redraw

\* Unless it has been asked for, everything found so far is still so.
UpToDate ==
    /\ dpc \notin {"take", "state"} => dState = StateNow
    /\ dpc \in {"pending", "current"} /\ dState = "STATUS" =>
          frame.status /\ frame.headings = {} /\ frame.char = NoLine
    /\ dpc = "current" =>
          /\ dPendingEmpty = (mail["qCO2TargetPending"] = Empty)
          /\ dPendingEmpty \/ dTargetPending = mail["qCO2TargetPending"]
    /\ dpc \notin {"take", "state", "phase"} /\ dState = "NETWORK" => dPhase = PhaseNow
    /\ dpc \in {"NEW_SSID", "NEW_PW", "char"} => dStrings["NEW_API"] = mail["NEW_API"]
    /\ dpc \in {"NEW_PW", "char"} => dStrings["NEW_SSID"] = mail["NEW_SSID"]
    /\ dpc = "char" => dStrings["NEW_PW"] = mail["NEW_PW"] /\ StringsWritten(frame)
    /\ dpc = "show" => Right(frame)
    /\ dpc = "take" /\ screen # InitFrame => Right(screen)

\* The display never finds an empty string on the network screen.
StringsThere ==
    /\ \A i \in 1..Len(outbox) : outbox[i] = Overwrite("qState", "NETWORK") =>
          \A p \in PhaseSet : mail[p] # Empty \/ \E j \in 1..i - 1 : outbox[j][1] = p
    /\ dState = "NETWORK" \/ mail["qState"] = "NETWORK" =>
          \A p \in PhaseSet : mail[p] # Empty

\* A copy that no peek has filled is the initial one.
Copies ==
    /\ mail["qState"] = Empty => hpc = "boot" /\ dState = "STATUS"
    /\ mail["qNetworkPhase"] = Empty => dPhase = "NEW_API"
    /\ mail["qCharPending"] = Empty => dChar = INIT_CHAR
    /\ mail["qCO2TargetPending"] = Empty =>
          /\ mail["qCO2TargetCurrent"] = Empty
          /\ \A i \in 1..Len(outbox) : outbox[i][1] # "qCO2TargetCurrent"
    /\ dpc \in PhaseSet \cup {"phase", "char"} => dState = "NETWORK"

IsFrame(f) == f = [status |-> f.status, target |-> f.target, headings |-> f.headings,
                   strings |-> f.strings, char |-> f.char]

DisplayOK ==
    /\ dpc \in PhaseSet \cup {"take", "state", "pending", "current", "phase", "char", "show"}
    /\ dState \in {"STATUS", "NETWORK"} /\ dPhase \in PhaseSet
    /\ dPendingEmpty \in BOOLEAN
    /\ IsFrame(frame) /\ (dpc = "state" => frame = BlankFrame)
    /\ dStrings \in [PhaseSet -> BoundedStrings]

DrawInv ==
    /\ DisplayOK /\ Copies /\ StringsThere /\ RedrawLast(outbox)
    /\ ~Asked => UpToDate

IInv == AgreeInv /\ DrawInv
-------------------------------------------------------------------------------
\* The invariant about the mailboxes

LEMMA InitAgrees ==
    ASSUME Init
    PROVE  AgreeInv
<1>1. PICK target \in CO2Targets \cup {Empty}, stored \in Strings \cup {Empty} :
         mail = [box \in MailboxNames |->
                    CASE box \in {"qCO2TargetCurrent", "qCO2TargetPending"} -> target
                      [] box \in PhaseSet -> stored
                      [] OTHER -> Empty]
  BY DEF Init
<1>2. /\ mail = [box \in MailboxNames |-> mail[box]]
      /\ mail["qCO2TargetCurrent"] = target /\ mail["qCO2TargetPending"] = target
      /\ mail["qState"] = Empty /\ mail["qNetworkPhase"] = Empty /\ mail["qCharPending"] = Empty
      /\ \A p \in PhaseSet : mail[p] = stored
  BY <1>1 DEF MailboxNames, PhaseSet
<1>3. stored \in BoundedStrings \cup {Empty}
  <2>1. ASSUME NEW s \in Strings PROVE s \in BoundedStrings
    BY MailboxesAssumption DEF Strings, BoundedStrings
  <2> QED
    BY <2>1
<1>4. \A box \in MailboxNames : mail[box] \in Values(box) \cup {Empty}
  BY <1>2, <1>3, BoxFacts DEF MailboxNames, PhaseSet
<1>5. 0 \in CO2Targets /\ INIT_CHAR \in Chars /\ NoStrings \in [PhaseSet -> BoundedStrings]
  BY MailboxesAssumption, CharsAssumption, StringFacts DEF CO2Targets, CO2_MIN, NoStrings
<1> QED
  BY <1>2, <1>4, <1>5, EmptyFacts
     DEF Init, HandlerInit, AgreeInv, HandlerOK, Booting, PhaseSet

LEMMA BootAgrees ==
    ASSUME AgreeInv, BootState \/ BootTarget
    PROVE  AgreeInv'
<1>1. HandlerOK /\ hpc # "run" /\ outbox = <<>> /\ outbox' = <<>> /\ Booting
  BY DEF AgreeInv, HandlerOK, BootState, BootTarget
<1>2. CASE BootState
  <2>1. /\ mail' = [mail EXCEPT !["qState"] = "STATUS"] /\ hpc' = "peek"
        /\ UNCHANGED <<sUpdateDisplay, mState, mNetworkPhase, mCO2TargetCurrent,
                       mCO2TargetPending, mCharPending, mNetworkStrings>>
    BY <1>1, <1>2 DEF BootState, Booting
  <2>2. /\ mail' = [box \in MailboxNames |-> mail'[box]]
        /\ mail'["qState"] = "STATUS"
        /\ \A box \in MailboxNames \ {"qState"} : mail'[box] = mail[box]
    BY <1>1, <2>1, BoxFacts DEF HandlerOK
  <2> QED
    BY <1>1, <2>1, <2>2, BoxFacts, EmptyFacts DEF AgreeInv, HandlerOK, Booting
<1>3. CASE BootTarget
  <2>1. /\ hpc = "peek" /\ hpc' = "run"
        /\ UNCHANGED <<mail, sUpdateDisplay, mState, mNetworkPhase, mCharPending,
                       mNetworkStrings>>
        /\ \/ mail["qCO2TargetCurrent"] = Empty
              /\ UNCHANGED <<mCO2TargetCurrent, mCO2TargetPending>>
           \/ /\ mail["qCO2TargetCurrent"] # Empty
              /\ mCO2TargetCurrent' = mail["qCO2TargetCurrent"]
              /\ mCO2TargetPending' = mail["qCO2TargetCurrent"]
    BY <1>3 DEF BootTarget, queueVars
  <2>2. \A box \in MailboxNames : After(box)' = mail'[box]
    <3>1. Len(outbox') = 0
      BY <1>1
    <3> QED
      BY <3>1, WrittenNot DEF After
  <2>3. HandlerOK'
    BY <1>1, <2>1, BoxFacts, EmptyFacts DEF HandlerOK
  <2>4. Agreed'
    BY <1>1, <2>1, <2>2, BoxFacts DEF Agreed, StringAgreed, CurrentAgreed, Booting
  <2> QED
    BY <1>1, <2>1, <2>3, <2>4, EmptyFacts DEF AgreeInv
<1> QED
  BY <1>2, <1>3

LEMMA PublishAgrees ==
    ASSUME AgreeInv, Publish
    PROVE  AgreeInv'
<1>1. outbox # <<>>
  BY DEF Publish, OverwriteMailbox, GiveDisplay, GiveGreenhouse, StoreQueued, StoreLost, Pending
<1>2. hpc = "run" /\ hpc' = "run" /\ HandlerOK /\ Agreed /\ Distinct(outbox)
  BY <1>1 DEF AgreeInv, HandlerOK, Publish
<1>3. UNCHANGED <<mState, mNetworkPhase, mCO2TargetCurrent, mCO2TargetPending,
                  mCharPending, mNetworkStrings>>
  BY DEF Publish
<1>4. /\ Distinct(outbox') /\ outbox' \in Seq(Operations)
      /\ mail' = [box \in MailboxNames |-> mail'[box]]
      /\ \A box \in MailboxNames : /\ mail'[box] \in Values(box) \cup {Empty}
                                   /\ After(box)' = After(box)
      /\ sUpdateDisplay' \in BOOLEAN
  BY <1>2, PublishWritten
<1>5. HandlerOK'
  BY <1>2, <1>3, <1>4 DEF HandlerOK
<1>6. Agreed'
  BY <1>2, <1>3, <1>4, BoxFacts DEF Agreed, StringAgreed, CurrentAgreed
<1> QED
  BY <1>2, <1>4, <1>5, <1>6 DEF AgreeInv

\* The other tasks leave what the invariant is about alone.
LEMMA OthersAgree ==
    ASSUME AgreeInv, UNCHANGED <<mail, handlerVars>>, sUpdateDisplay' \in BOOLEAN
    PROVE  AgreeInv'
<1>1. \A box \in MailboxNames : After(box)' = After(box)
  BY DEF After, handlerVars
<1>2. HandlerOK'
  BY DEF AgreeInv, HandlerOK, handlerVars
<1>3. Agreed' = Agreed
  BY <1>1, BoxFacts DEF Agreed, StringAgreed, CurrentAgreed, handlerVars
<1>4. Booting' = Booting
  BY DEF Booting, handlerVars
<1> QED
  BY <1>2, <1>3, <1>4 DEF AgreeInv, handlerVars

LEMMA NextAgrees ==
    ASSUME AgreeInv, [Next]_vars
    PROVE  AgreeInv'
<1>1. CASE HandlerStep
  <2>1. CASE Event
    <3>1. HandlerOK /\ Agreed
      BY <2>1, EventFrame DEF AgreeInv
    <3>2. EventAgrees
      BY <2>1, <3>1, EventsAgree
    <3> QED
      BY <3>1, <3>2, EmptyFacts DEF EventAgrees, Announces, AgreeInv
  <2> QED
    BY <1>1, <2>1, BootAgrees, PublishAgrees DEF HandlerStep, Handler, Event
<1>2. CASE ~HandlerStep
  <2>1. UNCHANGED <<mail, handlerVars>> /\ sUpdateDisplay' \in {sUpdateDisplay, TRUE, FALSE}
    BY <1>2 DEF Next, vars, DisplayStep, DisplayTask, DisplayTakes, PeekState, PeekPending,
       PeekCurrent, PeekPhase, PeekString, PeekChar, Show, SensorsChange, StorageTakes, queueVars
  <2> QED
    BY <2>1, OthersAgree DEF AgreeInv, HandlerOK
<1> QED
  BY <1>1, <1>2

-------------------------------------------------------------------------------
\* The invariant about the screen

LEMMA InitDraws ==
    ASSUME Init
    PROVE  DrawInv
<1>1. PICK target \in CO2Targets \cup {Empty}, stored \in Strings \cup {Empty} :
         mail = [box \in MailboxNames |->
                    CASE box \in {"qCO2TargetCurrent", "qCO2TargetPending"} -> target
                      [] box \in PhaseSet -> stored
                      [] OTHER -> Empty]
  BY DEF Init
<1>2. /\ mail["qCO2TargetCurrent"] = target /\ mail["qCO2TargetPending"] = target
      /\ mail["qState"] = Empty
  BY <1>1 DEF MailboxNames, PhaseSet
<1>3. /\ outbox = <<>> /\ Len(outbox) = 0 /\ hpc = "boot" /\ ~sUpdateDisplay
  BY DEF Init, HandlerInit
<1>4. DisplayOK
  BY StringFacts DEF Init, DisplayInit, DisplayOK, BlankFrame, IsFrame, NoCopies, PhaseSet
<1>5. Copies /\ StringsThere /\ RedrawLast(outbox)
  BY <1>2, <1>3, EmptyFacts, MailboxesAssumption
     DEF Init, DisplayInit, Copies, StringsThere, PhaseSet
<1>6. UpToDate
  BY DEF Init, DisplayInit, UpToDate, PhaseSet
<1> QED
  BY <1>4, <1>5, <1>6 DEF DrawInv

\* What the display has found depends on nothing else.
LEMMA SameView ==
    ASSUME UNCHANGED <<displayVars>>, mail' = mail
    PROVE  DisplayOK' = DisplayOK /\ UpToDate' = UpToDate
<1>1. /\ StateNow' = StateNow /\ PhaseNow' = PhaseNow /\ CharNow' = CharNow
  BY DEF StateNow, PhaseNow, CharNow, Peeked
<1>2. Right(screen)' = Right(screen) /\ Right(frame)' = Right(frame)
      /\ StringsWritten(frame)' = StringsWritten(frame)
  BY <1>1 DEF Right, StatusRight, StringsRight, StringsWritten, displayVars
<1> QED
  BY <1>1, <1>2 DEF DisplayOK, UpToDate, displayVars, IsFrame

LEMMA BootStateDraws ==
    ASSUME IInv, HandlerStep, BootState
    PROVE  DrawInv'
<1>1. /\ mail = [box \in MailboxNames |-> mail[box]] /\ mail["qState"] = Empty
      /\ outbox = <<>> /\ outbox' = <<>> /\ dState = "STATUS"
      /\ mail' = [mail EXCEPT !["qState"] = "STATUS"]
      /\ UNCHANGED <<displayVars, sUpdateDisplay>>
  BY DEF IInv, AgreeInv, HandlerOK, Booting, BootState, DrawInv, Copies, HandlerStep
<1>2. /\ mail'["qState"] = "STATUS" 
      /\ \A box \in MailboxNames \ {"qState"} : mail'[box] = mail[box]
  BY <1>1, BoxFacts
<1>3. \A box \in {"qNetworkPhase", "qCharPending", "qCO2TargetCurrent", "qCO2TargetPending",
                  "NEW_API", "NEW_SSID", "NEW_PW"} : mail'[box] = mail[box]
  BY <1>2 DEF MailboxNames, PhaseSet
<1>4. StateNow' = StateNow /\ PhaseNow' = PhaseNow /\ CharNow' = CharNow
  BY <1>1, <1>2, <1>3, MailboxesAssumption DEF StateNow, PhaseNow, CharNow, Peeked
<1>5. /\ StateNow = "STATUS"
      /\ StatusRight(screen)' = StatusRight(screen) /\ StatusRight(frame)' = StatusRight(frame)
  BY <1>1, <1>3 DEF StatusRight, displayVars, StateNow, Peeked
<1>6. StringsWritten(frame)' = StringsWritten(frame)
  BY <1>1, <1>3, <1>4 DEF StringsWritten, displayVars, PhaseSet
<1>7. UpToDate' = UpToDate
  BY <1>1, <1>3, <1>4, <1>5, <1>6 DEF UpToDate, displayVars, PhaseSet, Right
<1>8. Copies' /\ StringsThere' 
  BY <1>1, <1>2, <1>3, MailboxesAssumption
     DEF IInv, DrawInv, Copies, StringsThere, displayVars, PhaseSet
<1>9. DisplayOK' /\ Asked' = Asked /\ RedrawLast(outbox')
  BY <1>1, EmptyFacts DEF IInv, DrawInv, DisplayOK, displayVars, Asked, IsFrame
<1> QED
  BY <1>7, <1>8, <1>9 DEF IInv, DrawInv

LEMMA BootTargetDraws ==
    ASSUME IInv, HandlerStep, BootTarget
    PROVE  DrawInv'
<1>1. /\ mail["qState"] = "STATUS" /\ UNCHANGED <<displayVars, mail, sUpdateDisplay, outbox>>
  BY DEF IInv, AgreeInv, Booting, BootTarget, HandlerStep, queueVars
<1>2. DisplayOK' = DisplayOK /\ UpToDate' = UpToDate
  BY <1>1, SameView
<1>3. Copies' /\ StringsThere' /\ Asked' = Asked
  BY <1>1, MailboxesAssumption DEF IInv, DrawInv, Copies, StringsThere, Asked, displayVars
<1> QED
  BY <1>1, <1>2, <1>3 DEF IInv, DrawInv

LEMMA PublishDraws ==
    ASSUME IInv, HandlerStep, Publish
    PROVE  DrawInv'
<1>1. HandlerOK /\ Distinct(outbox) /\ DrawInv /\ UNCHANGED displayVars
  BY DEF IInv, AgreeInv, HandlerStep
<1>2. /\ hpc = "run" /\ outbox[1] \in Operations
      /\ Len(outbox) \in Nat /\ Len(outbox) > 0 /\ Len(outbox') = Len(outbox) - 1
      /\ \A i \in 1..Len(outbox) - 1 : outbox'[i] = outbox[i + 1]
  BY <1>1, PublishFacts
<1>3. \/ /\ outbox[1][1] \in MailboxNames /\ outbox[1][2] \in Values(outbox[1][1])
         /\ outbox[1] = <<outbox[1][1], outbox[1][2]>>
         /\ \A box \in MailboxNames :
               mail'[box] = IF box = outbox[1][1] THEN outbox[1][2] ELSE mail[box]
         /\ UNCHANGED sUpdateDisplay
      \/ /\ outbox[1][1] \notin MailboxNames
         /\ mail' = mail
         /\ outbox[1] = Redraw => sUpdateDisplay'
         /\ sUpdateDisplay => sUpdateDisplay'
  BY <1>1, PublishFacts
<1>4. ASSUME NEW box \in MailboxNames, mail'[box] = Empty
      PROVE  mail[box] = Empty /\ outbox[1][1] # box
  BY <1>3, <1>4, ValueFacts
<1>5. Copies'
  <2>1. mail["qState"] # Empty /\ mail'["qState"] # Empty
    BY <1>1, <1>2, <1>4, BoxFacts DEF DrawInv, Copies
  <2>2. mail'["qNetworkPhase"] = Empty => dPhase' = "NEW_API"
    BY <1>1, <1>4, BoxFacts DEF DrawInv, Copies, displayVars
  <2>3. mail'["qCharPending"] = Empty => dChar' = INIT_CHAR
    BY <1>1, <1>4, BoxFacts DEF DrawInv, Copies, displayVars
  <2>4. ASSUME mail'["qCO2TargetPending"] = Empty
        PROVE  /\ mail'["qCO2TargetCurrent"] = Empty
               /\ \A i \in 1..Len(outbox') : outbox'[i][1] # "qCO2TargetCurrent"
    <3>1. /\ mail["qCO2TargetCurrent"] = Empty
          /\ \A i \in 1..Len(outbox) : outbox[i][1] # "qCO2TargetCurrent"
      BY <1>1, <1>4, <2>4, BoxFacts DEF DrawInv, Copies
    <3>2. outbox[1][1] # "qCO2TargetCurrent"
      BY <1>2, <3>1
    <3>3. mail'["qCO2TargetCurrent"] = Empty
      BY <1>3, <3>1, <3>2, BoxFacts
    <3> QED
      BY <1>2, <3>1, <3>3
  <2>5. dpc' \in PhaseSet \cup {"phase", "char"} => dState' = "NETWORK"
    BY <1>1 DEF DrawInv, Copies, displayVars
  <2> QED
    BY <2>1, <2>2, <2>3, <2>4, <2>5 DEF Copies
<1>6. StringsThere'
  <2>1. ASSUME NEW i \in 1..Len(outbox'), outbox'[i] = Overwrite("qState", "NETWORK"),
               NEW p \in PhaseSet, mail'[p] = Empty
        PROVE  \E j \in 1..i - 1 : outbox'[j][1] = p
    <3>1. mail[p] = Empty /\ outbox[1][1] # p
      BY <1>4, <2>1, BoxFacts
    <3>2. i + 1 \in 1..Len(outbox) /\ outbox[i + 1] = Overwrite("qState", "NETWORK")
      BY <1>2, <2>1
    <3>3. PICK j \in 1..(i + 1) - 1 : outbox[j][1] = p
      BY <1>1, <3>1, <3>2 DEF DrawInv, StringsThere
    <3>4. j # 1
      BY <3>1, <3>3
    <3>5. j - 1 \in 1..i - 1 /\ j - 1 \in 1..Len(outbox) - 1 /\ (j - 1) + 1 = j
      BY <1>2, <2>1, <3>3, <3>4
    <3>6. outbox'[j - 1] = outbox[j]
      BY <1>2, <3>5
    <3> QED
      BY <3>3, <3>5, <3>6
  <2>2. ASSUME dState' = "NETWORK" \/ mail'["qState"] = "NETWORK", NEW p \in PhaseSet
        PROVE  mail'[p] # Empty
    <3> SUFFICES ASSUME mail'[p] = Empty PROVE FALSE
      OBVIOUS
    <3>1. mail[p] = Empty /\ outbox[1][1] # p
      BY <1>4, BoxFacts
    <3>2. dState # "NETWORK" /\ mail["qState"] # "NETWORK"
      BY <1>1, <3>1 DEF DrawInv, StringsThere
    <3>3. mail'["qState"] = "NETWORK"
      BY <1>1, <2>2, <3>2 DEF displayVars
    <3>4. outbox[1] = Overwrite("qState", "NETWORK")
      BY <1>3, <3>2, <3>3, BoxFacts DEF Overwrite
    <3>5. 1 \in 1..Len(outbox) /\ \A j \in 1..1 - 1 : FALSE
      BY <1>2
    <3> QED
      BY <1>1, <3>1, <3>4, <3>5 DEF DrawInv, StringsThere
  <2> QED
    BY <2>1, <2>2 DEF StringsThere
<1>7. RedrawLast(outbox')
  <2> SUFFICES ASSUME NEW i \in 1..Len(outbox'), outbox'[i][1] \in MailboxNames
               PROVE  \E j \in i + 1..Len(outbox') : outbox'[j] = Redraw
    BY DEF RedrawLast
  <2>1. i + 1 \in 1..Len(outbox) /\ outbox[i + 1][1] \in MailboxNames
    BY <1>2
  <2>2. PICK j \in (i + 1) + 1..Len(outbox) : outbox[j] = Redraw
    BY <1>1, <2>1 DEF DrawInv, RedrawLast
  <2>3. /\ j - 1 \in i + 1..Len(outbox') /\ j - 1 \in 1..Len(outbox) - 1
        /\ (j - 1) + 1 = j
    BY <1>2, <2>2
  <2> QED
    BY <1>2, <2>2, <2>3
<1>8. ASSUME ~Asked'
      PROVE  ~Asked /\ mail' = mail
  <2>1. outbox[1] # Redraw /\ ~sUpdateDisplay
    BY <1>3, <1>8, OtherFacts DEF Asked
  <2>2. \A i \in 1..Len(outbox) : outbox[i] # Redraw
    <3> SUFFICES ASSUME NEW i \in 1..Len(outbox), outbox[i] = Redraw PROVE FALSE
      OBVIOUS
    <3>1. i - 1 \in 1..Len(outbox') /\ i - 1 \in 1..Len(outbox) - 1 /\ (i - 1) + 1 = i
      BY <1>2, <2>1
    <3>2. outbox'[i - 1] = Redraw
      BY <1>2, <3>1
    <3> QED
      BY <1>8, <3>1, <3>2 DEF Asked
  <2>3. outbox[1][1] \notin MailboxNames
    <3>1. 1 \in 1..Len(outbox) /\ \A j \in 1 + 1..Len(outbox) : j \in 1..Len(outbox)
      BY <1>2
    <3> QED
      BY <1>1, <2>2, <3>1 DEF DrawInv, RedrawLast
  <2> QED
    BY <1>3, <2>1, <2>2, <2>3 DEF Asked
<1>9. DisplayOK'
  BY <1>1 DEF DrawInv, DisplayOK, displayVars, IsFrame
<1>10. ~Asked' => UpToDate'
  BY <1>1, <1>8, SameView DEF DrawInv
<1> QED
  BY <1>5, <1>6, <1>7, <1>9, <1>10 DEF DrawInv

LEMMA EventDraws ==
    ASSUME IInv, HandlerStep, Event
    PROVE  DrawInv'
<1>1. /\ Idle /\ HandlerOK /\ Agreed /\ outbox = <<>> /\ DrawInv /\ UNCHANGED displayVars
      /\ EventAgrees
  <2>1. Idle /\ outbox = <<>> /\ hpc = "run"
    BY EventFrame
  <2>2. HandlerOK /\ Agreed
    BY <2>1 DEF IInv, AgreeInv
  <2> QED
    BY <2>1, <2>2, EventsAgree DEF IInv, HandlerStep
<1>2. /\ \A box \in MailboxNames \ {"qCO2TargetCurrent"} : mail'[box] = mail[box]
      /\ mail'["qCO2TargetCurrent"] \in {mail["qCO2TargetCurrent"], Empty}
  BY <1>1, EventFrame, BoxFacts DEF HandlerOK
<1>3. \A box \in {"qState", "qNetworkPhase", "qCharPending", "qCO2TargetPending",
                  "NEW_API", "NEW_SSID", "NEW_PW"} : mail'[box] = mail[box]
  BY <1>2 DEF MailboxNames, PhaseSet
<1>4. Distinct(outbox') /\ RedrawLast(outbox') /\ outbox' \in Seq(Operations)
  BY <1>1, EmptyFacts DEF EventAgrees, Announces
<1>5. Copies'
  <2>1. mail["qState"] # Empty /\ mail'["qState"] # Empty
    BY <1>1, <1>3 DEF DrawInv, Copies, Idle
  <2>2. ASSUME mail'["qCO2TargetPending"] = Empty
        PROVE  /\ mail'["qCO2TargetCurrent"] = Empty
               /\ \A i \in 1..Len(outbox') : outbox'[i][1] # "qCO2TargetCurrent"
    <3>1. mail["qCO2TargetCurrent"] = Empty
      BY <1>1, <1>3, <2>2 DEF DrawInv, Copies
    <3>2. After("qCO2TargetCurrent")' = Empty
      BY <1>1, <2>2, <3>1 DEF EventAgrees
    <3>3. ASSUME NEW i \in 1..Len(outbox'), outbox'[i][1] = "qCO2TargetCurrent"
          PROVE  FALSE
      <4>1. outbox'[i] \in Operations
        BY <1>4
      <4>2. outbox'[i][2] \in Values("qCO2TargetCurrent")
        BY <3>3, <4>1, OperationFacts, BoxFacts
      <4>3. After("qCO2TargetCurrent")' = outbox'[i][2]
        BY <1>4, <3>3, WrittenLast, BoxFacts DEF After
      <4> QED
        BY <3>2, <4>2, <4>3, ValueFacts, BoxFacts
    <3> QED
      BY <1>2, <3>1, <3>3
  <2> QED
    BY <1>1, <1>3, <2>1, <2>2 DEF DrawInv, Copies, displayVars
<1>6. StringsThere'
  <2>1. ASSUME NEW i \in 1..Len(outbox'), outbox'[i] = Overwrite("qState", "NETWORK"),
               NEW p \in PhaseSet
        PROVE  mail'[p] # Empty \/ \E j \in 1..i - 1 : outbox'[j][1] = p
    <3>1. CASE ToggleToNetwork
      <4>1. outbox' = [k \in 1..3 |-> Overwrite(Phases[k], <<>>)]
                      \o <<Overwrite("qState", "NETWORK"), Redraw>>
        BY <3>1 DEF ToggleToNetwork
      <4> QED
        BY <2>1, <4>1, NetworkWrites
    <3>2. CASE ~ToggleToNetwork
      <4>1. outbox'[i][1] = "qState" /\ outbox'[i][2] = "NETWORK"
        BY <2>1 DEF Overwrite
      <4>2. After("qState")' = "NETWORK"
        BY <1>4, <4>1, WrittenLast, BoxFacts DEF After
      <4>3. mState' = "NETWORK" /\ mState = "NETWORK"
        BY <1>1, <3>2, <4>2, EventFrame DEF EventAgrees, Agreed
      <4>4. mail["qState"] = "NETWORK"
        BY <1>1, <4>3, IdleFacts, BoxFacts DEF Agreed
      <4> QED
        BY <1>1, <1>3, <4>4 DEF DrawInv, StringsThere, PhaseSet
    <3> QED
      BY <3>1, <3>2
  <2> QED
    BY <1>1, <1>3, <2>1 DEF DrawInv, StringsThere, displayVars, PhaseSet
<1>7. DisplayOK'
  BY <1>1 DEF DrawInv, DisplayOK, displayVars, IsFrame
<1>8. ASSUME ~Asked' PROVE UpToDate'
  <2>1. mail' = mail /\ outbox' = outbox
    BY <1>1, <1>8 DEF EventAgrees, Announces, Asked
  <2>2. ~Asked
    <3>1. sUpdateDisplay' = sUpdateDisplay
      BY EventFrame
    <3> QED
      BY <1>8, <2>1, <3>1 DEF Asked
  <2> QED
    BY <1>1, <2>1, <2>2, SameView DEF DrawInv
<1> QED
  BY <1>4, <1>5, <1>6, <1>7, <1>8 DEF DrawInv

-------------------------------------------------------------------------------
\* The steps of the display

LEMMA PhaseIndexFacts ==
    /\ \A p \in PhaseSet : PhaseIndex(p) \in 1..3 /\ Phases[PhaseIndex(p)] = p
    /\ PhaseIndex("NEW_API") = 1 /\ PhaseIndex("NEW_SSID") = 2 /\ PhaseIndex("NEW_PW") = 3
    /\ Phases[2] = "NEW_SSID" /\ Phases[3] = "NEW_PW"
<1>1. Phases[1] = "NEW_API" /\ Phases[2] = "NEW_SSID" /\ Phases[3] = "NEW_PW"
  BY DEF Phases
<1>2. ASSUME NEW p \in PhaseSet PROVE PhaseIndex(p) \in 1..3 /\ Phases[PhaseIndex(p)] = p
  <2>1. \E i \in 1..3 : Phases[i] = p
    BY <1>1 DEF PhaseSet
  <2> QED
    BY <2>1 DEF PhaseIndex
<1> QED
  BY <1>1, <1>2 DEF PhaseSet

\* What is the same before and after every one of them.
LEMMA DisplayFrame ==
    ASSUME IInv, DisplayStep
    PROVE  /\ DrawInv /\ HandlerOK /\ mail' = mail /\ UNCHANGED <<hpc, outbox>>
           /\ ~DisplayTakes => (Asked' = Asked)
           /\ StateNow' = StateNow /\ PhaseNow' = PhaseNow /\ CharNow' = CharNow
           /\ StateNow \in {"STATUS", "NETWORK"} /\ PhaseNow \in PhaseSet
<1>1. /\ DrawInv /\ HandlerOK /\ mail' = mail /\ UNCHANGED <<hpc, outbox>>
      /\ ~DisplayTakes => sUpdateDisplay' = sUpdateDisplay
  BY DEF IInv, AgreeInv, DisplayStep, DisplayTask, DisplayTakes, PeekState, PeekPending,
     PeekCurrent, PeekPhase, PeekString, PeekChar, Show, queueVars, handlerVars
<1>2. ~DisplayTakes => (Asked' = Asked)
  BY <1>1 DEF Asked
<1>3. StateNow \in {"STATUS", "NETWORK"} /\ PhaseNow \in PhaseSet
  <2>1. /\ mail["qState"] \in {"STATUS", "NETWORK"} \cup {Empty}
        /\ mail["qNetworkPhase"] \in PhaseSet \cup {Empty}
    BY <1>1, BoxFacts DEF HandlerOK
  <2> QED
    BY <2>1 DEF StateNow, PhaseNow, Peeked, PhaseSet
<1> QED
  BY <1>1, <1>2, <1>3 DEF StateNow, PhaseNow, CharNow, Peeked

LEMMA FrameFacts ==
    ASSUME NEW f, IsFrame(f), NEW v
    PROVE  /\ LET g == [f EXCEPT !.status = v]
              IN  IsFrame(g) /\ g.status = v /\ g.headings = f.headings /\ g.char = f.char
           /\ IsFrame([f EXCEPT !.headings = v])
           /\ LET g == [f EXCEPT !.strings = v] IN IsFrame(g) /\ g.strings = v
           /\ LET g == [f EXCEPT !.char = v]
              IN  IsFrame(g) /\ g.char = v /\ g.strings = f.strings
<1>1. DOMAIN f = {"status", "target", "headings", "strings", "char"}
  BY DEF IsFrame
<1> QED
  BY <1>1 DEF IsFrame

LEMMA TargetFacts ==
    ASSUME NEW f, IsFrame(f), NEW v
    PROVE  LET g == [f EXCEPT !.target = v]
           IN  /\ IsFrame(g) /\ g.target = v /\ g.status = f.status
               /\ g.headings = f.headings /\ g.char = f.char
<1>1. DOMAIN f = {"status", "target", "headings", "strings", "char"}
  BY DEF IsFrame
<1> QED
  BY <1>1 DEF IsFrame

LEMMA TakesDraws ==
    ASSUME IInv, DisplayStep, DisplayTakes
    PROVE  DrawInv'
<1>1. /\ DrawInv /\ mail' = mail /\ UNCHANGED <<hpc, outbox, dState, dPhase, dChar, dStrings,
                                                dPendingEmpty>>
      /\ dpc' = "state" /\ frame' = BlankFrame
  BY DisplayFrame DEF DisplayTakes
<1>2. DisplayOK'
  BY <1>1 DEF DrawInv, DisplayOK, IsFrame, BlankFrame
<1>3. Copies' /\ StringsThere' /\ RedrawLast(outbox')
  BY <1>1 DEF DrawInv, Copies, StringsThere, PhaseSet
<1>4. UpToDate'
  BY <1>1 DEF UpToDate, PhaseSet
<1> QED
  BY <1>2, <1>3, <1>4 DEF DrawInv

LEMMA PeekStateDraws ==
    ASSUME IInv, DisplayStep, PeekState
    PROVE  DrawInv'
<1>1. /\ DrawInv /\ mail' = mail
      /\ UNCHANGED <<hpc, outbox, screen, dPhase, dChar, dStrings, dPendingEmpty>>
      /\ dpc = "state" /\ frame = BlankFrame /\ dState' = StateNow
  BY DisplayFrame DEF PeekState, DrawInv, DisplayOK, Copies, StateNow, Peeked
<1>2. \/ StateNow = "STATUS" /\ frame' = [frame EXCEPT !.status = TRUE] /\ dpc' = "pending"
      \/ StateNow = "NETWORK" /\ frame' = frame /\ dpc' = "phase"
  BY <1>1, DisplayFrame DEF PeekState
<1>3. /\ IsFrame(frame') 
      /\ dpc' = "pending" => frame'.status /\ frame'.headings = {} /\ frame'.char = NoLine
  <2>1. IsFrame(frame)
    BY <1>1 DEF DrawInv, DisplayOK
  <2>2. frame.headings = {} /\ frame.char = NoLine
    BY <1>1 DEF BlankFrame
  <2>3. LET g == [frame EXCEPT !.status = TRUE]
        IN  IsFrame(g) /\ g.status = TRUE /\ g.headings = frame.headings /\ g.char = frame.char
    BY <2>1, FrameFacts
  <2> QED
    BY <1>2, <2>1, <2>2, <2>3
<1>4. DisplayOK'
  BY <1>1, <1>2, <1>3 DEF DrawInv, DisplayOK, PhaseSet
<1>5. Copies' /\ RedrawLast(outbox')
  BY <1>1, <1>2 DEF DrawInv, Copies, PhaseSet, StateNow, Peeked
<1>6. StringsThere'
  BY <1>1 DEF DrawInv, StringsThere, StateNow, Peeked
<1>7. UpToDate'
  BY <1>1, <1>2, <1>3, DisplayFrame DEF UpToDate, PhaseSet
<1> QED
  BY <1>4, <1>5, <1>6, <1>7 DEF DrawInv

LEMMA PeekPendingDraws ==
    ASSUME IInv, DisplayStep, PeekPending
    PROVE  DrawInv'
<1>1. /\ DrawInv /\ mail' = mail /\ Asked' = Asked
      /\ UNCHANGED <<hpc, outbox, frame, screen, dState, dPhase, dChar, dStrings>>
      /\ dpc = "pending" /\ dpc' = "current"
      /\ dPendingEmpty' = (mail["qCO2TargetPending"] = Empty)
      /\ mail["qCO2TargetPending"] = Empty \/ dTargetPending' = mail["qCO2TargetPending"]
  BY DisplayFrame DEF PeekPending, DisplayTakes, Peeked
<1>2. DisplayOK' /\ Copies' /\ StringsThere' /\ RedrawLast(outbox')
  BY <1>1 DEF DrawInv, DisplayOK, Copies, StringsThere, PhaseSet, IsFrame
<1>3. UpToDate => UpToDate'
  BY <1>1, DisplayFrame DEF UpToDate, PhaseSet
<1> QED
  BY <1>1, <1>2, <1>3 DEF DrawInv

LEMMA PeekCurrentDraws ==
    ASSUME IInv, DisplayStep, PeekCurrent
    PROVE  DrawInv'
<1>1. /\ DrawInv /\ mail' = mail /\ Asked' = Asked
      /\ UNCHANGED <<hpc, outbox, screen, dState, dPhase, dChar, dStrings>>
      /\ dpc = "current" /\ dPendingEmpty' = FALSE
      /\ dpc' = IF dState = "STATUS" THEN "show" ELSE "NEW_API"
      /\ frame' = [frame EXCEPT !.target =
            TargetText(dPendingEmpty, mail["qCO2TargetCurrent"] = Empty,
                       dTargetPending, Peeked("qCO2TargetCurrent", dTargetCurrent))]
  BY DisplayFrame DEF PeekCurrent, DisplayTakes
<1>2. /\ IsFrame(frame')
      /\ frame'.target = TargetText(dPendingEmpty, mail["qCO2TargetCurrent"] = Empty,
                             dTargetPending, Peeked("qCO2TargetCurrent", dTargetCurrent))
      /\ frame'.status = frame.status /\ frame'.headings = frame.headings
      /\ frame'.char = frame.char
  <2> DEFINE t == TargetText(dPendingEmpty, mail["qCO2TargetCurrent"] = Empty,
                             dTargetPending, Peeked("qCO2TargetCurrent", dTargetCurrent))
  <2>1. IsFrame(frame)
    BY <1>1 DEF DrawInv, DisplayOK
  <2>2. frame' = [frame EXCEPT !.target = t]
    BY <1>1
  <2> HIDE DEF t
  <2>3. LET g == [frame EXCEPT !.target = t]
        IN  /\ IsFrame(g) /\ g.target = t /\ g.status = frame.status
            /\ g.headings = frame.headings /\ g.char = frame.char
    BY <2>1, TargetFacts
  <2>4. /\ IsFrame(frame') /\ frame'.target = t /\ frame'.status = frame.status
        /\ frame'.headings = frame.headings /\ frame'.char = frame.char
    BY <2>2, <2>3
  <2> QED
    BY <2>4 DEF t
<1>3. DisplayOK' /\ Copies' /\ StringsThere' /\ RedrawLast(outbox')
  <2>1. DisplayOK'
    BY <1>1, <1>2 DEF DrawInv, DisplayOK, PhaseSet
  <2>2. Copies'
    BY <1>1 DEF DrawInv, DisplayOK, Copies, PhaseSet
  <2>3. StringsThere' /\ RedrawLast(outbox')
    BY <1>1 DEF DrawInv, StringsThere
  <2> QED
    BY <2>1, <2>2, <2>3
<1>4. ASSUME UpToDate, dState = "STATUS" PROVE Right(frame)'
  <2>1. StateNow = "STATUS" /\ StateNow' = "STATUS"
    BY <1>1, <1>4, DisplayFrame DEF UpToDate
  <2>2. ASSUME mail["qCO2TargetCurrent"] # Empty
        PROVE  frame'.target = TargetLine(mail["qCO2TargetPending"],
                                          mail["qCO2TargetPending"] # mail["qCO2TargetCurrent"])
    <3>1. mail["qCO2TargetPending"] # Empty
      BY <1>1, <2>2 DEF DrawInv, Copies
    <3>2. dPendingEmpty = FALSE /\ dTargetPending = mail["qCO2TargetPending"]
      BY <1>1, <1>4, <3>1 DEF UpToDate, DrawInv, DisplayOK
    <3> QED
      BY <1>2, <2>2, <3>2 DEF TargetText, TargetLine, Peeked
  <2>3. frame'.status /\ frame'.headings = {} /\ frame'.char = NoLine
    BY <1>1, <1>2, <1>4 DEF UpToDate
  <2> QED
    BY <1>1, <2>1, <2>2, <2>3 DEF Right, StatusRight
<1>5. UpToDate => UpToDate'
  BY <1>1, <1>4, DisplayFrame DEF UpToDate, PhaseSet, DrawInv, DisplayOK
<1> QED
  BY <1>1, <1>3, <1>5 DEF DrawInv

LEMMA PeekPhaseDraws ==
    ASSUME IInv, DisplayStep, PeekPhase
    PROVE  DrawInv'
<1>1. /\ DrawInv /\ mail' = mail /\ Asked' = Asked
      /\ UNCHANGED <<hpc, outbox, screen, dState, dChar, dPendingEmpty>>
      /\ dpc = "phase" /\ dpc' \in {"pending", "NEW_API"} /\ dState = "NETWORK"
      /\ dPhase' = PhaseNow
  BY DisplayFrame DEF PeekPhase, DisplayTakes, PhaseNow, Peeked, DrawInv, Copies
<1>2. IsFrame(frame') /\ dStrings' \in [PhaseSet -> BoundedStrings]
  <2>1. IsFrame(frame) /\ dStrings \in [PhaseSet -> BoundedStrings]
    BY <1>1 DEF DrawInv, DisplayOK
  <2>2. PICK v : \/ frame' = [frame EXCEPT !.status = v]
                 \/ frame' = [frame EXCEPT !.headings = v]
    BY DEF PeekPhase
  <2>3. IsFrame([frame EXCEPT !.status = v]) /\ IsFrame([frame EXCEPT !.headings = v])
    BY <2>1, FrameFacts, Zenon
  <2>4. IsFrame(frame')
    BY <2>2, <2>3
  <2>5. dStrings' \in [PhaseSet -> BoundedStrings]
    BY <2>1, StringFacts DEF PeekPhase, NoCopies
  <2> QED
    BY <2>4, <2>5
<1>3. DisplayOK' /\ StringsThere' /\ RedrawLast(outbox')
  BY <1>1, <1>2, DisplayFrame DEF DrawInv, DisplayOK, StringsThere, PhaseSet
<1>4. Copies'
  BY <1>1 DEF DrawInv, Copies, PhaseNow, Peeked
<1>5. UpToDate => UpToDate'
  BY <1>1, DisplayFrame DEF UpToDate, PhaseSet
<1> QED
  BY <1>1, <1>3, <1>4, <1>5 DEF DrawInv

LEMMA PeekStringDraws ==
    ASSUME IInv, DisplayStep, PeekString
    PROVE  DrawInv'
<1>1. /\ DrawInv /\ HandlerOK /\ mail' = mail /\ Asked' = Asked
      /\ UNCHANGED <<hpc, outbox, screen, dState, dPhase, dChar, dPendingEmpty>>
      /\ dpc \in PhaseSet /\ dState = "NETWORK"
  BY DisplayFrame DEF PeekString, DisplayTakes, DrawInv, Copies, PhaseSet
<1>2. mail[dpc] \in BoundedStrings /\ mail[dpc] # Empty
  BY <1>1, BoxFacts DEF DrawInv, StringsThere, HandlerOK
<1>3. dStrings' = [dStrings EXCEPT ![dpc] = mail[dpc]]
  BY <1>2 DEF PeekString
<1>4. /\ dStrings' \in [PhaseSet -> BoundedStrings]
      /\ dStrings'[dpc] = mail[dpc]
      /\ \A p \in PhaseSet \ {dpc} : dStrings'[p] = dStrings[p]
  BY <1>1, <1>2, <1>3 DEF DrawInv, DisplayOK
<1>5. \/ dpc = "NEW_API" /\ dpc' = "NEW_SSID" /\ frame' = frame
      \/ dpc = "NEW_SSID" /\ dpc' = "NEW_PW" /\ frame' = frame
      \/ /\ dpc = "NEW_PW" /\ dpc' = "char"
         /\ frame' = [frame EXCEPT !.strings =
                        [p \in PhaseSet |-> IF p \in UpTo(dPhase) THEN dStrings'[p] ELSE Empty]]
  BY <1>1, PhaseIndexFacts DEF PeekString, PhaseSet
<1>6. /\ IsFrame(frame')
      /\ dpc = "NEW_PW" =>
            frame'.strings = [p \in PhaseSet |-> IF p \in UpTo(dPhase) THEN dStrings'[p]
                                                 ELSE Empty]
  <2>1. IsFrame(frame)
    BY <1>1 DEF DrawInv, DisplayOK
  <2> DEFINE v == [p \in PhaseSet |-> IF p \in UpTo(dPhase) THEN dStrings'[p] ELSE Empty]
  <2>2. \/ frame' = frame /\ dpc # "NEW_PW"
        \/ frame' = [frame EXCEPT !.strings = v]
    BY <1>5
  <2> HIDE DEF v
  <2>3. LET g == [frame EXCEPT !.strings = v] IN IsFrame(g) /\ g.strings = v
    BY <2>1, FrameFacts
  <2>4. IsFrame(frame') /\ (dpc = "NEW_PW" => frame'.strings = v)
    BY <2>1, <2>2, <2>3
  <2> QED
    BY <2>4 DEF v
<1>7. DisplayOK'
  BY <1>1, <1>4, <1>5, <1>6 DEF DrawInv, DisplayOK, PhaseSet
<1>8. Copies' /\ StringsThere' /\ RedrawLast(outbox')
  <2>1. Copies'
    BY <1>1 DEF DrawInv, Copies
  <2>2. StringsThere' /\ RedrawLast(outbox')
    BY <1>1 DEF DrawInv, StringsThere
  <2> QED
    BY <2>1, <2>2
<1>9. ASSUME UpToDate PROVE UpToDate'
  <2>1. dState = StateNow /\ dPhase = PhaseNow
    BY <1>1, <1>9 DEF UpToDate, PhaseSet
  <2>2. dpc # "NEW_API" => dStrings'["NEW_API"] = mail["NEW_API"]
    BY <1>1, <1>4, <1>9 DEF UpToDate, PhaseSet
  <2>3. dpc \notin {"NEW_API", "NEW_SSID"} => dStrings'["NEW_SSID"] = mail["NEW_SSID"]
    BY <1>1, <1>4, <1>9 DEF UpToDate, PhaseSet
  <2>4. dpc = "NEW_PW" =>
          /\ \A p \in PhaseSet : dStrings'[p] = mail[p]
          /\ StringsWritten(frame)'
    BY <1>1, <1>4, <1>6, <2>1, <2>2, <2>3, DisplayFrame DEF StringsWritten, PhaseSet
  <2>5. dStrings'[dpc] = mail[dpc]
    BY <1>4
  <2> QED
    BY <1>1, <1>5, <2>1, <2>2, <2>3, <2>4, <2>5, DisplayFrame DEF UpToDate, PhaseSet
<1> QED
  BY <1>1, <1>7, <1>8, <1>9 DEF DrawInv

LEMMA PeekCharDraws ==
    ASSUME IInv, DisplayStep, PeekChar
    PROVE  DrawInv'
<1>1. /\ DrawInv /\ mail' = mail /\ Asked' = Asked
      /\ UNCHANGED <<hpc, outbox, screen, dState, dPhase, dStrings, dPendingEmpty>>
      /\ dpc = "char" /\ dpc' = "show" /\ dState = "NETWORK"
      /\ dChar' = CharNow
      /\ frame' = [frame EXCEPT !.char = <<CharNow, dPhase, Len(dStrings[dPhase])>>]
  BY DisplayFrame DEF PeekChar, DisplayTakes, CharNow, Peeked, DrawInv, Copies
<1>2. /\ IsFrame(frame') /\ frame'.strings = frame.strings
      /\ frame'.char = <<CharNow, dPhase, Len(dStrings[dPhase])>>
  <2>1. IsFrame(frame)
    BY <1>1 DEF DrawInv, DisplayOK
  <2> DEFINE v == <<CharNow, dPhase, Len(dStrings[dPhase])>>
  <2>2. frame' = [frame EXCEPT !.char = v]
    BY <1>1
  <2> HIDE DEF v
  <2>3. LET g == [frame EXCEPT !.char = v]
        IN  IsFrame(g) /\ g.char = v /\ g.strings = frame.strings
    BY <2>1, FrameFacts
  <2>4. IsFrame(frame') /\ frame'.char = v /\ frame'.strings = frame.strings
    BY <2>2, <2>3
  <2> QED
    BY <2>4 DEF v
<1>3. DisplayOK'
  BY <1>1, <1>2 DEF DrawInv, DisplayOK, PhaseSet
<1>4. Copies' /\ StringsThere' /\ RedrawLast(outbox')
  <2>1. Copies'
    BY <1>1, DisplayFrame DEF DrawInv, Copies, CharNow, Peeked
  <2>2. StringsThere' /\ RedrawLast(outbox')
    BY <1>1 DEF DrawInv, StringsThere
  <2> QED
    BY <2>1, <2>2
<1>5. ASSUME UpToDate PROVE UpToDate'
  <2>1. /\ dState = StateNow /\ dPhase = PhaseNow /\ StringsWritten(frame)
        /\ \A p \in PhaseSet : dStrings[p] = mail[p]
    BY <1>1, <1>5 DEF UpToDate, PhaseSet
  <2>2. StringsWritten(frame)'
    BY <1>1, <1>2, <2>1, DisplayFrame DEF StringsWritten
  <2>3. frame'.char = <<CharNow', PhaseNow', Len(mail'[PhaseNow'])>>
    BY <1>1, <1>2, <2>1, DisplayFrame
  <2>4. Right(frame)'
    BY <1>1, <2>1, <2>2, <2>3, DisplayFrame DEF Right, StringsRight
  <2> QED
    BY <1>1, <2>1, <2>4, DisplayFrame DEF UpToDate, PhaseSet
<1> QED
  BY <1>1, <1>3, <1>4, <1>5 DEF DrawInv

LEMMA ShowDraws ==
    ASSUME IInv, DisplayStep, Show
    PROVE  DrawInv'
<1>1. /\ DrawInv /\ mail' = mail /\ Asked' = Asked
      /\ UNCHANGED <<hpc, outbox, frame, dState, dPhase, dChar, dPendingEmpty>>
      /\ dpc = "show" /\ dpc' = "take" /\ screen' = frame /\ dStrings' = NoCopies
  BY DisplayFrame DEF Show, DisplayTakes
<1>2. DisplayOK' /\ Copies' /\ StringsThere' /\ RedrawLast(outbox')
  <2>1. DisplayOK'
    BY <1>1, StringFacts DEF DrawInv, DisplayOK, PhaseSet, IsFrame, NoCopies
  <2>2. Copies'
    BY <1>1 DEF DrawInv, Copies, PhaseSet
  <2>3. StringsThere' /\ RedrawLast(outbox')
    BY <1>1 DEF DrawInv, StringsThere
  <2> QED
    BY <2>1, <2>2, <2>3
<1>3. ASSUME UpToDate PROVE UpToDate'
  <2>1. Right(frame)
    BY <1>1, <1>3 DEF UpToDate
  <2>2. Right(screen)'
    BY <1>1, <2>1, DisplayFrame DEF Right, StatusRight, StringsRight, StringsWritten
  <2> QED
    BY <1>1, <2>2 DEF UpToDate, PhaseSet
<1> QED
  BY <1>1, <1>2, <1>3 DEF DrawInv

LEMMA OthersDraw ==
    ASSUME IInv, UNCHANGED <<mail, handlerVars, displayVars>>,
           sUpdateDisplay' = sUpdateDisplay \/ sUpdateDisplay' = TRUE
    PROVE  DrawInv'
<1>1. DisplayOK' = DisplayOK /\ UpToDate' = UpToDate
  BY SameView
<1>2. UNCHANGED <<hpc, outbox, dpc, dState, dPhase, dChar>>
  BY DEF handlerVars, displayVars
<1>3. Copies' /\ StringsThere' /\ RedrawLast(outbox') /\ (Asked => Asked')
  BY <1>2 DEF IInv, DrawInv, Copies, StringsThere, Asked
<1> QED
  BY <1>1, <1>3 DEF IInv, DrawInv

-------------------------------------------------------------------------------
\* The theorems

LEMMA InvInductive ==
    ASSUME IInv, [Next]_vars
    PROVE  IInv'
<1>1. AgreeInv'
  BY NextAgrees DEF IInv
<1>2. DrawInv'
  <2>1. CASE HandlerStep
    BY <2>1, BootStateDraws, BootTargetDraws, PublishDraws, EventDraws
       DEF HandlerStep, Handler, Event
  <2>2. CASE DisplayStep
    BY <2>2, TakesDraws, PeekStateDraws, PeekPendingDraws, PeekCurrentDraws, PeekPhaseDraws,
       PeekStringDraws, PeekCharDraws, ShowDraws DEF DisplayStep, DisplayTask
  <2>3. CASE SensorsChange \/ StorageTakes \/ UNCHANGED vars
    BY <2>3, OthersDraw DEF SensorsChange, StorageTakes, vars, queueVars
  <2> QED
    BY <2>1, <2>2, <2>3 DEF Next
<1> QED
  BY <1>1, <1>2 DEF IInv

\* In every reachable state the handler agrees with its mailboxes once they are
\* written, and whatever Display has found and drawn is still right unless a
\* redraw is asked for.
THEOREM Invariance == Spec => []IInv
<1>1. Init => IInv
  BY InitAgrees, InitDraws DEF IInv
<1>2. IInv /\ [Next]_vars => IInv'
  BY InvInductive
<1> QED
  BY <1>1, <1>2, PTL DEF Spec

LEMMA InvAtRest ==
    ASSUME IInv, AtRest
    PROVE  /\ Idle /\ Agreed /\ DrawInv /\ \A box \in MailboxNames : After(box) = mail[box]
           /\ Right(screen)
<1>1. Idle /\ Agreed /\ DrawInv /\ \A box \in MailboxNames : After(box) = mail[box]
  BY IdleFacts DEF AtRest, Idle, IInv, AgreeInv
<1>2. ~Asked
  BY DEF AtRest, Idle, Asked
<1> QED
  BY <1>1, <1>2 DEF AtRest, DrawInv, UpToDate

\* Whenever the handler waits for an event, the other tasks find in the
\* mailboxes what it knows (SwitchHandler.cpp: every handler ends by writing what it has changed).
THEOREM MailboxesStayInAgreement == Spec => []MailboxesAgree
<1>1. ASSUME IInv, Idle PROVE MailboxesAgree
  <2>1. Agreed /\ \A box \in MailboxNames : After(box) = mail[box]
    BY <1>1, IdleFacts DEF Idle, IInv, AgreeInv
  <2> QED
    BY <2>1, BoxFacts DEF Agreed, StringAgreed, CurrentAgreed, MailboxesAgree
<1>2. IInv => MailboxesAgree
  BY <1>1 DEF MailboxesAgree
<1> QED
  BY <1>2, Invariance, PTL

\* The status screen at rest shows the target of the mailboxes, boxed while it
\* is pending, and nothing of the network screen (Display::print_CO2_target).
THEOREM StatusIsShown == Spec => []StatusShown
<1>1. ASSUME IInv, AtRest, mState = "STATUS" PROVE StatusDrawn
  <2>1. /\ Agreed /\ DrawInv /\ Right(screen)
        /\ \A box \in MailboxNames : After(box) = mail[box]
    BY <1>1, InvAtRest
  <2>2. StateNow = "STATUS"
    BY <1>1, <2>1, BoxFacts DEF Agreed, StateNow, Peeked
  <2>3. StatusRight(screen)
    BY <2>1, <2>2 DEF Right
  <2>4. mail["qCO2TargetCurrent"] # Empty =>
          /\ mail["qCO2TargetCurrent"] = mCO2TargetCurrent
          /\ mail["qCO2TargetPending"] = mCO2TargetPending
    BY <2>1, BoxFacts DEF Agreed, CurrentAgreed, DrawInv, Copies
  <2> QED
    BY <2>3, <2>4 DEF StatusRight, StatusDrawn
<1>2. IInv => StatusShown
  BY <1>1 DEF StatusShown
<1> QED
  BY <1>2, Invariance, PTL

\* The network screen at rest shows the strings entered so far, up to the
\* phase, and the boxed character behind the last of them.
THEOREM StringsAreShown == Spec => []StringsShown
<1>1. ASSUME IInv, AtRest, mState = "NETWORK" PROVE StringsDrawn
  <2>1. /\ Agreed /\ Right(screen) /\ HandlerOK
        /\ \A box \in MailboxNames : After(box) = mail[box]
    BY <1>1, InvAtRest DEF IInv, AgreeInv
  <2>2. StateNow = "NETWORK" /\ PhaseNow = mNetworkPhase
    <3>1. mail["qState"] = "NETWORK"
      BY <1>1, <2>1, BoxFacts DEF Agreed
    <3>2. \/ mail["qNetworkPhase"] = mNetworkPhase /\ mNetworkPhase \in PhaseSet
          \/ mail["qNetworkPhase"] = Empty /\ mNetworkPhase = "NEW_API"
      BY <2>1, BoxFacts DEF Agreed, HandlerOK
    <3> QED
      BY <3>1, <3>2, MailboxesAssumption DEF StateNow, PhaseNow, Peeked, PhaseSet
  <2>3. StringsRight(screen)
    BY <2>1, <2>2 DEF Right
  <2>4. \A p \in PhaseSet : mail[p] = mNetworkStrings[p]
    BY <1>1, <2>1, BoxFacts DEF Agreed, StringAgreed
  <2> QED
    BY <2>1, <2>2, <2>3, <2>4
       DEF StringsRight, StringsWritten, StringsDrawn, CharNow, HandlerOK
<1>2. IInv => StringsShown
  BY <1>1 DEF StringsShown
<1> QED
  BY <1>2, Invariance, PTL

\* Display never draws the buffer that a failed peek left uninitialised
\* (Display.cpp 195-200): the strings are there before the screen changes.
THEOREM GarbageIsNeverDrawn == Spec => []NoGarbageDrawn
<1>1. ASSUME IInv, NEW p \in PhaseSet PROVE dStrings[p] # <<Garbage>>
  <2>1. dStrings[p] \in Seq(Chars)
    BY <1>1, StringFacts DEF IInv, DrawInv, DisplayOK
  <2>2. dStrings[p] = <<Garbage>> => Garbage \in Chars
    <3>1. dStrings[p] = <<Garbage>> => Len(dStrings[p]) = 1 /\ dStrings[p][1] = Garbage
      OBVIOUS
    <3>2. Len(dStrings[p]) = 1 => dStrings[p][1] \in Chars
      BY <2>1
    <3> QED
      BY <3>1, <3>2
  <2> QED
    BY <2>2, CharsAssumption, GarbageAssumption
<1>2. IInv => NoGarbageDrawn
  BY <1>1 DEF NoGarbageDrawn
<1> QED
  BY <1>2, Invariance, PTL

\* What the handler's queue operations keep.
QueueOK ==
    /\ Len(outbox) \in 0..5
    /\ qStorageQueue \in Seq({Queued(c) : c \in PhaseSet \cup {"CO2_target"}})
    /\ Len(qStorageQueue) <= StorageQueueLength

LEMMA QueueInductive ==
    ASSUME IInv, QueueOK, [Next]_vars
    PROVE  QueueOK'
<1> DEFINE Commands == {Queued(c) : c \in PhaseSet \cup {"CO2_target"}}
<1>1. CASE HandlerStep /\ Publish
  <2>1. /\ HandlerOK /\ outbox # <<>> /\ outbox' = Tail(outbox) /\ outbox \in Seq(Operations)
    BY <1>1 DEF IInv, AgreeInv, HandlerOK, Publish, OverwriteMailbox, GiveDisplay,
       GiveGreenhouse, StoreQueued, StoreLost, Pending
  <2>2. /\ Head(outbox) \in Operations /\ Len(outbox) > 0
        /\ Len(outbox') = Len(outbox) - 1
    BY <2>1, TailFacts
  <2>3. CASE StoreQueued
    <3>1. /\ Head(outbox)[1] = "store" /\ Len(qStorageQueue) < StorageQueueLength
          /\ qStorageQueue' = Append(qStorageQueue, Queued(Head(outbox)[2]))
      BY <2>3 DEF StoreQueued
    <3>2. Queued(Head(outbox)[2]) \in Commands
      <4>1. PICK c \in PhaseSet \cup {"CO2_target"} : Head(outbox) = Store(c)
        BY <2>2, <3>1 DEF Operations, Overwrites, Overwrite, Stores, Redraw, Update,
           MailboxNames, PhaseSet
      <4> QED
        BY <4>1 DEF Store
    <3> DEFINE q == Queued(Head(outbox)[2])
    <3> HIDE DEF q, Commands
    <3>3. /\ qStorageQueue \in Seq(Commands) /\ q \in Commands
          /\ qStorageQueue' = Append(qStorageQueue, q)
      BY <3>1, <3>2 DEF QueueOK, q, Commands
    <3>4. /\ qStorageQueue' \in Seq(Commands)
          /\ Len(qStorageQueue') = Len(qStorageQueue) + 1
      BY <3>3, AppendProperties
    <3>5. Len(qStorageQueue') <= StorageQueueLength
      BY <3>1, <3>3, <3>4, MailboxesAssumption
    <3> QED
      <4>1. Len(outbox') \in 0..5
        BY <2>2, SMTT(30) DEF QueueOK
      <4> QED
        BY <3>4, <3>5, <4>1 DEF QueueOK, Commands
  <2>4. CASE ~StoreQueued
    <3>1. qStorageQueue' = qStorageQueue
      BY <1>1, <2>4 DEF Publish, OverwriteMailbox, GiveDisplay, GiveGreenhouse, StoreLost,
         queueVars
    <3> QED
      BY <2>2, <3>1, SMTT(30) DEF QueueOK
  <2> QED
    BY <2>3, <2>4
<1>2. CASE HandlerStep /\ ~Publish
  <2>1. qStorageQueue' = qStorageQueue
    BY <1>2, EventFrame DEF HandlerStep, Handler, Event, BootState, BootTarget, queueVars
  <2>2. Len(outbox') \in 0..5
    <3>1. CASE ToggleToNetwork
      BY <3>1, NetworkWrites DEF ToggleToNetwork
    <3>2. CASE ~ToggleToNetwork
      <4>1. CASE Event
        BY <3>2, <4>1 DEF QueueOK, Event, ButtonEvent, Bounce, ToggleToStatus,
           InsertTarget, InsertNothing, InsertChar, PublishString, ConfirmString, ConfirmLast,
           OmitTarget, ResetPending, RemoveChar, PreviousPhase, RotEvent, TurnTarget, TurnChar
      <4>2. CASE BootState \/ BootTarget
        BY <4>2 DEF QueueOK, BootState, BootTarget
      <4> QED
        BY <1>2, <4>1, <4>2 DEF HandlerStep, Handler, Event
    <3> QED
      BY <3>1, <3>2
  <2> QED
    BY <2>1, <2>2 DEF QueueOK
<1>3. CASE StorageTakes
  <2>1. /\ qStorageQueue \in Seq(Commands) /\ qStorageQueue # <<>>
        /\ qStorageQueue' = Tail(qStorageQueue) /\ UNCHANGED outbox
    BY <1>3 DEF StorageTakes, QueueOK, handlerVars
  <2> HIDE DEF Commands
  <2>2. /\ qStorageQueue' \in Seq(Commands) /\ Len(qStorageQueue') = Len(qStorageQueue) - 1
        /\ Len(qStorageQueue) \in Nat
    BY <2>1, TailFacts
  <2>3. Len(qStorageQueue') <= StorageQueueLength
    BY <2>2, MailboxesAssumption DEF QueueOK
  <2> QED
    BY <2>1, <2>2, <2>3 DEF QueueOK, Commands
<1>4. CASE ~HandlerStep /\ ~StorageTakes
  <2>1. UNCHANGED <<outbox, qStorageQueue>>
    BY <1>4 DEF Next, DisplayStep, DisplayTask, DisplayTakes, PeekState, PeekPending,
       PeekCurrent, PeekPhase, PeekString, PeekChar, Show, SensorsChange, queueVars,
       handlerVars, vars
  <2> QED
    BY <2>1 DEF QueueOK
<1> QED
  BY <1>1, <1>2, <1>3, <1>4

\* Every value is one the code's types admit: targets in range, strings no
\* longer than their mailbox, no more than five operations after an event and
\* no more commands than the storage queue holds.
THEOREM TypesAreCorrect == Spec => []TypeOK
<1>1. Init => QueueOK
  BY MailboxesAssumption DEF Init, HandlerInit, QueueOK
<1>2. IInv /\ QueueOK /\ [Next]_vars => QueueOK'
  BY QueueInductive
<1>3. IInv /\ QueueOK => TypeOK
  <2> SUFFICES ASSUME IInv, QueueOK PROVE TypeOK
    OBVIOUS
  <2>1. /\ mState \in {"STATUS", "NETWORK"} /\ mNetworkPhase \in PhaseSet
        /\ mCO2TargetCurrent \in CO2Targets /\ mCO2TargetPending \in CO2Targets
        /\ mCharPending \in Chars /\ mNetworkStrings \in [PhaseSet -> BoundedStrings]
        /\ dStrings \in [PhaseSet -> BoundedStrings]
    BY DEF IInv, AgreeInv, HandlerOK, DrawInv, DisplayOK
  <2>2. /\ mail["qCO2TargetCurrent"] \in CO2Targets \cup {Empty}
        /\ mail["qCO2TargetPending"] \in CO2Targets \cup {Empty}
        /\ \A p \in PhaseSet : mail[p] \in BoundedStrings \cup {Empty}
    BY BoxFacts DEF IInv, AgreeInv, HandlerOK
  <2>3. \A p \in PhaseSet : mNetworkStrings[p] \in BoundedStrings /\ dStrings[p] \in BoundedStrings
    BY <2>1
  <2>4. Len(outbox) \in 0..5
    BY DEF QueueOK
  <2>5. Len(outbox) <= 5 
    BY <2>4
  <2>6. Len(qStorageQueue) <= StorageQueueLength
    BY DEF QueueOK
  <2> QED
    BY <2>1, <2>2, <2>3, <2>5, <2>6 DEF TypeOK
<1> QED
  BY <1>1, <1>2, <1>3, Invariance, PTL DEF Spec

===============================================================================
