-------------------------- MODULE SwitchHandlerProofs --------------------------
(***************************************************************************)
(* The steps of SwitchHandler, for any targets, string lengths, characters  *)
(* and queue lengths: whatever it changes, it leaves operations in the       *)
(* outbox that bring the mailboxes into agreement with it, and each of them  *)
(* keeps what the rest will do.                                              *)
(***************************************************************************)
EXTENDS SwitchHandler, SequenceTheorems, TLAPS

-------------------------------------------------------------------------------
\* Types of the operations of the outbox, and of what they write

Values(box) ==
    CASE box = "qState" -> {"STATUS", "NETWORK"}
      [] box = "qNetworkPhase" -> PhaseSet
      [] box \in {"qCO2TargetCurrent", "qCO2TargetPending"} -> CO2Targets
      [] box = "qCharPending" -> Chars
      [] OTHER -> BoundedStrings

Overwrites == UNION {{Overwrite(box, v) : v \in Values(box)} : box \in MailboxNames}
Stores == {Store(c) : c \in PhaseSet \cup {"CO2_target"}}
Operations == Overwrites \cup Stores \cup {Redraw, Update}

HandlerOK ==
    /\ hpc \in {"boot", "peek", "run"}
    /\ outbox \in Seq(Operations) /\ (hpc # "run" => outbox = <<>>)
    /\ mail = [box \in MailboxNames |-> mail[box]]
    /\ \A box \in MailboxNames : mail[box] \in Values(box) \cup {Empty}
    /\ sUpdateDisplay \in BOOLEAN
    /\ mState \in {"STATUS", "NETWORK"} /\ mNetworkPhase \in PhaseSet
    /\ mCO2TargetCurrent \in CO2Targets /\ mCO2TargetPending \in CO2Targets
    /\ mCharPending \in Chars
    /\ mNetworkStrings \in [PhaseSet -> BoundedStrings]

-------------------------------------------------------------------------------
\* What the mailboxes will say

\* No mailbox is written twice.
Distinct(ops) ==
    \A i, j \in 1..Len(ops) : ops[i][1] \in MailboxNames /\ ops[i][1] = ops[j][1] => i = j

\* What mailbox box holds after the operations, where m are the mailboxes now.
Written(ops, m, box) ==
    IF \E i \in 1..Len(ops) : ops[i][1] = box
    THEN ops[CHOOSE i \in 1..Len(ops) : ops[i][1] = box][2]
    ELSE m[box]

After(box) == Written(outbox, mail, box)

\* Every event leaves the handler in agreement with the mailboxes it writes.
StringAgreed(p) == mState = "NETWORK" => After(p) = mNetworkStrings[p]
CurrentAgreed == After("qCO2TargetCurrent") \in {mCO2TargetCurrent, Empty}

Agreed ==
    /\ After("qState") = mState
    /\ \/ After("qNetworkPhase") = mNetworkPhase
       \/ After("qNetworkPhase") = Empty /\ mNetworkPhase = "NEW_API"
    /\ mState = "STATUS" => mNetworkPhase = "NEW_API"
    /\ \A p \in PhaseSet : StringAgreed(p)
    /\ CurrentAgreed
    /\ \/ After("qCO2TargetPending") = mCO2TargetPending
       \/ After("qCO2TargetPending") = Empty /\ mCO2TargetPending = mCO2TargetCurrent
    /\ After("qCharPending") = mCharPending \/ mCharPending = INIT_CHAR

\* No mailbox is written after the last redraw of an event.
RedrawLast(ops) ==
    \A i \in 1..Len(ops) : ops[i][1] \in MailboxNames =>
        \E j \in i + 1..Len(ops) : ops[j] = Redraw

-------------------------------------------------------------------------------
\* Operations and strings

\* Taking the head of a sequence moves every other element down by one.
LEMMA TailFacts ==
    ASSUME NEW S, NEW s \in Seq(S), s # <<>>
    PROVE  /\ Head(s) = s[1] /\ Head(s) \in S
           /\ Tail(s) \in Seq(S)
           /\ Len(s) \in Nat /\ Len(s) > 0 /\ Len(Tail(s)) = Len(s) - 1
           /\ \A i \in 1..Len(s) - 1 : Tail(s)[i] = s[i + 1]
  OBVIOUS

\* The strings are the short sequences of characters.
LEMMA StringFacts ==
    /\ \A s : s \in BoundedStrings <=> s \in Seq(Chars) /\ Len(s) <= MAX_CREDENTIAL_STRING_LEN
    /\ <<>> \in BoundedStrings
<1>1. ASSUME NEW s \in BoundedStrings
      PROVE  s \in Seq(Chars) /\ Len(s) <= MAX_CREDENTIAL_STRING_LEN
  <2>1. PICK n \in 0..MAX_CREDENTIAL_STRING_LEN : s \in [1..n -> Chars]
    BY DEF BoundedStrings
  <2>2. s \in Seq(Chars) /\ Len(s) = n
    BY <2>1, MailboxesAssumption
  <2> QED
    BY <2>1, <2>2
<1>2. ASSUME NEW s \in Seq(Chars), Len(s) <= MAX_CREDENTIAL_STRING_LEN
      PROVE  s \in BoundedStrings
  <2>1. s \in [1..Len(s) -> Chars] /\ Len(s) \in 0..MAX_CREDENTIAL_STRING_LEN
    BY <1>2, LenProperties, MailboxesAssumption
  <2> QED
    BY <2>1 DEF BoundedStrings
<1>3. <<>> \in Seq(Chars) /\ Len(<<>>) <= MAX_CREDENTIAL_STRING_LEN
  BY MailboxesAssumption
<1> QED
  BY <1>1, <1>2, <1>3

\* An empty mailbox is told from whatever is written to it.
LEMMA ValueFacts ==
    ASSUME NEW box \in MailboxNames, NEW v \in Values(box)
    PROVE  v # Empty
<1>1. Chars \subseteq Int /\ Empty \notin Int /\ Empty \notin Seq(Int)
  BY CharsAssumption, MailboxesAssumption
<1>2. CASE box \in PhaseSet
  <2>1. v \in BoundedStrings
    BY <1>2 DEF Values, PhaseSet
  <2>2. v \in Seq(Chars) /\ v \in Seq(Int)
    BY <1>1, <2>1, StringFacts, SeqMonotonic
  <2> QED
    BY <1>1, <2>2
<1>3. CASE box \notin PhaseSet
  BY <1>1, <1>3, MailboxesAssumption DEF Values, MailboxNames, PhaseSet, CO2Targets, CO2_MIN
<1> QED
  BY <1>2, <1>3

\* An operation writes a mailbox, or stores, or gives a semaphore.
LEMMA OperationFacts ==
    ASSUME NEW op \in Operations
    PROVE  \/ op[1] \in MailboxNames /\ op[2] \in Values(op[1]) /\ op = <<op[1], op[2]>>
           \/ op[1] \notin MailboxNames
<1>1. CASE op \in Overwrites
  <2>1. PICK box \in MailboxNames : op \in {Overwrite(box, v) : v \in Values(box)}
    BY <1>1 DEF Overwrites
  <2>2. PICK v \in Values(box) : op = <<box, v>>
    BY <2>1 DEF Overwrite
  <2> QED
    BY <2>2
<1>2. CASE op \in Stores
  BY <1>2 DEF Stores, Store, MailboxNames, PhaseSet
<1>3. CASE op \in {Redraw, Update}
  BY <1>3 DEF Redraw, Update, MailboxNames, PhaseSet
<1> QED
  BY <1>1, <1>2, <1>3 DEF Operations

LEMMA OverwriteFacts ==
    ASSUME NEW box \in MailboxNames, NEW v \in Values(box)
    PROVE  /\ Overwrite(box, v) \in Operations /\ Overwrite(box, v) # Redraw
           /\ Overwrite(box, v)[1] = box /\ Overwrite(box, v)[2] = v
<1>1. Overwrite(box, v) \in Operations
  BY DEF Overwrites, Operations
<1> QED
  BY <1>1 DEF Overwrite, Redraw, MailboxNames, PhaseSet

LEMMA OtherFacts ==
    /\ Redraw \in Operations /\ Update \in Operations
    /\ Redraw[1] \notin MailboxNames /\ Update[1] \notin MailboxNames
    /\ \A c \in PhaseSet \cup {"CO2_target"} :
          Store(c) \in Operations /\ Store(c)[1] \notin MailboxNames
<1>1. \A c \in PhaseSet \cup {"CO2_target"} : Store(c) \in Operations
  BY DEF Stores, Operations
<1>2. Redraw \in Operations /\ Update \in Operations
  BY DEF Operations
<1> QED
  BY <1>1, <1>2 DEF Redraw, Update, Store, MailboxNames, PhaseSet

-------------------------------------------------------------------------------
\* What the operations write

LEMMA WrittenLast ==
    ASSUME NEW ops, NEW m, Distinct(ops), NEW i \in 1..Len(ops), ops[i][1] \in MailboxNames
    PROVE  Written(ops, m, ops[i][1]) = ops[i][2]
<1> DEFINE k == CHOOSE k \in 1..Len(ops) : ops[k][1] = ops[i][1]
<1>1. k \in 1..Len(ops) /\ ops[k][1] = ops[i][1]
  OBVIOUS
<1>2. k = i
  BY <1>1 DEF Distinct
<1> QED
  BY <1>1, <1>2 DEF Written

LEMMA WrittenNot ==
    ASSUME NEW ops, NEW m, NEW box, \A i \in 1..Len(ops) : ops[i][1] # box
    PROVE  Written(ops, m, box) = m[box]
  BY DEF Written

\* What the first operation does not write is written by the rest, or not at all.
LEMMA WrittenMoves ==
    ASSUME NEW ops \in Seq(Operations), NEW rest \in Seq(Operations), NEW m, NEW n,
           NEW box \in MailboxNames,
           Distinct(ops), Distinct(rest), Len(ops) > 0, Len(rest) = Len(ops) - 1,
           \A i \in 1..Len(ops) - 1 : rest[i] = ops[i + 1],
           ops[1][1] # box, n[box] = m[box]
    PROVE  Written(rest, n, box) = Written(ops, m, box)
<1>1. CASE \E i \in 1..Len(ops) : ops[i][1] = box
  <2>1. PICK i \in 1..Len(ops) : ops[i][1] = box
    BY <1>1
  <2>2. i # 1
    BY <2>1
  <2>3. i - 1 \in 1..Len(rest) /\ rest[i - 1] = ops[(i - 1) + 1] /\ (i - 1) + 1 = i
    BY <2>2
  <2>4. Written(ops, m, box) = ops[i][2]
    BY <2>1, WrittenLast
  <2>5. Written(rest, n, box) = rest[i - 1][2]
    BY <2>1, <2>3, WrittenLast, ZenonT(30)
  <2> QED
    BY <2>3, <2>4, <2>5
<1>2. CASE ~\E i \in 1..Len(ops) : ops[i][1] = box
  <2>1. \A i \in 1..Len(rest) : rest[i][1] # box
    BY <1>2
  <2> QED
    BY <1>2, <2>1, WrittenNot
<1> QED
  BY <1>1, <1>2

\* Doing the first operation changes nothing of what there will be.
LEMMA PublishWritten ==
    ASSUME HandlerOK, Distinct(outbox), Publish
    PROVE  /\ Distinct(outbox') /\ outbox' \in Seq(Operations)
           /\ mail' = [box \in MailboxNames |-> mail'[box]]
           /\ \A box \in MailboxNames : /\ mail'[box] \in Values(box) \cup {Empty}
                                        /\ After(box)' = After(box)
           /\ sUpdateDisplay' \in BOOLEAN
<1>1. outbox # <<>> /\ outbox' = Tail(outbox) /\ outbox \in Seq(Operations)
  BY DEF HandlerOK, Publish, OverwriteMailbox, GiveDisplay, GiveGreenhouse, StoreQueued,
     StoreLost, Pending
<1>2. /\ Head(outbox) = outbox[1] /\ outbox[1] \in Operations
      /\ outbox' \in Seq(Operations)
      /\ Len(outbox) \in Nat /\ Len(outbox) > 0 /\ Len(outbox') = Len(outbox) - 1
      /\ \A i \in 1..Len(outbox) - 1 : outbox'[i] = outbox[i + 1]
  BY <1>1, TailFacts
<1>3. Distinct(outbox')
  <2> SUFFICES ASSUME NEW i \in 1..Len(outbox'), NEW j \in 1..Len(outbox'),
                      outbox'[i][1] \in MailboxNames, outbox'[i][1] = outbox'[j][1]
               PROVE  i = j
    BY DEF Distinct
  <2>1. /\ i + 1 \in 1..Len(outbox) /\ outbox'[i] = outbox[i + 1]
        /\ j + 1 \in 1..Len(outbox) /\ outbox'[j] = outbox[j + 1]
    BY <1>2
  <2>2. i + 1 = j + 1
    BY <2>1 DEF Distinct
  <2> QED
    BY <1>2, <2>2
<1>4. ASSUME NEW box \in MailboxNames, outbox[1][1] # box, mail'[box] = mail[box]
      PROVE  After(box)' = After(box)
  <2> DEFINE ops == outbox  rest == outbox'  m == mail  n == mail'
  <2>1. /\ ops \in Seq(Operations) /\ rest \in Seq(Operations)
        /\ Distinct(ops) /\ Distinct(rest) /\ Len(ops) > 0 /\ Len(rest) = Len(ops) - 1
        /\ \A i \in 1..Len(ops) - 1 : rest[i] = ops[i + 1]
        /\ ops[1][1] # box /\ n[box] = m[box]
    BY <1>1, <1>2, <1>3, <1>4
  <2> HIDE DEF ops, rest, m, n
  <2>2. Written(rest, n, box) = Written(ops, m, box)
    BY <2>1, WrittenMoves
  <2> QED
    BY <2>2 DEF ops, rest, m, n, After
<1>5. CASE outbox[1][1] \in MailboxNames
  <2>1. outbox[1][2] \in Values(outbox[1][1])
    BY <1>2, <1>5, OperationFacts
  <2>2. mail' = [mail EXCEPT ![outbox[1][1]] = outbox[1][2]] /\ UNCHANGED sUpdateDisplay
    BY <1>2, <1>5, OtherFacts DEF Publish, OverwriteMailbox, GiveDisplay, GiveGreenhouse,
       StoreQueued, StoreLost, MailboxNames, PhaseSet
  <2>3. /\ mail' = [box \in MailboxNames |-> mail'[box]]
        /\ \A box \in MailboxNames :
              mail'[box] = IF box = outbox[1][1] THEN outbox[1][2] ELSE mail[box]
    BY <2>2 DEF HandlerOK
  <2>4. ASSUME NEW box \in MailboxNames PROVE After(box)' = After(box)
    <3>1. CASE box = outbox[1][1]
      <4>1. \A i \in 1..Len(outbox') : outbox'[i][1] # box
        <5> SUFFICES ASSUME NEW i \in 1..Len(outbox'), outbox'[i][1] = box PROVE FALSE
          OBVIOUS
        <5>1. i + 1 \in 1..Len(outbox) /\ 1 \in 1..Len(outbox) /\ outbox[i + 1][1] = box
          BY <1>2
        <5>2. i + 1 = 1
          BY <1>5, <3>1, <5>1 DEF Distinct
        <5> QED
          BY <1>2, <5>2
      <4>2. Written(outbox', mail', box) = outbox[1][2]
        BY <2>3, <3>1, <4>1, WrittenNot
      <4>3. Written(outbox, mail, box) = outbox[1][2]
        <5>1. 1 \in 1..Len(outbox)
          BY <1>2
        <5> QED
          BY <1>5, <3>1, <5>1, WrittenLast
      <4> QED
        BY <4>2, <4>3 DEF After
    <3>2. CASE box # outbox[1][1]
      BY <1>4, <2>3, <3>2
    <3> QED
      BY <3>1, <3>2
  <2> QED
    BY <1>2, <1>3, <2>1, <2>2, <2>3, <2>4 DEF HandlerOK
<1>6. CASE outbox[1][1] \notin MailboxNames
  <2>1. mail' = mail /\ sUpdateDisplay' \in {sUpdateDisplay, TRUE}
    BY <1>2, <1>6 DEF Publish, OverwriteMailbox, GiveDisplay, GiveGreenhouse,
       StoreQueued, StoreLost, queueVars
  <2>2. ASSUME NEW box \in MailboxNames PROVE After(box)' = After(box)
    BY <1>4, <1>6, <2>1
  <2> QED
    BY <1>2, <1>3, <2>1, <2>2 DEF HandlerOK
<1> QED
  BY <1>5, <1>6

-------------------------------------------------------------------------------
\* Events

\* What operations leave in each mailbox.
LEMMA WrittenFacts ==
    ASSUME NEW ops, NEW m, Distinct(ops), NEW box \in MailboxNames
    PROVE  /\ \A i \in 1..Len(ops) : ops[i][1] = box => Written(ops, m, box) = ops[i][2]
           /\ (\A i \in 1..Len(ops) : ops[i][1] # box) => Written(ops, m, box) = m[box]
<1>1. ASSUME NEW i \in 1..Len(ops), ops[i][1] = box
      PROVE  Written(ops, m, box) = ops[i][2]
  BY <1>1, WrittenLast
<1>2. ASSUME \A i \in 1..Len(ops) : ops[i][1] # box
      PROVE  Written(ops, m, box) = m[box]
  BY <1>2, WrittenNot
<1> QED
  BY <1>1, <1>2

\* The operations of an event write no mailbox twice and then ask for a redraw.
Announces(ops) ==
    /\ ops \in Seq(Operations) /\ Distinct(ops) /\ RedrawLast(ops)
    /\ \E i \in 1..Len(ops) : ops[i] = Redraw

LEMMA OneWrite ==
    ASSUME NEW b \in MailboxNames, NEW v \in Values(b), NEW m
    PROVE  LET ops == <<Overwrite(b, v), Redraw>>
           IN  /\ Announces(ops) /\ Written(ops, m, b) = v
               /\ \A o \in MailboxNames \ {b} : Written(ops, m, o) = m[o]
<1> DEFINE ops == <<Overwrite(b, v), Redraw>>
<1>1. /\ ops \in Seq(Operations) /\ Len(ops) = 2 /\ ops[2] = Redraw
      /\ ops[1][1] = b /\ ops[1][2] = v /\ ops[2][1] \notin MailboxNames
  BY OverwriteFacts, OtherFacts
<1> HIDE DEF ops
<1>2. Distinct(ops) /\ RedrawLast(ops)
  BY <1>1 DEF Distinct, RedrawLast
<1>3. Written(ops, m, b) = v
  BY <1>1, <1>2, WrittenFacts
<1>4. ASSUME NEW o \in MailboxNames \ {b} PROVE Written(ops, m, o) = m[o]
  BY <1>1, <1>2, WrittenFacts
<1> QED
  BY <1>1, <1>2, <1>3, <1>4 DEF Announces, ops

LEMMA TwoWrites ==
    ASSUME NEW b \in MailboxNames, NEW v \in Values(b),
           NEW c \in MailboxNames, NEW w \in Values(c), b # c, NEW m
    PROVE  LET ops == <<Overwrite(b, v), Overwrite(c, w), Redraw>>
           IN  /\ Announces(ops) /\ Written(ops, m, b) = v /\ Written(ops, m, c) = w
               /\ \A o \in MailboxNames \ {b, c} : Written(ops, m, o) = m[o]
<1> DEFINE ops == <<Overwrite(b, v), Overwrite(c, w), Redraw>>
<1>1. /\ ops \in Seq(Operations) /\ Len(ops) = 3 /\ ops[3] = Redraw
      /\ ops[1][1] = b /\ ops[1][2] = v /\ ops[2][1] = c /\ ops[2][2] = w
      /\ ops[3][1] \notin MailboxNames
  BY OverwriteFacts, OtherFacts
<1> HIDE DEF ops
<1>2. Distinct(ops) /\ RedrawLast(ops)
  BY <1>1 DEF Distinct, RedrawLast
<1>3. Written(ops, m, b) = v /\ Written(ops, m, c) = w
  BY <1>1, <1>2, WrittenFacts
<1>4. ASSUME NEW o \in MailboxNames \ {b, c} PROVE Written(ops, m, o) = m[o]
  BY <1>1, <1>2, WrittenFacts
<1> QED
  BY <1>1, <1>2, <1>3, <1>4 DEF Announces, ops

LEMMA StoreAndWrite ==
    ASSUME NEW d \in PhaseSet, NEW b \in MailboxNames, NEW v \in Values(b), NEW m
    PROVE  LET ops == <<Store(d), Overwrite(b, v), Redraw>>
           IN  /\ Announces(ops) /\ Written(ops, m, b) = v
               /\ \A o \in MailboxNames \ {b} : Written(ops, m, o) = m[o]
<1> DEFINE ops == <<Store(d), Overwrite(b, v), Redraw>>
<1>1. /\ ops \in Seq(Operations) /\ Len(ops) = 3 /\ ops[3] = Redraw
      /\ ops[2][1] = b /\ ops[2][2] = v
      /\ ops[1][1] \notin MailboxNames /\ ops[3][1] \notin MailboxNames
  BY OverwriteFacts, OtherFacts
<1> HIDE DEF ops
<1>2. Distinct(ops) /\ RedrawLast(ops)
  BY <1>1 DEF Distinct, RedrawLast
<1>3. Written(ops, m, b) = v
  BY <1>1, <1>2, WrittenFacts
<1>4. ASSUME NEW o \in MailboxNames \ {b} PROVE Written(ops, m, o) = m[o]
  BY <1>1, <1>2, WrittenFacts
<1> QED
  BY <1>1, <1>2, <1>3, <1>4 DEF Announces, ops

LEMMA StoreAndTwoWrites ==
    ASSUME NEW d \in PhaseSet, NEW b \in MailboxNames, NEW v \in Values(b),
           NEW c \in MailboxNames, NEW w \in Values(c), b # c, NEW m
    PROVE  LET ops == <<Store(d), Overwrite(b, v), Overwrite(c, w), Redraw>>
           IN  /\ Announces(ops) /\ Written(ops, m, b) = v /\ Written(ops, m, c) = w
               /\ \A o \in MailboxNames \ {b, c} : Written(ops, m, o) = m[o]
<1> DEFINE ops == <<Store(d), Overwrite(b, v), Overwrite(c, w), Redraw>>
<1>1. /\ ops \in Seq(Operations) /\ Len(ops) = 4 /\ ops[4] = Redraw
      /\ ops[2][1] = b /\ ops[2][2] = v /\ ops[3][1] = c /\ ops[3][2] = w
      /\ ops[1][1] \notin MailboxNames /\ ops[4][1] \notin MailboxNames
  BY OverwriteFacts, OtherFacts
<1> HIDE DEF ops
<1>2. Distinct(ops) /\ RedrawLast(ops)
  BY <1>1 DEF Distinct, RedrawLast
<1>3. Written(ops, m, b) = v /\ Written(ops, m, c) = w
  <2>1. ASSUME NEW i \in 2..3 PROVE Written(ops, m, ops[i][1]) = ops[i][2]
    <3>1. i \in 1..Len(ops) /\ ops[i][1] \in MailboxNames
      BY <1>1
    <3> QED
      BY <1>2, <3>1, WrittenLast
  <2> QED
    BY <1>1, <2>1
<1>4. ASSUME NEW o \in MailboxNames \ {b, c} PROVE Written(ops, m, o) = m[o]
  BY <1>1, <1>2, WrittenFacts
<1> QED
  BY <1>1, <1>2, <1>3, <1>4 DEF Announces, ops

LEMMA InsertWrites ==
    ASSUME NEW v \in CO2Targets, NEW m
    PROVE  LET ops == <<Overwrite("qCO2TargetCurrent", v), Overwrite("qCO2TargetPending", v),
                        Store("CO2_target"), Redraw, Update>>
           IN  /\ Announces(ops)
               /\ Written(ops, m, "qCO2TargetCurrent") = v
               /\ Written(ops, m, "qCO2TargetPending") = v
               /\ \A o \in MailboxNames \ {"qCO2TargetCurrent", "qCO2TargetPending"} :
                     Written(ops, m, o) = m[o]
<1> DEFINE b == "qCO2TargetCurrent"
           c == "qCO2TargetPending"
           ops == <<Overwrite(b, v), Overwrite(c, v), Store("CO2_target"), Redraw, Update>>
<1>1. /\ b \in MailboxNames /\ c \in MailboxNames /\ b # c
      /\ v \in Values(b) /\ v \in Values(c)
  BY DEF MailboxNames, Values
<1> HIDE DEF b, c
<1>2. /\ ops \in Seq(Operations) /\ Len(ops) = 5 /\ ops[4] = Redraw
      /\ ops[1][1] = b /\ ops[1][2] = v /\ ops[2][1] = c /\ ops[2][2] = v
      /\ ops[3][1] \notin MailboxNames /\ ops[4][1] \notin MailboxNames
      /\ ops[5][1] \notin MailboxNames
  BY <1>1, OverwriteFacts, OtherFacts
<1> HIDE DEF ops
<1>3. Distinct(ops) /\ RedrawLast(ops)
  BY <1>1, <1>2 DEF Distinct, RedrawLast
<1>4. Written(ops, m, b) = v /\ Written(ops, m, c) = v
  BY <1>1, <1>2, <1>3, WrittenFacts
<1>5. ASSUME NEW o \in MailboxNames \ {b, c} PROVE Written(ops, m, o) = m[o]
  BY <1>2, <1>3, <1>5, WrittenFacts
<1>6. Announces(ops)
  BY <1>2, <1>3 DEF Announces
<1> QED
  BY <1>4, <1>5, <1>6 DEF ops, b, c

LEMMA OmitWrites ==
    ASSUME NEW m
    PROVE  LET ops == <<Redraw, Update>>
           IN  Announces(ops) /\ \A o \in MailboxNames : Written(ops, m, o) = m[o]
<1> DEFINE ops == <<Redraw, Update>>
<1>1. /\ ops \in Seq(Operations) /\ Len(ops) = 2 /\ ops[1] = Redraw
      /\ ops[1][1] \notin MailboxNames /\ ops[2][1] \notin MailboxNames
  BY OtherFacts
<1> HIDE DEF ops
<1>2. Distinct(ops) /\ RedrawLast(ops)
  BY <1>1 DEF Distinct, RedrawLast
<1>3. ASSUME NEW o \in MailboxNames PROVE Written(ops, m, o) = m[o]
  BY <1>1, <1>2, WrittenFacts
<1> QED
  BY <1>1, <1>2, <1>3 DEF Announces, ops

LEMMA NetworkWrites ==
    ASSUME NEW m
    PROVE  LET ops == [i \in 1..3 |-> Overwrite(Phases[i], <<>>)]
                      \o <<Overwrite("qState", "NETWORK"), Redraw>>
           IN  /\ Announces(ops) /\ Len(ops) = 5
               /\ Written(ops, m, "qState") = "NETWORK"
               /\ \A p \in PhaseSet : Written(ops, m, p) = <<>>
               /\ \A o \in MailboxNames \ (PhaseSet \cup {"qState"}) : Written(ops, m, o) = m[o]
               /\ \A i \in 1..Len(ops) : ops[i] = Overwrite("qState", "NETWORK") =>
                    \A p \in PhaseSet : \E j \in 1..i - 1 : ops[j][1] = p
<1> DEFINE first == [i \in 1..3 |-> Overwrite(Phases[i], <<>>)]
           last == <<Overwrite("qState", "NETWORK"), Redraw>>
           ops == first \o last
<1>1. /\ \A p \in PhaseSet : p \in MailboxNames /\ <<>> \in Values(p)
      /\ "qState" \in MailboxNames /\ "NETWORK" \in Values("qState")
  BY StringFacts DEF MailboxNames, Values, PhaseSet
<1>2. Phases[1] = "NEW_API" /\ Phases[2] = "NEW_SSID" /\ Phases[3] = "NEW_PW"
  BY DEF Phases
<1>3. \A i \in 1..3 : Phases[i] \in PhaseSet
  BY <1>2 DEF PhaseSet
<1>4. first \in Seq(Operations) /\ Len(first) = 3
  BY <1>1, <1>3, OverwriteFacts
<1>5. last \in Seq(Operations) /\ Len(last) = 2
  BY <1>1, OverwriteFacts, OtherFacts
<1>6. /\ ops \in Seq(Operations) /\ Len(ops) = 5
      /\ ops[1] = first[1] /\ ops[2] = first[2] /\ ops[3] = first[3]
      /\ ops[4] = last[1] /\ ops[5] = last[2]
  BY <1>4, <1>5
<1>7. /\ ops[1][1] = "NEW_API" /\ ops[2][1] = "NEW_SSID" /\ ops[3][1] = "NEW_PW"
      /\ ops[1][2] = <<>> /\ ops[2][2] = <<>> /\ ops[3][2] = <<>>
      /\ ops[4][1] = "qState" /\ ops[4][2] = "NETWORK"
      /\ ops[5] = Redraw /\ ops[5][1] \notin MailboxNames
  BY <1>2, <1>6, OtherFacts DEF Overwrite
<1> HIDE DEF ops
<1>8. Distinct(ops) /\ RedrawLast(ops)
  BY <1>6, <1>7 DEF Distinct, RedrawLast, MailboxNames, PhaseSet
<1>9. /\ Written(ops, m, "qState") = "NETWORK"
      /\ \A p \in PhaseSet : Written(ops, m, p) = <<>>
  <2>1. ASSUME NEW i \in 1..4 PROVE Written(ops, m, ops[i][1]) = ops[i][2]
    <3>1. i \in 1..Len(ops) /\ ops[i][1] \in MailboxNames
      BY <1>6, <1>7 DEF MailboxNames, PhaseSet
    <3> QED
      BY <1>8, <3>1, WrittenLast
  <2> QED
    BY <1>6, <1>7, <2>1 DEF PhaseSet
<1>10. ASSUME NEW o \in MailboxNames \ (PhaseSet \cup {"qState"})
       PROVE  Written(ops, m, o) = m[o]
  <2>1. \A i \in 1..Len(ops) : ops[i][1] # o
    BY <1>6, <1>7 DEF PhaseSet
  <2> QED
    BY <2>1, WrittenNot
<1>11. ASSUME NEW i \in 1..Len(ops), ops[i] = Overwrite("qState", "NETWORK"), NEW p \in PhaseSet
       PROVE  \E j \in 1..i - 1 : ops[j][1] = p
  <2>1. ops[i][1] = "qState"
    BY <1>11 DEF Overwrite
  <2>2. i = 4
    BY <1>6, <1>7, <2>1 DEF MailboxNames
  <2> QED
    BY <1>7, <2>2 DEF PhaseSet
<1> QED
  BY <1>6, <1>7, <1>8, <1>9, <1>10, <1>11, SMTT(30) DEF Announces, ops

-------------------------------------------------------------------------------
\* Events keep the handler in agreement with what its mailboxes will say

Event == ButtonEvent \/ \E direction \in Directions : RotEvent(direction)

\* The target in force and each string also on their own, whether or not the
\* other mailboxes agree.
EventAgrees ==
    /\ HandlerOK' /\ hpc' = "run"
    /\ CurrentAgreed => CurrentAgreed'
    /\ \A p \in PhaseSet : StringAgreed(p) => StringAgreed(p)'
    /\ Agreed => Agreed'
    /\ \/ mail' = mail /\ outbox' = <<>>
       \/ Announces(outbox')
    /\ Agreed /\ mail'["qCO2TargetPending"] = Empty =>
          After("qCO2TargetCurrent")' \in {mail["qCO2TargetCurrent"], Empty}

LEMMA EmptyFacts == Distinct(<<>>) /\ RedrawLast(<<>>) /\ <<>> \in Seq(Operations)
  BY DEF Distinct, RedrawLast

LEMMA BoxFacts ==
    /\ {"qState", "qNetworkPhase", "qCharPending", "qCO2TargetCurrent",
        "qCO2TargetPending"} \subseteq MailboxNames
    /\ PhaseSet \subseteq MailboxNames
    /\ Values("qState") = {"STATUS", "NETWORK"} /\ Values("qNetworkPhase") = PhaseSet
    /\ Values("qCO2TargetCurrent") = CO2Targets /\ Values("qCO2TargetPending") = CO2Targets
    /\ Values("qCharPending") = Chars
    /\ \A p \in PhaseSet : Values(p) = BoundedStrings
  BY DEF MailboxNames, Values, PhaseSet

LEMMA IdleFacts ==
    ASSUME Idle
    PROVE  /\ hpc = "run" /\ outbox = <<>> /\ Len(outbox) = 0
           /\ \A box \in MailboxNames : After(box) = mail[box]
<1>1. hpc = "run" /\ outbox = <<>> /\ Len(outbox) = 0
  BY DEF Idle
<1> QED
  BY <1>1, WrittenNot DEF After

\* Rotations and presses that only change one value and its mailbox.
LEMMA TurnAgrees ==
    ASSUME HandlerOK, NEW direction \in Directions, RotEvent(direction)
    PROVE  EventAgrees
<1>1. /\ hpc' = "run" /\ mail' = mail /\ sUpdateDisplay' = sUpdateDisplay /\ mState' = mState
      /\ outbox = <<>> /\ \A box \in MailboxNames : After(box) = mail[box]
  <2>1. Idle
    BY DEF RotEvent
  <2>2. hpc = "run" /\ outbox = <<>> /\ \A box \in MailboxNames : After(box) = mail[box]
    BY <2>1, IdleFacts
  <2>3. UNCHANGED <<queueVars, hpc, mState>>
    BY DEF RotEvent
  <2> QED
    BY <2>1, <2>2, <2>3 DEF queueVars, HandlerOK
<1>2. CASE UNCHANGED <<targetVars, networkVars, outbox>>
  <2>1. \A box \in MailboxNames : After(box)' = After(box)
    BY <1>1, <1>2 DEF After
  <2> QED
    BY <1>1, <1>2, <2>1, BoxFacts, EmptyFacts
       DEF EventAgrees, HandlerOK, Agreed, StringAgreed, CurrentAgreed,
           targetVars, networkVars
<1>3. CASE mState = "STATUS" /\ TurnTarget(direction)
  <2>1. PICK v \in CO2Targets :
           /\ mCO2TargetPending' = v
           /\ outbox' = <<Overwrite("qCO2TargetPending", v), Redraw>>
    BY <1>3 DEF TurnTarget
  <2>2. /\ Announces(outbox') /\ After("qCO2TargetPending")' = v
        /\ \A o \in MailboxNames \ {"qCO2TargetPending"} : After(o)' = mail[o]
    BY <1>1, <2>1, BoxFacts, OneWrite DEF After
  <2> QED
    BY <1>1, <1>3, <2>1, <2>2, BoxFacts
       DEF EventAgrees, HandlerOK, Agreed, StringAgreed, CurrentAgreed, Announces,
           TurnTarget, networkVars
<1>4. CASE mState # "STATUS" /\ TurnChar(direction)
  <2>1. PICK v \in Chars :
           /\ mCharPending' = v
           /\ outbox' = <<Overwrite("qCharPending", v), Redraw>>
    BY <1>4 DEF TurnChar
  <2>2. /\ Announces(outbox') /\ After("qCharPending")' = v
        /\ \A o \in MailboxNames \ {"qCharPending"} : After(o)' = mail[o]
    BY <1>1, <2>1, BoxFacts, OneWrite DEF After
  <2> QED
    BY <1>1, <1>4, <2>1, <2>2, BoxFacts
       DEF EventAgrees, HandlerOK, Agreed, StringAgreed, CurrentAgreed, Announces,
           TurnChar, targetVars, PhaseSet
<1> QED
  BY <1>2, <1>3, <1>4 DEF RotEvent

LEMMA PressFacts ==
    ASSUME HandlerOK, Press
    PROVE  /\ hpc' = "run" /\ sUpdateDisplay' = sUpdateDisplay /\ sUpdateDisplay \in BOOLEAN
           /\ outbox = <<>> /\ \A box \in MailboxNames : After(box) = mail[box]
<1>1. Idle
  BY DEF Press
<1> QED
  BY <1>1, IdleFacts DEF Press, HandlerOK

LEMMA QuietPressAgrees ==
    ASSUME HandlerOK, Press, 
           UNCHANGED <<mail, targetVars, networkVars, mState, outbox>>
    PROVE  EventAgrees
<1>1. \A box \in MailboxNames : After(box)' = After(box)
  BY DEF After
<1> QED
  BY <1>1, PressFacts, BoxFacts, EmptyFacts
     DEF EventAgrees, HandlerOK, Agreed, StringAgreed, CurrentAgreed,
         targetVars, networkVars

LEMMA ToggleAgrees ==
    ASSUME HandlerOK, ToggleToStatus \/ ToggleToNetwork
    PROVE  /\ EventAgrees
           /\ ToggleToNetwork => \A p \in PhaseSet : StringAgreed(p)'
<1>1. CASE ToggleToStatus
  <2>1. Press /\ mail' = mail
    BY <1>1 DEF ToggleToStatus
  <2>2. outbox' = <<Overwrite("qNetworkPhase", "NEW_API"),
                    Overwrite("qState", "STATUS"), Redraw>>
    BY <1>1 DEF ToggleToStatus
  <2>3. /\ Announces(outbox') /\ After("qNetworkPhase")' = "NEW_API"
        /\ After("qState")' = "STATUS"
        /\ \A o \in MailboxNames \ {"qNetworkPhase", "qState"} : After(o)' = mail[o]
    BY <2>1, <2>2, BoxFacts, TwoWrites DEF After, PhaseSet
  <2> QED
    BY <1>1, <2>1, <2>3, PressFacts, BoxFacts, CharsAssumption
       DEF EventAgrees, HandlerOK, Agreed, StringAgreed, CurrentAgreed, Announces,
           ToggleToStatus, targetVars, PhaseSet
<1>2. CASE ToggleToNetwork
  <2>1. Press /\ mail' = mail
    BY <1>2 DEF ToggleToNetwork
  <2>2. outbox' = [i \in 1..3 |-> Overwrite(Phases[i], <<>>)]
                  \o <<Overwrite("qState", "NETWORK"), Redraw>>
    BY <1>2 DEF ToggleToNetwork
  <2>3. /\ Announces(outbox') /\ After("qState")' = "NETWORK"
        /\ \A p \in PhaseSet : After(p)' = <<>>
        /\ \A o \in MailboxNames \ (PhaseSet \cup {"qState"}) : After(o)' = mail[o]
    BY <2>1, <2>2, NetworkWrites DEF After
  <2>4. /\ mState' = "NETWORK" /\ mNetworkStrings' \in [PhaseSet -> BoundedStrings]
        /\ \A p \in PhaseSet : mNetworkStrings'[p] = <<>>
        /\ UNCHANGED <<targetVars, mNetworkPhase, mCharPending>>
    BY <1>2, StringFacts DEF ToggleToNetwork, NoStrings
  <2> QED
    BY <2>1, <2>3, <2>4, PressFacts, BoxFacts
       DEF EventAgrees, HandlerOK, Agreed, StringAgreed, CurrentAgreed, Announces,
           targetVars, PhaseSet
<1> QED
  BY <1>1, <1>2

LEMMA TargetPressAgrees ==
    ASSUME HandlerOK, InsertTarget \/ OmitTarget \/ ResetPending
    PROVE  EventAgrees
<1>1. CASE InsertTarget
  <2>1. Press /\ mail' = mail
    BY <1>1 DEF InsertTarget
  <2>2. outbox' = <<Overwrite("qCO2TargetCurrent", mCO2TargetPending),
                    Overwrite("qCO2TargetPending", mCO2TargetPending),
                    Store("CO2_target"), Redraw, Update>>
    BY <1>1 DEF InsertTarget
  <2>3. /\ Announces(outbox')
        /\ After("qCO2TargetCurrent")' = mCO2TargetPending
        /\ After("qCO2TargetPending")' = mCO2TargetPending
        /\ \A o \in MailboxNames \ {"qCO2TargetCurrent", "qCO2TargetPending"} :
              After(o)' = mail[o]
    BY <2>1, <2>2, InsertWrites DEF After, HandlerOK
  <2> QED
    BY <1>1, <2>1, <2>3, PressFacts, BoxFacts
       DEF EventAgrees, HandlerOK, Agreed, StringAgreed, CurrentAgreed, Announces,
           InsertTarget, networkVars, PhaseSet
<1>2. CASE OmitTarget
  <2>1. Press /\ outbox' = <<Redraw, Update>>
    BY <1>2 DEF OmitTarget
  <2>2. Announces(outbox') /\ \A o \in MailboxNames : After(o)' = mail'[o]
    BY <2>1, OmitWrites DEF After
  <2>3. \/ mail["qCO2TargetCurrent"] = Empty /\ UNCHANGED <<mail, mCO2TargetCurrent>>
        \/ /\ mail["qCO2TargetCurrent"] # Empty
           /\ mCO2TargetCurrent' = mail["qCO2TargetCurrent"]
           /\ mail' = [mail EXCEPT !["qCO2TargetCurrent"] = Empty]
    BY <1>2 DEF OmitTarget
  <2>4. /\ mail' = [box \in MailboxNames |-> mail'[box]]
        /\ \A o \in MailboxNames \ {"qCO2TargetCurrent"} : mail'[o] = mail[o]
        /\ mail'["qCO2TargetCurrent"] = Empty
        /\ mCO2TargetCurrent' \in CO2Targets
        /\ CurrentAgreed => mCO2TargetCurrent' = mCO2TargetCurrent
    BY <2>1, <2>3, PressFacts, BoxFacts DEF HandlerOK, CurrentAgreed
  <2> QED
    BY <1>2, <2>1, <2>2, <2>4, PressFacts, BoxFacts
       DEF EventAgrees, HandlerOK, Agreed, StringAgreed, CurrentAgreed, Announces,
           OmitTarget, networkVars, PhaseSet
<1>3. CASE ResetPending
  <2>1. Press /\ mail' = mail
    BY <1>3 DEF ResetPending
  <2>2. outbox' = <<Overwrite("qCO2TargetPending", mCO2TargetCurrent), Redraw>>
    BY <1>3 DEF ResetPending
  <2>3. /\ Announces(outbox') /\ After("qCO2TargetPending")' = mCO2TargetCurrent
        /\ \A o \in MailboxNames \ {"qCO2TargetPending"} : After(o)' = mail[o]
    BY <2>1, <2>2, BoxFacts, OneWrite DEF After, HandlerOK
  <2> QED
    BY <1>3, <2>1, <2>3, PressFacts, BoxFacts
       DEF EventAgrees, HandlerOK, Agreed, StringAgreed, CurrentAgreed, Announces,
           ResetPending, networkVars, PhaseSet
<1> QED
  BY <1>1, <1>2, <1>3

\* What insert and backspace leave of a string is again one its mailbox can hold.
LEMMA InsertedString ==
    ASSUME NEW s \in BoundedStrings, NEW c \in Chars, Len(s) < MAX_CREDENTIAL_STRING_LEN
    PROVE  Append(s, c) \in BoundedStrings
<1>1. s \in Seq(Chars)
  BY StringFacts
<1>2. Append(s, c) \in Seq(Chars) /\ Len(Append(s, c)) = Len(s) + 1 /\ Len(s) \in Nat
  BY <1>1, AppendProperties
<1>3. Len(Append(s, c)) <= MAX_CREDENTIAL_STRING_LEN
  BY <1>2, MailboxesAssumption
<1> QED
  BY <1>2, <1>3, StringFacts

LEMMA RemovedString ==
    ASSUME NEW s \in BoundedStrings, s # <<>>
    PROVE  SubSeq(s, 1, Len(s) - 1) \in BoundedStrings
<1> DEFINE n == Len(s) - 1
           t == SubSeq(s, 1, n)
<1>1. s \in Seq(Chars) /\ Len(s) <= MAX_CREDENTIAL_STRING_LEN
  BY StringFacts
<1>2. n \in Nat /\ n < MAX_CREDENTIAL_STRING_LEN /\ \A i \in 1..n : s[i] \in Chars
  BY <1>1, MailboxesAssumption
<1> HIDE DEF n
<1>3. t \in Seq(Chars) /\ Len(t) = IF 1 <= n THEN n - 1 + 1 ELSE 0
  BY <1>2, SubSeqProperties
<1> HIDE DEF t
<1>4. Len(t) <= MAX_CREDENTIAL_STRING_LEN
  BY <1>2, <1>3, MailboxesAssumption
<1>5. t \in BoundedStrings
  BY <1>3, <1>4, StringFacts
<1> QED
  BY <1>5 DEF t, n

LEMMA CharPressAgrees ==
    ASSUME HandlerOK, InsertChar \/ RemoveChar
    PROVE  /\ EventAgrees
           /\ StringAgreed(mNetworkPhase)'
<1>0. PICK p \in PhaseSet : p = mNetworkPhase
  BY DEF HandlerOK
<1>1. /\ Press /\ mail' = mail /\ mState = "NETWORK" /\ p = mNetworkPhase
      /\ UNCHANGED <<targetVars, mState, mNetworkPhase>> /\ PublishString
  BY <1>0 DEF InsertChar, RemoveChar
<1>2. /\ mNetworkStrings' \in [PhaseSet -> BoundedStrings]
      /\ \A q \in PhaseSet \ {p} : mNetworkStrings'[q] = mNetworkStrings[q]
  <2>1. mNetworkStrings[p] \in BoundedStrings /\ mCharPending \in Chars
    BY DEF HandlerOK
  <2>2. CASE InsertChar
    <3>1. /\ Len(mNetworkStrings[p]) < MAX_CREDENTIAL_STRING_LEN
          /\ mNetworkStrings' = [mNetworkStrings EXCEPT ![p] = Append(@, mCharPending)]
      BY <1>0, <2>2 DEF InsertChar
    <3>2. Append(mNetworkStrings[p], mCharPending) \in BoundedStrings
      BY <2>1, <3>1, InsertedString
    <3> QED
      BY <3>1, <3>2 DEF HandlerOK
  <2>3. CASE RemoveChar
    <3>1. /\ mNetworkStrings[p] # <<>>
          /\ mNetworkStrings' = [mNetworkStrings EXCEPT ![p] = SubSeq(@, 1, Len(@) - 1)]
      BY <1>0, <2>3 DEF RemoveChar
    <3>2. SubSeq(mNetworkStrings[p], 1, Len(mNetworkStrings[p]) - 1) \in BoundedStrings
      BY <2>1, <3>1, RemovedString
    <3> QED
      BY <3>1, <3>2 DEF HandlerOK
  <2> QED
    BY <2>2, <2>3
<1>3. PICK v \in BoundedStrings : v = mNetworkStrings'[p]
  BY <1>1, <1>2
<1>4. /\ mCharPending' = INIT_CHAR
      /\ outbox' = <<Overwrite(p, v), Overwrite("qCharPending", INIT_CHAR), Redraw>>
  BY <1>1, <1>3 DEF PublishString
<1>5. /\ Announces(outbox') /\ After(p)' = v /\ After("qCharPending")' = INIT_CHAR
      /\ \A o \in MailboxNames \ {p, "qCharPending"} : After(o)' = mail[o]
  <2>1. p \in MailboxNames /\ v \in Values(p) /\ INIT_CHAR \in Values("qCharPending")
        /\ "qCharPending" \in MailboxNames /\ p # "qCharPending"
    BY <1>1, <1>3, BoxFacts, CharsAssumption DEF PhaseSet
  <2> DEFINE ops == <<Overwrite(p, v), Overwrite("qCharPending", INIT_CHAR), Redraw>>
  <2>2. /\ Announces(ops) /\ Written(ops, mail, p) = v
        /\ Written(ops, mail, "qCharPending") = INIT_CHAR
        /\ \A o \in MailboxNames \ {p, "qCharPending"} : Written(ops, mail, o) = mail[o]
    BY <2>1, TwoWrites
  <2>3. mail' = mail
    BY <1>1
  <2>4. outbox' = ops
    BY <1>4
  <2> HIDE DEF ops
  <2> QED
    BY <2>2, <2>3, <2>4 DEF After
<1>6. /\ After(p)' = mNetworkStrings'[p] /\ mNetworkPhase' = p
      /\ \A q \in PhaseSet : StringAgreed(q) => StringAgreed(q)'
  BY <1>1, <1>2, <1>3, <1>5, PressFacts, BoxFacts DEF StringAgreed, PhaseSet
<1>7. \A o \in {"qCO2TargetCurrent", "qCO2TargetPending", "qState", "qNetworkPhase"} :
         After(o)' = mail[o]
  BY <1>5, BoxFacts DEF PhaseSet
<1> QED
  BY <1>1, <1>2, <1>4, <1>5, <1>6, <1>7, PressFacts, BoxFacts, CharsAssumption
     DEF EventAgrees, HandlerOK, Agreed, StringAgreed, CurrentAgreed, Announces,
         targetVars, PhaseSet

LEMMA PhasePressAgrees ==
    ASSUME HandlerOK, ConfirmString \/ ConfirmLast \/ PreviousPhase
    PROVE  EventAgrees
<1>1. CASE ConfirmString
  <2>1. Press /\ mail' = mail
    BY <1>1 DEF ConfirmString
  <2>2. PICK v \in PhaseSet :
           /\ mNetworkPhase' = v
           /\ outbox' = <<Store(mNetworkPhase), Overwrite("qNetworkPhase", v), Redraw>>
    BY <1>1 DEF ConfirmString, NextPhase, PhaseSet
  <2>3. /\ Announces(outbox') /\ After("qNetworkPhase")' = v
        /\ \A o \in MailboxNames \ {"qNetworkPhase"} : After(o)' = mail[o]
    BY <2>1, <2>2, BoxFacts, StoreAndWrite DEF After, HandlerOK
  <2> QED
    BY <1>1, <2>1, <2>2, <2>3, PressFacts, BoxFacts
       DEF EventAgrees, HandlerOK, Agreed, StringAgreed, CurrentAgreed, Announces,
           ConfirmString, targetVars, PhaseSet
<1>2. CASE ConfirmLast
  <2>1. Press /\ mail' = mail
    BY <1>2 DEF ConfirmLast
  <2>2. outbox' = <<Store("NEW_PW"), Overwrite("qState", "STATUS"),
                    Overwrite("qNetworkPhase", "NEW_API"), Redraw>>
    BY <1>2 DEF ConfirmLast
  <2>3. /\ Announces(outbox') /\ After("qNetworkPhase")' = "NEW_API"
        /\ After("qState")' = "STATUS"
        /\ \A o \in MailboxNames \ {"qNetworkPhase", "qState"} : After(o)' = mail[o]
    BY <2>1, <2>2, BoxFacts, StoreAndTwoWrites DEF After, PhaseSet
  <2>4. /\ mState' = "STATUS" /\ mNetworkPhase' = "NEW_API"
        /\ mNetworkStrings' \in [PhaseSet -> BoundedStrings]
        /\ UNCHANGED <<targetVars, mCharPending>>
    BY <1>2, StringFacts DEF ConfirmLast, NoStrings
  <2> QED
    BY <2>1, <2>3, <2>4, PressFacts, BoxFacts
       DEF EventAgrees, HandlerOK, Agreed, StringAgreed, CurrentAgreed, Announces,
           targetVars, PhaseSet
<1>3. CASE PreviousPhase /\ mNetworkPhase = "NEW_API"
  BY <1>3, QuietPressAgrees DEF PreviousPhase, networkVars
<1>4. CASE PreviousPhase /\ mNetworkPhase # "NEW_API"
  <2>1. Press /\ mail' = mail
    BY <1>4 DEF PreviousPhase
  <2>2. PICK v \in PhaseSet :
           /\ mNetworkPhase' = v
           /\ outbox' = <<Overwrite("qNetworkPhase", v), Redraw>>
    BY <1>4 DEF PreviousPhase, PrevPhase, PhaseSet
  <2>3. /\ Announces(outbox') /\ After("qNetworkPhase")' = v
        /\ \A o \in MailboxNames \ {"qNetworkPhase"} : After(o)' = mail[o]
    BY <2>1, <2>2, BoxFacts, OneWrite DEF After
  <2> QED
    BY <1>4, <2>1, <2>2, <2>3, PressFacts, BoxFacts
       DEF EventAgrees, HandlerOK, Agreed, StringAgreed, CurrentAgreed, Announces,
           PreviousPhase, targetVars, PhaseSet
<1> QED
  BY <1>1, <1>2, <1>3, <1>4

LEMMA EventsAgree ==
    ASSUME HandlerOK, Event
    PROVE  EventAgrees
<1>1. CASE Bounce \/ InsertNothing
  BY <1>1, QuietPressAgrees DEF Bounce, InsertNothing
<1> QED
  BY <1>1, TurnAgrees, ToggleAgrees, TargetPressAgrees, CharPressAgrees, PhasePressAgrees
     DEF Event, ButtonEvent

\* Entering the network screen and editing write the string, whatever its mailbox
\* held.
LEMMA EditsAgree ==
    ASSUME HandlerOK, Event, NEW p \in PhaseSet,
           ToggleToNetwork \/ ((InsertChar \/ RemoveChar) /\ mNetworkPhase = p)
    PROVE  StringAgreed(p)'
<1>1. CASE ToggleToNetwork
  BY <1>1, ToggleAgrees
<1>2. CASE (InsertChar \/ RemoveChar) /\ mNetworkPhase = p
  <2>1. StringAgreed(mNetworkPhase)'
    BY <1>2, CharPressAgrees
  <2> QED
    BY <1>2, <2>1, PressFacts DEF StringAgreed, InsertChar, RemoveChar
<1> QED
  BY <1>1, <1>2

\* What an event does besides.
LEMMA EventFrame ==
    ASSUME Event
    PROVE  /\ Idle /\ outbox = <<>> /\ hpc = "run"
           /\ \/ mail' = mail
              \/ mail' = [mail EXCEPT !["qCO2TargetCurrent"] = Empty]
           /\ UNCHANGED <<hpc, sUpdateDisplay, qStorageQueue>>
           /\ ToggleToNetwork \/ (mState' = "NETWORK" => mState = "NETWORK")
<1>1. Idle
  BY DEF Event, ButtonEvent, Bounce, ToggleToStatus, ToggleToNetwork,
     InsertTarget, InsertNothing, InsertChar, ConfirmString, ConfirmLast, OmitTarget,
     ResetPending, RemoveChar, PreviousPhase, Press, RotEvent
<1>2. outbox = <<>> /\ hpc = "run"
  BY <1>1 DEF Idle
<1>3. \/ mail' = mail
      \/ mail' = [mail EXCEPT !["qCO2TargetCurrent"] = Empty]
  BY DEF Event, ButtonEvent, Bounce, ToggleToStatus, ToggleToNetwork,
     InsertTarget, InsertNothing, InsertChar, ConfirmString, ConfirmLast, OmitTarget,
     ResetPending, RemoveChar, PreviousPhase, RotEvent, queueVars
<1>4. UNCHANGED <<hpc, sUpdateDisplay, qStorageQueue>>
  BY DEF Event, ButtonEvent, Bounce, ToggleToStatus, ToggleToNetwork,
     InsertTarget, InsertNothing, InsertChar, ConfirmString, ConfirmLast, OmitTarget,
     ResetPending, RemoveChar, PreviousPhase, Press, RotEvent, queueVars
<1>5. ToggleToNetwork \/ (mState' = "NETWORK" => mState = "NETWORK")
  BY DEF Event, ButtonEvent, Bounce, ToggleToStatus,
     InsertTarget, InsertNothing, InsertChar, ConfirmString, ConfirmLast, OmitTarget,
     ResetPending, RemoveChar, PreviousPhase, RotEvent
<1> QED
  BY <1>1, <1>2, <1>3, <1>4, <1>5

\* What doing the first operation does.
LEMMA PublishFacts ==
    ASSUME HandlerOK, Publish
    PROVE  /\ hpc = "run" /\ hpc' = "run" /\ outbox # <<>> /\ outbox' = Tail(outbox)
           /\ Head(outbox) = outbox[1] /\ outbox[1] \in Operations
           /\ Len(outbox) \in Nat /\ Len(outbox) > 0 /\ Len(outbox') = Len(outbox) - 1
           /\ \A i \in 1..Len(outbox) - 1 : outbox'[i] = outbox[i + 1]
           /\ \/ /\ outbox[1][1] \in MailboxNames /\ outbox[1][2] \in Values(outbox[1][1])
                 /\ outbox[1] = <<outbox[1][1], outbox[1][2]>>
                 /\ \A box \in MailboxNames :
                       mail'[box] = IF box = outbox[1][1] THEN outbox[1][2] ELSE mail[box]
                 /\ UNCHANGED <<sUpdateDisplay, qStorageQueue>>
              \/ /\ outbox[1][1] \notin MailboxNames
                 /\ mail' = mail
                 /\ outbox[1] = Redraw => sUpdateDisplay'
                 /\ sUpdateDisplay => sUpdateDisplay'
<1>1. /\ hpc = "run" /\ hpc' = "run" /\ outbox # <<>> /\ outbox' = Tail(outbox)
      /\ outbox \in Seq(Operations)
  BY DEF HandlerOK, Publish, OverwriteMailbox, GiveDisplay, GiveGreenhouse, StoreQueued,
     StoreLost, Pending
<1>2. /\ Head(outbox) = outbox[1] /\ outbox[1] \in Operations
      /\ Len(outbox) \in Nat /\ Len(outbox) > 0 /\ Len(outbox') = Len(outbox) - 1
      /\ \A i \in 1..Len(outbox) - 1 : outbox'[i] = outbox[i + 1]
  BY <1>1, TailFacts
<1>3. CASE outbox[1][1] \in MailboxNames
  <2>1. /\ mail' = [mail EXCEPT ![outbox[1][1]] = outbox[1][2]]
        /\ UNCHANGED <<sUpdateDisplay, qStorageQueue>>
    BY <1>2, <1>3, OtherFacts DEF Publish, OverwriteMailbox, GiveDisplay, GiveGreenhouse,
       StoreQueued, StoreLost, MailboxNames, PhaseSet
  <2>2. /\ outbox[1][2] \in Values(outbox[1][1]) /\ outbox[1] = <<outbox[1][1], outbox[1][2]>>
    BY <1>2, <1>3, OperationFacts
  <2>3. \A box \in MailboxNames :
           mail'[box] = IF box = outbox[1][1] THEN outbox[1][2] ELSE mail[box]
    BY <1>3, <2>1 DEF HandlerOK
  <2> QED
    BY <1>1, <1>2, <1>3, <2>1, <2>2, <2>3
<1>4. CASE outbox[1][1] \notin MailboxNames
  <2>1. mail' = mail
    BY <1>2, <1>4 DEF Publish, OverwriteMailbox, GiveDisplay, GiveGreenhouse,
       StoreQueued, StoreLost, queueVars
  <2>2. Redraw # Update /\ Redraw[1] # "store"
    BY DEF Redraw, Update
  <2>3. outbox[1] = Redraw => sUpdateDisplay' = TRUE
    BY <1>2, <1>4, <2>2 DEF Publish, OverwriteMailbox, GiveDisplay, GiveGreenhouse,
       StoreQueued, StoreLost
  <2>4. sUpdateDisplay' = sUpdateDisplay \/ sUpdateDisplay' = TRUE
    BY DEF Publish, OverwriteMailbox, GiveDisplay, GiveGreenhouse, StoreQueued,
       StoreLost, queueVars
  <2>5. outbox[1] = Redraw => sUpdateDisplay'
    BY <2>3, Zenon
  <2>6. ASSUME sUpdateDisplay PROVE sUpdateDisplay'
    BY <2>4, <2>6, Zenon
  <2> QED
    BY <1>1, <1>2, <1>4, <2>1, <2>5, <2>6
<1> QED
  BY <1>3, <1>4

===============================================================================
