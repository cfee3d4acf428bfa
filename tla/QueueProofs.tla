------------------------------ MODULE QueueProofs -------------------------------
(***************************************************************************)
(* Proofs about queue.c.  Its queues, for every length, any tasks, calls   *)
(* and interrupts: the ring is a first-in first-out queue, and no item and *)
(* no room is overlooked by those who wait for it.  Its mutexes, for any   *)
(* tasks, priorities and timeouts: whoever holds one has at least the      *)
(* priority of everybody who waits for it, and gives back what it was lent.*)
(* Last, the scheduler of tasks.c with its ready lists, for any tasks that *)
(* take mutexes, sleep and wake: the highest ready task runs, nothing lent *)
(* is lost, and peers take turns.                                          *)
(***************************************************************************)
EXTENDS KernelQueue, KernelScheduler, MutexTimeouts, WellFoundedInduction, FiniteSetTheorems, TLAPS

-------------------------------------------------------------------------------
\* The event lists

\* The priorities of a list, and that nobody is in it twice.
InOrder(list, prio) == \A i, j \in 1..Len(list) : i < j => prio[list[j]] <= prio[list[i]]
Once(list) == \A i, j \in 1..Len(list) : list[i] = list[j] => i = j

LEMMA LeastNatural ==
    ASSUME NEW S, S \subseteq Nat, S # {}
    PROVE  \E n \in S : \A m \in S : n <= m
<1>1. PICK R : R = {ss \in Nat \X Nat : ss[1] < ss[2]}
  OBVIOUS
<1>2. IsWellFoundedOn(R, Nat)
  BY <1>1, NatLessThanWellFounded DEF OpToRel
<1>3. PICK n \in S : \A m \in S : <<m, n>> \notin R
  BY <1>2, WFMin
<1>4. ASSUME NEW m \in S, m < n PROVE FALSE
  <2>1. <<m, n>> \in Nat \X Nat /\ <<m, n>>[1] < <<m, n>>[2]
    BY <1>4
  <2>2. <<m, n>> \in R
    BY <1>1, <2>1
  <2> QED
    BY <1>3, <2>2
<1> QED
  BY <1>3, <1>4

\* Where an item is inserted into a list that is in order.
LEMMA InsertionPlaceExists ==
    ASSUME NEW list \in Seq(Tasks), NEW t \in Tasks, NEW prio \in [Tasks -> Nat]
    PROVE  /\ InsertionPlace(list, t, prio) \in 1..(Len(list) + 1)
           /\ \A j \in 1..(InsertionPlace(list, t, prio) - 1) : prio[list[j]] >= prio[t]
           /\ InsertionPlace(list, t, prio) <= Len(list) =>
                 prio[list[InsertionPlace(list, t, prio)]] < prio[t]
<1> DEFINE S == {i \in 1..(Len(list) + 1) : i <= Len(list) => prio[list[i]] < prio[t]}
<1>1. Len(list) \in Nat /\ \A i \in 1..Len(list) : list[i] \in Tasks
  OBVIOUS
<1>2. Len(list) + 1 \in S /\ S \subseteq Nat
  BY <1>1
<1>3. PICK n \in S : \A m \in S : n <= m
  BY <1>2, LeastNatural
<1>4. \A j \in 1..(n - 1) : prio[list[j]] >= prio[t]
  <2> SUFFICES ASSUME NEW j \in 1..(n - 1) PROVE prio[list[j]] >= prio[t]
    OBVIOUS
  <2>1. j \notin S /\ j \in 1..Len(list)
    BY <1>1, <1>3
  <2>2. prio[list[j]] \in Nat /\ prio[t] \in Nat
    BY <1>1, <2>1
  <2> QED
    BY <1>1, <2>1, <2>2
<1>5. /\ n \in 1..(Len(list) + 1) /\ (n <= Len(list) => prio[list[n]] < prio[t])
      /\ \A j \in 1..(n - 1) : prio[list[j]] >= prio[t]
  BY <1>3, <1>4
<1> QED
  BY <1>5 DEF InsertionPlace

\* What vListInsert does to such a list.
LEMMA InsertedFacts ==
    ASSUME NEW list \in Seq(Tasks), NEW t \in Tasks, NEW prio \in [Tasks -> Nat],
           NEW new, new = vListInsert(list, t, prio)
    PROVE  /\ new \in Seq(Tasks) /\ Len(new) = Len(list) + 1
           /\ TasksIn(new) = TasksIn(list) \cup {t}
           /\ InOrder(list, prio) => InOrder(new, prio)
           /\ Once(list) /\ t \notin TasksIn(list) => Once(new)
<1>1. PICK p : p = InsertionPlace(list, t, prio)
  OBVIOUS
<1>2. /\ p \in 1..(Len(list) + 1) /\ \A j \in 1..(p - 1) : prio[list[j]] >= prio[t]
      /\ p <= Len(list) => prio[list[p]] < prio[t]
  BY <1>1, InsertionPlaceExists
<1>3. new = [i \in 1..(Len(list) + 1) |->
                IF i < p THEN list[i] ELSE IF i = p THEN t ELSE list[i - 1]]
  BY <1>1 DEF vListInsert
<1>4. Len(list) \in Nat /\ \A i \in 1..Len(list) : list[i] \in Tasks
  OBVIOUS
<1>5. \A i \in 1..(Len(list) + 1) : new[i] \in Tasks
  BY <1>2, <1>3, <1>4
<1>6. new \in Seq(Tasks) /\ Len(new) = Len(list) + 1
  BY <1>3, <1>4, <1>5
<1>7. TasksIn(new) = TasksIn(list) \cup {t}
  <2>1. ASSUME NEW u \in TasksIn(new) PROVE u \in TasksIn(list) \cup {t}
    BY <1>2, <1>3, <1>4, <1>6, <2>1, SMTT(60) DEF TasksIn
  <2>2. t \in TasksIn(new)
    BY <1>2, <1>3, <1>4, <1>6 DEF TasksIn
  <2>3. ASSUME NEW u \in TasksIn(list) PROVE u \in TasksIn(new)
    <3>1. PICK i \in 1..Len(list) : u = list[i]
      BY <2>3 DEF TasksIn
    <3>2. CASE i < p
      <4>1. i \in 1..(Len(list) + 1) /\ new[i] = u
        BY <1>2, <1>3, <1>4, <3>1, <3>2
      <4> QED
        BY <1>6, <4>1 DEF TasksIn
    <3>3. CASE i >= p
      <4>1. i + 1 \in 1..(Len(list) + 1) /\ new[i + 1] = u
        BY <1>2, <1>3, <1>4, <3>1, <3>3
      <4> QED
        BY <1>6, <4>1 DEF TasksIn
    <3> QED
      BY <1>2, <1>4, <3>2, <3>3
  <2> QED
    BY <2>1, <2>2, <2>3
<1>8. ASSUME InOrder(list, prio) PROVE InOrder(new, prio)
  <2> SUFFICES ASSUME NEW i \in 1..Len(new), NEW j \in 1..Len(new), i < j
               PROVE  prio[new[j]] <= prio[new[i]]
    BY DEF InOrder
  <2>1. prio[t] \in Nat /\ \A k \in 1..Len(list) : prio[list[k]] \in Nat
    BY <1>4
  <2>2. \A k, l \in 1..Len(list) : k < l => prio[list[l]] <= prio[list[k]]
    BY <1>8 DEF InOrder
  <2>3. \A k \in 1..Len(list) : p <= k => prio[list[k]] < prio[t]
    BY <1>2, <1>4, <2>1, <2>2
  <2>4. CASE j < p
    <3>1. i \in 1..Len(list) /\ j \in 1..Len(list) /\ new[i] = list[i] /\ new[j] = list[j]
      BY <1>2, <1>3, <1>4, <1>6, <2>4
    <3> QED
      BY <2>2, <3>1
  <2>5. CASE j = p
    BY <1>2, <1>3, <1>4, <1>6, <2>5
  <2>6. CASE p < j
    <3>1. j - 1 \in 1..Len(list) /\ new[j] = list[j - 1] /\ p <= j - 1
      BY <1>2, <1>3, <1>4, <1>6, <2>6
    <3>2. CASE i < p
      <4>1. new[i] = list[i] /\ i \in 1..Len(list) /\ i < j - 1
        BY <1>2, <1>3, <1>4, <1>6, <2>6, <3>2
      <4> QED
        BY <2>2, <3>1, <4>1
    <3>3. CASE i = p
      <4>1. new[i] = t
        BY <1>2, <1>3, <1>4, <1>6, <3>3
      <4>2. prio[list[j - 1]] < prio[t]
        BY <2>3, <3>1
      <4> QED
        BY <2>1, <3>1, <4>1, <4>2
    <3>4. CASE p < i
      <4>1. new[i] = list[i - 1] /\ i - 1 \in 1..Len(list) /\ i - 1 < j - 1
        BY <1>2, <1>3, <1>4, <1>6, <2>6, <3>4
      <4> QED
        BY <2>2, <3>1, <4>1
    <3> QED
      BY <1>2, <1>4, <1>6, <3>2, <3>3, <3>4
  <2> QED
    BY <1>2, <1>4, <1>6, <2>4, <2>5, <2>6
<1>9. ASSUME Once(list), t \notin TasksIn(list) PROVE Once(new)
  <2>1. \A k, l \in 1..Len(list) : list[k] = list[l] => k = l
    BY <1>9 DEF Once
  <2>2. \A k \in 1..Len(list) : list[k] # t
    BY <1>9 DEF TasksIn
  <2> SUFFICES ASSUME NEW i \in 1..Len(new), NEW j \in 1..Len(new), i < j
               PROVE  new[i] # new[j]
    BY <1>4, <1>6 DEF Once
  <2>3. i \in Nat /\ j \in Nat /\ p \in Nat /\ i <= Len(list) + 1 /\ j <= Len(list) + 1 /\ 1 <= i
    BY <1>2, <1>4, <1>6
  <2>4. new[i] = (IF i < p THEN list[i] ELSE IF i = p THEN t ELSE list[i - 1])
    BY <1>3, <1>6
  <2>5. new[j] = (IF j < p THEN list[j] ELSE IF j = p THEN t ELSE list[j - 1])
    BY <1>3, <1>6
  <2>6. CASE i = p
    <3>1. j - 1 \in 1..Len(list) /\ new[i] = t /\ new[j] = list[j - 1]
      BY <1>2, <1>4, <2>3, <2>4, <2>5, <2>6
    <3> QED
      BY <2>2, <3>1
  <2>7. CASE j = p
    <3>1. i \in 1..Len(list) /\ new[j] = t /\ new[i] = list[i]
      BY <1>2, <1>4, <2>3, <2>4, <2>5, <2>7
    <3> QED
      BY <2>2, <3>1
  <2>8. CASE i # p /\ j # p
    <3>1. PICK k \in 1..Len(list) : new[i] = list[k] /\ k = IF i < p THEN i ELSE i - 1
      <4>1. CASE i < p
        <5>1. i \in 1..Len(list)
          BY <1>2, <1>4, <2>3, <4>1
        <5> QED
          BY <2>4, <4>1, <5>1
      <4>2. CASE p < i
        <5>1. i - 1 \in 1..Len(list) /\ ~(i < p)
          BY <1>2, <1>4, <2>3, <4>2
        <5> QED
          BY <2>4, <2>8, <4>2, <5>1
      <4> QED
        BY <1>2, <2>3, <2>8, <4>1, <4>2
    <3>2. PICK l \in 1..Len(list) : new[j] = list[l] /\ l = IF j < p THEN j ELSE j - 1
      <4>1. CASE j < p
        BY <1>2, <1>4, <2>3, <2>5, <4>1
      <4>2. CASE p < j
        <5>1. j - 1 \in 1..Len(list)
          BY <1>2, <1>4, <2>3, <4>2
        <5> QED
          BY <2>3, <2>5, <4>2, <5>1
      <4> QED
        BY <1>2, <2>3, <2>8, <4>1, <4>2
    <3>3. k # l
      BY <2>3, <2>8, <3>1, <3>2
    <3> QED
      BY <2>1, <3>1, <3>2, <3>3
  <2> QED
    BY <2>6, <2>7, <2>8
<1> QED
  BY <1>6, <1>7, <1>8, <1>9

\* What is left of a list when an item is removed from it.
LEMMA WithoutFacts ==
    ASSUME NEW list \in Seq(Tasks), NEW t \in TasksIn(list), Once(list),
           NEW prio \in [Tasks -> Nat], NEW new, new = Without(list, t)
    PROVE  /\ new \in Seq(Tasks) /\ Len(new) = Len(list) - 1
           /\ TasksIn(new) = TasksIn(list) \ {t}
           /\ InOrder(list, prio) => InOrder(new, prio)
           /\ Once(new)
<1>1. PICK p : p = CHOOSE i \in 1..Len(list) : list[i] = t
  OBVIOUS
<1>2. p \in 1..Len(list) /\ list[p] = t
  BY <1>1 DEF TasksIn
<1>3. new = [i \in 1..(Len(list) - 1) |-> IF i < p THEN list[i] ELSE list[i + 1]]
  BY <1>1 DEF Without
<1>4. Len(list) \in Nat /\ \A i \in 1..Len(list) : list[i] \in Tasks
  OBVIOUS
<1>5. Len(list) - 1 \in Nat /\ \A i \in 1..(Len(list) - 1) : new[i] \in Tasks
  BY <1>2, <1>3, <1>4
<1>6. new \in Seq(Tasks) /\ Len(new) = Len(list) - 1
  BY <1>3, <1>4, <1>5
<1>7. TasksIn(new) = TasksIn(list) \ {t}
  <2>1. ASSUME NEW u \in TasksIn(new) PROVE u \in TasksIn(list) /\ u # t
    <3>1. PICK i \in 1..(Len(list) - 1) : u = new[i]
      BY <1>6, <2>1 DEF TasksIn
    <3>2. PICK k \in 1..Len(list) : k # p /\ u = list[k]
      BY <1>2, <1>3, <1>4, <3>1
    <3> QED
      BY <1>2, <3>2 DEF TasksIn, Once
  <2>2. ASSUME NEW u \in TasksIn(list), u # t PROVE u \in TasksIn(new)
    <3>1. PICK i \in 1..Len(list) : u = list[i]
      BY <2>2 DEF TasksIn
    <3>2. CASE i < p
      <4>1. i \in 1..(Len(list) - 1) /\ new[i] = u
        BY <1>2, <1>3, <1>4, <3>1, <3>2
      <4> QED
        BY <1>6, <4>1 DEF TasksIn
    <3>3. CASE p < i
      <4>1. i - 1 \in 1..(Len(list) - 1) /\ new[i - 1] = u
        BY <1>2, <1>3, <1>4, <3>1, <3>3
      <4> QED
        BY <1>6, <4>1 DEF TasksIn
    <3> QED
      BY <1>2, <1>4, <2>2, <3>1, <3>2, <3>3
  <2> QED
    BY <2>1, <2>2
<1>8. ASSUME NEW i \in 1..Len(new), NEW j \in 1..Len(new), i < j
      PROVE  \E k, l \in 1..Len(list) : k < l /\ new[i] = list[k] /\ new[j] = list[l]
  <2>1. CASE j < p
    <3>1. i \in 1..Len(list) /\ j \in 1..Len(list) /\ new[i] = list[i] /\ new[j] = list[j]
      BY <1>2, <1>3, <1>4, <1>6, <1>8, <2>1, SMTT(60)
    <3> QED
      BY <1>8, <3>1
  <2>2. CASE i < p /\ p <= j
    <3>1. i \in 1..Len(list) /\ j + 1 \in 1..Len(list) /\ i < j + 1
      BY <1>2, <1>4, <1>6, <2>2
    <3>2. new[i] = list[i] /\ new[j] = list[j + 1]
      BY <1>2, <1>3, <1>4, <1>6, <2>2
    <3> QED
      BY <3>1, <3>2
  <2>3. CASE p <= i
    <3>1. i + 1 \in 1..Len(list) /\ j + 1 \in 1..Len(list) /\ i + 1 < j + 1
      BY <1>2, <1>4, <1>6, <1>8, <2>3
    <3>2. new[i] = list[i + 1] /\ new[j] = list[j + 1]
      BY <1>2, <1>3, <1>4, <1>6, <1>8, <2>3
    <3> QED
      BY <3>1, <3>2
  <2> QED
    BY <1>2, <1>4, <1>6, <1>8, <2>1, <2>2, <2>3
<1>9. ASSUME InOrder(list, prio) PROVE InOrder(new, prio)
  <2> SUFFICES ASSUME NEW i \in 1..Len(new), NEW j \in 1..Len(new), i < j
               PROVE  prio[new[j]] <= prio[new[i]]
    BY DEF InOrder
  <2>1. PICK k \in 1..Len(list), l \in 1..Len(list) :
            k < l /\ new[i] = list[k] /\ new[j] = list[l]
    BY <1>8
  <2> QED
    BY <1>9, <2>1 DEF InOrder
<1>10. Once(new)
  <2> SUFFICES ASSUME NEW i \in 1..Len(new), NEW j \in 1..Len(new), new[i] = new[j], i < j
               PROVE  FALSE
    BY <1>4, <1>6 DEF Once
  <2> QED
    BY <1>4, <1>8 DEF Once
<1> QED
  BY <1>6, <1>7, <1>9, <1>10

-------------------------------------------------------------------------------
\* The ring of a queue

\* The slot i places after the one last read, i up to uxLength + 1.
After(i) ==
    LET p == pcReadFrom + i
    IN  IF p < uxLength THEN p
        ELSE IF p < 2 * uxLength THEN p - uxLength ELSE p - 2 * uxLength

\* The write pointer is where the next item belongs.
Ring ==
    /\ uxLength \in Nat \ {0}
    /\ uxMessagesWaiting \in 0..uxLength
    /\ store \in [0..(uxLength - 1) -> Items \cup {NoItem}]
    /\ pcReadFrom \in 0..(uxLength - 1)
    /\ pcWriteTo = After(uxMessagesWaiting + 1)

\* What the tasks are about to send.
Operations == [kind : Kinds \cup {"none"}, wait : Waits, item : Items \cup {NoItem}]
Offers ==
    /\ op \in [Tasks -> Operations]
    /\ \A t \in Tasks : Sends(t) => op[t].item \in Items
    /\ \A t \in Tasks : op[t].kind = "overwrite" => uxLength = 1

Entries == Items \cup {NoItem}

-------------------------------------------------------------------------------
\* Sequences

\* A function on 1..n is a sequence of length n.
LEMMA FunctionIsSeq ==
    ASSUME NEW S, NEW n \in Nat, NEW f \in [1..n -> S]
    PROVE  f \in Seq(S) /\ Len(f) = n
  OBVIOUS

\* Two sequences with the same elements are equal.
LEMMA SameSeq ==
    ASSUME NEW S, NEW r \in Seq(S), NEW s \in Seq(S), Len(r) = Len(s),
           \A i \in 1..Len(r) : r[i] = s[i]
    PROVE  r = s
  OBVIOUS

LEMMA AppendFacts ==
    ASSUME NEW S, NEW s \in Seq(S), NEW e \in S
    PROVE  /\ Append(s, e) \in Seq(S)
           /\ Len(Append(s, e)) = Len(s) + 1
           /\ \A i \in 1..Len(s) : Append(s, e)[i] = s[i]
           /\ Append(s, e)[Len(s) + 1] = e
  OBVIOUS

LEMMA TailFacts ==
    ASSUME NEW S, NEW s \in Seq(S), s # <<>>
    PROVE  /\ Head(s) = s[1]
           /\ Tail(s) \in Seq(S)
           /\ Len(Tail(s)) = Len(s) - 1
           /\ \A i \in 1..Len(s) - 1 : Tail(s)[i] = s[i + 1]
  OBVIOUS

-------------------------------------------------------------------------------
\* The contents

LEMMA SlotRange ==
    ASSUME NEW n \in Nat \ {0}, NEW p \in 0..(n - 1), NEW i \in 1..n
    PROVE  Slot(p, i, n) \in 0..(n - 1)
  BY DEF Slot

\* The contents are as many as the count says, each in its slot.
LEMMA ContentsFacts ==
    ASSUME Ring
    PROVE  /\ Contents \in Seq(Entries)
           /\ Len(Contents) = uxMessagesWaiting
           /\ \A i \in 1..uxMessagesWaiting :
                 Contents[i] = store[Slot(pcReadFrom, i, uxLength)]
  <1>1. \A i \in 1..uxMessagesWaiting :
          Slot(pcReadFrom, i, uxLength) \in 0..(uxLength - 1)
    BY SlotRange DEF Ring
  <1>2. Contents \in [1..uxMessagesWaiting -> Entries]
    BY <1>1 DEF Ring, Contents, Entries
  <1>3. uxMessagesWaiting \in Nat
    BY DEF Ring
  <1>4. QED
    BY <1>2, <1>3, FunctionIsSeq DEF Contents

LEMMA ContentsFactsPrimed ==
    ASSUME Ring'
    PROVE  /\ Contents' \in Seq(Entries)
           /\ Len(Contents') = uxMessagesWaiting'
           /\ \A i \in 1..uxMessagesWaiting' :
                 Contents'[i] = store'[Slot(pcReadFrom', i, uxLength')]
  <1>1. \A i \in 1..uxMessagesWaiting' :
          Slot(pcReadFrom', i, uxLength') \in 0..(uxLength' - 1)
    <2>1. /\ uxLength' \in Nat \ {0} /\ pcReadFrom' \in 0..(uxLength' - 1)
          /\ uxMessagesWaiting' \in 0..uxLength'
      BY DEF Ring
    <2>2. ASSUME NEW i \in 1..uxMessagesWaiting'
          PROVE  Slot(pcReadFrom', i, uxLength') \in 0..(uxLength' - 1)
      <3>1. i \in 1..uxLength'
        BY <2>1
      <3>2. QED
        BY <2>1, <3>1, SlotRange
    <2>3. QED
      BY <2>2
  <1>2. Contents' \in [1..uxMessagesWaiting' -> Entries]
    BY <1>1 DEF Ring, Contents, Entries
  <1>3. uxMessagesWaiting' \in Nat
    BY DEF Ring
  <1>4. QED
    BY <1>2, <1>3, FunctionIsSeq DEF Contents

-------------------------------------------------------------------------------
\* What the four operations on the ring do to its contents.

\* An item is copied to the end.
LEMMA PutStep ==
    ASSUME Ring, NEW x \in Items, uxMessagesWaiting < uxLength,
           CopyDataToQueue(x), uxLength' = uxLength
    PROVE  Ring' /\ Abstract!Put(x)
  <1>1. Ring'
    BY DEF Ring, CopyDataToQueue, After, Wrap
  <1>2. \A i \in 1..uxMessagesWaiting :
          /\ Slot(pcReadFrom', i, uxLength') = Slot(pcReadFrom, i, uxLength)
          /\ Slot(pcReadFrom, i, uxLength) # pcWriteTo
    BY DEF Ring, CopyDataToQueue, After, Slot
  <1>3. /\ Slot(pcReadFrom', uxMessagesWaiting + 1, uxLength') = pcWriteTo
        /\ pcWriteTo \in 0..(uxLength - 1)
    BY DEF Ring, CopyDataToQueue, After, Slot
  <1>4. x \in Entries
    BY DEF Entries
  <1>5. Contents' = Append(Contents, x)
    <2>1. Len(Contents') = Len(Append(Contents, x))
      BY <1>1, <1>4, ContentsFacts, ContentsFactsPrimed, AppendFacts
         DEF CopyDataToQueue, Ring
    <2>2. ASSUME NEW i \in 1..(uxMessagesWaiting + 1)
          PROVE  Contents'[i] = Append(Contents, x)[i]
      <3>1. Contents'[i] = store'[Slot(pcReadFrom', i, uxLength')]
        BY <1>1, ContentsFactsPrimed DEF CopyDataToQueue, Ring
      <3>2. CASE i = uxMessagesWaiting + 1
        <4>1. store'[pcWriteTo] = x
          BY <1>3 DEF CopyDataToQueue, Ring
        <4>2. Append(Contents, x)[i] = x
          BY <3>2, <1>4, ContentsFacts, AppendFacts
        <4>3. QED
          BY <3>1, <3>2, <1>3, <4>1, <4>2
      <3>3. CASE i \in 1..uxMessagesWaiting
        <4>1. store'[Slot(pcReadFrom, i, uxLength)]
                = store[Slot(pcReadFrom, i, uxLength)]
          BY <3>3, <1>2, <1>3 DEF CopyDataToQueue, Ring, Slot
        <4>2. Append(Contents, x)[i] = store[Slot(pcReadFrom, i, uxLength)]
          BY <3>3, <1>4, ContentsFacts, AppendFacts
        <4>3. QED
          BY <3>1, <3>3, <1>2, <4>1, <4>2
      <3>4. uxMessagesWaiting \in Nat
        BY DEF Ring
      <3>5. i = uxMessagesWaiting + 1 \/ i \in 1..uxMessagesWaiting
        BY <3>4
      <3>6. QED
        BY <3>2, <3>3, <3>5
    <2>3. Len(Contents') = uxMessagesWaiting + 1
      BY <1>1, ContentsFactsPrimed DEF CopyDataToQueue
    <2>4. QED
      BY <2>1, <2>2, <2>3, <1>1, <1>4, ContentsFacts, ContentsFactsPrimed,
         AppendFacts, SameSeq
  <1>6. QED
    BY <1>1, <1>5, ContentsFacts DEF CopyDataToQueue, Abstract!Put

\* An item is copied over the one of a mailbox.
LEMMA ReplaceStep ==
    ASSUME Ring, NEW x \in Items, uxLength = 1, OverwriteData(x), uxLength' = uxLength
    PROVE  Ring' /\ Abstract!Replace(x)
  <1>1. Ring'
    BY DEF Ring, OverwriteData, After
  <1>2. uxMessagesWaiting' = 1 /\ Slot(pcReadFrom', 1, uxLength') = 0 /\ store'[0] = x
    BY DEF Ring, OverwriteData, Slot
  <1>3. Len(Contents') = 1 /\ Contents'[1] = x
    BY <1>1, <1>2, ContentsFactsPrimed
  <1>4. <<x>> \in Seq(Entries) /\ Len(<<x>>) = 1 /\ <<x>>[1] = x
    BY DEF Entries
  <1>5. Contents' = <<x>>
    BY <1>1, <1>3, <1>4, ContentsFactsPrimed, SameSeq
  <1>6. QED
    BY <1>1, <1>5 DEF OverwriteData, Abstract!Replace

\* The first item is copied from the ring.
LEMMA GetStep ==
    ASSUME Ring, uxMessagesWaiting > 0, CopyDataFromQueue, uxLength' = uxLength
    PROVE  Ring' /\ Abstract!Get
  <1>1. Ring'
    BY DEF Ring, CopyDataFromQueue, After, Wrap
  <1>2. Contents # <<>> /\ Head(Contents) = store[Slot(pcReadFrom, 1, uxLength)]
    BY ContentsFacts, TailFacts DEF Ring
  <1>3. Wrap(pcReadFrom + 1) = Slot(pcReadFrom, 1, uxLength)
    BY DEF Ring, Wrap, Slot
  <1>4. \A i \in 1..(uxMessagesWaiting - 1) :
          Slot(pcReadFrom', i, uxLength') = Slot(pcReadFrom, i + 1, uxLength)
    BY DEF Ring, CopyDataFromQueue, Slot, Wrap
  <1>5. Contents' = Tail(Contents)
    <2>1. Len(Contents') = uxMessagesWaiting - 1
      BY <1>1, ContentsFactsPrimed DEF CopyDataFromQueue
    <2>2. Tail(Contents) \in Seq(Entries) /\ Len(Tail(Contents)) = uxMessagesWaiting - 1
      BY <1>2, ContentsFacts, TailFacts
    <2>3. ASSUME NEW i \in 1..(uxMessagesWaiting - 1)
          PROVE  Contents'[i] = Tail(Contents)[i]
      <3>1. Contents'[i] = store'[Slot(pcReadFrom', i, uxLength')]
        BY <1>1, ContentsFactsPrimed DEF CopyDataFromQueue
      <3>2. Tail(Contents)[i] = store[Slot(pcReadFrom, i + 1, uxLength)]
        BY <1>2, ContentsFacts, TailFacts DEF Ring
      <3>3. QED
        BY <3>1, <3>2, <1>4 DEF CopyDataFromQueue
    <2>4. QED
      BY <1>1, <2>1, <2>2, <2>3, ContentsFactsPrimed, SameSeq
  <1>6. QED
    BY <1>1, <1>2, <1>3, <1>5 DEF CopyDataFromQueue, Abstract!Get

\* The first item is copied, and stays.
LEMMA LookStep ==
    ASSUME Ring, uxMessagesWaiting > 0, PeekData, uxLength' = uxLength
    PROVE  Ring' /\ Abstract!Look
  <1>1. Ring' /\ Contents' = Contents
    BY DEF Ring, PeekData, After, Contents, Slot
  <1>2. Contents # <<>> /\ Head(Contents) = store[Slot(pcReadFrom, 1, uxLength)]
    BY ContentsFacts, TailFacts DEF Ring
  <1>3. Wrap(pcReadFrom + 1) = Slot(pcReadFrom, 1, uxLength)
    BY DEF Ring, Wrap, Slot
  <1>4. QED
    BY <1>1, <1>2, <1>3 DEF PeekData, Abstract!Look

-------------------------------------------------------------------------------
\* Every step of a task or an interrupt is one of the four or leaves the ring.

QueueInvariant == Ring /\ Offers

LEMMA QueueStarts == ASSUME QueueInit PROVE QueueInvariant /\ Abstract!Init
  <1>1. Ring
    BY QueueAssumption DEF QueueInit, QueueStart, Ring, After
  <1>2. Offers
    BY DEF QueueInit, QueueStart, Offers, Operations, NoOp, Sends, Waits
  <1>3. Contents = <<>>
    BY <1>1, ContentsFacts DEF QueueInit, QueueStart
  <1>4. QED
    BY <1>1, <1>2, <1>3 DEF QueueInvariant, Abstract!Init, QueueInit, QueueStart, Ring

\* A step that leaves the ring alone.
LEMMA Untouched ==
    ASSUME Ring, UNCHANGED <<uxLength, storage>>
    PROVE  Ring' /\ UNCHANGED <<uxLength, Contents, taken>>
  <1>1. /\ uxLength' = uxLength /\ uxMessagesWaiting' = uxMessagesWaiting
        /\ store' = store /\ pcReadFrom' = pcReadFrom /\ pcWriteTo' = pcWriteTo
        /\ taken' = taken
    BY DEF storage
  <1>2. QED
    BY <1>1 DEF Ring, After, Contents

\* A call that goes on, or returns, offers what it offered, or nothing.
LEMMA OffersKept ==
    ASSUME Offers, uxLength' = uxLength,
           op' = op \/ \E t \in Tasks : op' = [op EXCEPT ![t] = NoOp]
    PROVE  Offers'
  BY DEF Offers, Operations, NoOp, Sends, Waits

LEMMA QueueStep ==
    ASSUME QueueInvariant, QueueNext
    PROVE  /\ QueueInvariant'
           /\ Abstract!Next \/ UNCHANGED <<uxLength, Contents, taken>>
  <1> USE DEF QueueInvariant
  <1>1. ASSUME NEW t \in Tasks, Call(t)
        PROVE  QueueInvariant' /\ UNCHANGED <<uxLength, Contents, taken>>
    <2>1. PICK c \in Calls :
            /\ c.length = uxLength
            /\ op' = [op EXCEPT ![t] =
                                    [kind |-> c.kind, wait |-> c.wait, item |-> c.item]]
      BY <1>1 DEF Call
    <2>2. /\ c \in [task : Tasks, kind : Kinds, wait : Waits,
                    item : Items \cup {NoItem}, length : Lengths]
          /\ c.kind \in {"send", "overwrite"} => c.item \in Items
          /\ c.kind = "overwrite" => c.length = 1
      BY QueueAssumption
    <2>3. Offers' /\ UNCHANGED <<uxLength, storage>>
      BY <1>1, <2>1, <2>2 DEF Call, Offers, Operations, Sends
    <2>4. QED
      BY <2>3, Untouched
  <1>2. ASSUME NEW t \in Tasks, Send(t)
        PROVE  QueueInvariant' /\ Abstract!Next
    <2>1. Offers'
      BY <1>2, OffersKept DEF Send, Return
    <2>2. op[t].item \in Items
      BY <1>2 DEF Send, Offers
    <2>3. CASE op[t].kind = "send"
      <3>1. uxMessagesWaiting < uxLength /\ CopyDataToQueue(op[t].item)
            /\ uxLength' = uxLength
        BY <1>2, <2>3 DEF Send, Fits, Sends
      <3>2. QED
        BY <2>1, <2>2, <3>1, PutStep DEF Abstract!Next
    <2>4. CASE op[t].kind # "send"
      <3>1. uxLength = 1 /\ OverwriteData(op[t].item) /\ uxLength' = uxLength
        BY <1>2, <2>4 DEF Send, Sends, Offers
      <3>2. QED
        BY <2>1, <2>2, <3>1, ReplaceStep DEF Abstract!Next
    <2>5. QED
      BY <2>3, <2>4
  <1>3. ASSUME NEW t \in Tasks, Receive(t)
        PROVE  QueueInvariant' /\ Abstract!Next
    <2>1. Offers'
      BY <1>3, OffersKept DEF Receive, Return
    <2>2. uxMessagesWaiting > 0 /\ CopyDataFromQueue /\ uxLength' = uxLength
      BY <1>3 DEF Receive, Fits, Sends
    <2>3. QED
      BY <2>1, <2>2, GetStep DEF Abstract!Next
  <1>4. ASSUME NEW t \in Tasks, Peek(t)
        PROVE  QueueInvariant' /\ Abstract!Next
    <2>1. Offers'
      BY <1>4, OffersKept DEF Peek, Return
    <2>2. uxMessagesWaiting > 0 /\ PeekData /\ uxLength' = uxLength
      BY <1>4 DEF Peek, Fits, Sends
    <2>3. QED
      BY <2>1, <2>2, LookStep DEF Abstract!Next
  <1>5. ASSUME NEW t \in Tasks,
               \/ Refused(t) \/ SuspendAll(t) \/ LockQueue(t) \/ Check(t)
               \/ Place(t) \/ UnlockTx(t) \/ UnlockRx(t) \/ ResumeAll(t)
               \/ Recheck(t) \/ Tick(t)
        PROVE  QueueInvariant' /\ UNCHANGED <<uxLength, Contents, taken>>
    <2>1. UNCHANGED <<uxLength, storage>>
      BY <1>5 DEF Refused, SuspendAll, LockQueue, Check, Place, UnlockTx, UnlockRx,
                  ResumeAll, Recheck, Tick
    <2>2. op' = op \/ op' = [op EXCEPT ![t] = NoOp]
      BY <1>5 DEF Refused, SuspendAll, LockQueue, Check, Place, UnlockTx, UnlockRx,
                  ResumeAll, Recheck, Tick, Return
    <2>3. QED
      BY <2>1, <2>2, Untouched, OffersKept
  <1>6. ASSUME ReceiveFromISR
        PROVE  QueueInvariant' /\ Abstract!Next
    <2>1. uxMessagesWaiting > 0 /\ CopyDataFromQueue /\ uxLength' = uxLength /\ op' = op
      BY <1>6 DEF ReceiveFromISR, control
    <2>2. QED
      BY <2>1, GetStep, OffersKept DEF Abstract!Next
  <1>7. ASSUME NEW x \in ISRItems, SendFromISR(x)
        PROVE  QueueInvariant' /\ Abstract!Next
    <2>1. /\ uxMessagesWaiting < uxLength /\ CopyDataToQueue(x)
          /\ uxLength' = uxLength /\ op' = op
      BY <1>7 DEF SendFromISR, control
    <2>2. x \in Items
      BY QueueAssumption
    <2>3. QED
      BY <2>1, <2>2, PutStep, OffersKept DEF Abstract!Next
  <1>8. QED
    BY <1>1, <1>2, <1>3, <1>4, <1>5, <1>6, <1>7 DEF QueueNext, Step

\* The ring of queue.c is a first-in first-out queue: nothing is lost, doubled
\* or overtaken, however tasks and interrupts use it.
THEOREM RingIsFifo == QueueSpec => QueueIsFifo
  <1>1. QueueInit => QueueInvariant /\ Abstract!Init
    BY QueueStarts
  <1>2. ASSUME QueueInvariant, [QueueNext]_queueVars
        PROVE  QueueInvariant' /\ [Abstract!Next]_<<uxLength, Contents, taken>>
    <2>1. CASE QueueNext
      BY <1>2, <2>1, QueueStep
    <2>2. CASE UNCHANGED queueVars
      BY <1>2, <2>2, Untouched, OffersKept DEF queueVars, control, QueueInvariant
    <2>3. QED
      BY <1>2, <2>1, <2>2
  <1>3. QED
    BY <1>1, <1>2, PTL DEF QueueSpec, QueueIsFifo, Abstract!Spec

-------------------------------------------------------------------------------
\* No item and no room is overlooked

QueuePlaces == {"idle", "try", "suspend", "lock", "check", "place", "unlockTx", "unlockRx",
                "resume", "recheck"}
Suspending == {"lock", "check", "place", "unlockTx", "unlockRx", "resume"}

\* The two lists, what their tasks wait for, the lock that counts it while the queue is
\* locked, and the tasks on their way to it.
Sides == {"send", "receive"}
Waiters(side) == IF side = "send" THEN xTasksWaitingToSend ELSE xTasksWaitingToReceive
Available(side) ==
    IF side = "send" THEN uxLength - uxMessagesWaiting ELSE uxMessagesWaiting
Mark(side) == IF side = "send" THEN cRxLock ELSE cTxLock
IsOf(t, side) == Sends(t) <=> side = "send"
Coming(side) == { t \in Tasks : /\ t \notin TasksIn(Waiters(side))
                                /\ Wakes(t) /\ WillTry(t) /\ IsOf(t, side) }

WaitTypes ==
    /\ cTxLock \in -1..NumberOfTasks /\ cRxLock \in -1..NumberOfTasks
    /\ xTasksWaitingToSend \in Seq(Tasks) /\ xTasksWaitingToReceive \in Seq(Tasks)
    /\ suspended \in Tasks \cup {NoTask} /\ blocked \subseteq Tasks
    /\ pc \in [Tasks -> QueuePlaces] /\ next \in [Tasks -> {"try", "fail", "recheck"}]

\* Who is in a list is blocked, and waits for what the list is for.
WaitersOK == \A side \in Sides :
    /\ Once(Waiters(side))
    /\ \A t \in TasksIn(Waiters(side)) :
          t \in blocked /\ t \notin xPendingReadyList /\ IsOf(t, side)

\* Who is blocked is in a list or has been taken from it, and tries again.
BlockedOK ==
    /\ xPendingReadyList \subseteq blocked
    /\ \A t \in blocked : WillTry(t) /\
          (t \in xPendingReadyList \/ \E side \in Sides : t \in TasksIn(Waiters(side)))
    /\ suspended = NoTask => xPendingReadyList = {}

\* Who has suspended the scheduler has locked the queue, and unlocks it.
LockedOK ==
    /\ \A t \in Tasks : pc[t] \in Suspending <=> suspended = t
    /\ cTxLock # queueUNLOCKED <=> \E t \in Tasks : pc[t] \in {"check", "place", "unlockTx"}
    /\ cRxLock # queueUNLOCKED <=>
          \E t \in Tasks : pc[t] \in {"check", "place", "unlockTx", "unlockRx"}

\* Since a task found nothing, whatever came was counted.
Seen == \A t \in Tasks : \A side \in Sides :
    pc[t] = "place" /\ IsOf(t, side) =>
        Available(side) <= Mark(side) \/ Mark(side) = NumberOfTasks

Reached(side) ==
    Waiters(side) # <<>> =>
        \/ Available(side) <= Cardinality(Coming(side)) + Counted(Mark(side))
        \/ Mark(side) >= Len(Waiters(side))

WaitInv == WaitTypes /\ WaitersOK /\ BlockedOK /\ LockedOK
WakeInv == WaitInv /\ Seen /\ \A side \in Sides : Reached(side)

\* As many are woken as can be.
LEMMA ManyWoken ==
    ASSUME NEW l \in Seq(Tasks), Once(l), NEW k \in 0..Len(l)
    PROVE  /\ IsFiniteSet({ l[i] : i \in 1..k }) /\ Cardinality({ l[i] : i \in 1..k }) = k
           /\ k <= NumberOfTasks
<1> DEFINE T == { l[i] : i \in 1..k }
           f == [i \in 1..k |-> l[i]]
<1>1. Len(l) \in Nat /\ k \in Nat /\ \A i \in 1..k : i \in 1..Len(l) /\ l[i] \in Tasks
  OBVIOUS
<1>2. f \in [1..k -> T] /\ \A i \in 1..k : f[i] = l[i]
  OBVIOUS
<1>3. \A i, j \in 1..k : f[i] = f[j] => i = j
  BY <1>1, <1>2 DEF Once
<1>4. \A x \in T : \E i \in 1..k : f[i] = x
  BY <1>2
<1> HIDE DEF f
<1>5. f \in Bijection(1..k, T)
  BY <1>2, <1>3, <1>4 DEF Bijection, Injection, IsInjective, Surjection
<1>6. IsFiniteSet(1..k) /\ Cardinality(1..k) = k
  BY <1>1, FS_Interval
<1>7. IsFiniteSet(T) /\ Cardinality(T) = k
  BY <1>5, <1>6, FS_Bijection DEF ExistsBijection
<1>8. T \in SUBSET Tasks
  BY <1>1
<1>9. k <= Cardinality(Tasks) /\ Cardinality(Tasks) \in Nat
  BY <1>7, <1>8, TasksAssumption, FS_Subset, FS_CardinalityType
<1>10. k <= NumberOfTasks
  BY <1>1, <1>9, QueueAssumption
<1> QED
  BY <1>7, <1>10

LEMMA CutFacts ==
    ASSUME NEW l \in Seq(Tasks), Once(l), NEW n \in Nat,
           NEW new, new = Rest(l, n), NEW W, W = TasksIn(FirstOf(l, n))
    PROVE  /\ new \in Seq(Tasks) /\ Once(new) /\ TasksIn(new) = TasksIn(l) \ W
           /\ n <= Len(l) => Len(new) = Len(l) - n
           /\ Len(l) <= n => Len(new) = 0
           /\ W \subseteq TasksIn(l) /\ IsFiniteSet(W)
           /\ n <= Len(l) => Cardinality(W) = n
<1>1. PICK k : k = IF n < Len(l) THEN n ELSE Len(l)
  OBVIOUS
<1>2. Len(l) \in Nat /\ k \in 0..Len(l) /\ k \in Nat
  BY <1>1
<1>3. \A i \in 1..Len(l) : l[i] \in Tasks
  OBVIOUS
<1>4. /\ new \in Seq(Tasks) /\ Len(new) = Len(l) - k
      /\ \A i \in 1..(Len(l) - k) : new[i] = l[k + i]
  <2>1. CASE n < Len(l)
    BY <1>1, <1>2, <1>3, <2>1 DEF Rest
  <2>2. CASE ~(n < Len(l))
    <3>1. new = <<>> /\ k = Len(l)
      BY <1>1, <1>2, <2>2 DEF Rest
    <3> QED
      BY <1>2, <3>1
  <2> QED
    BY <2>1, <2>2
<1>5. W = { l[i] : i \in 1..k }
  <2>1. PICK first : first = FirstOf(l, n)
    OBVIOUS
  <2>2. Len(first) = k /\ \A i \in 1..k : first[i] = l[i]
    BY <1>1, <1>2, <1>3, <2>1 DEF FirstOf
  <2> QED
    BY <2>1, <2>2 DEF TasksIn
<1>6. IsFiniteSet(W) /\ Cardinality(W) = k
  BY <1>2, <1>5, ManyWoken
<1>7. \A i, j \in 1..Len(l) : l[i] = l[j] => i = j
  BY DEF Once
<1>8. Once(new)
  <2> SUFFICES ASSUME NEW i \in 1..Len(new), NEW j \in 1..Len(new), new[i] = new[j]
               PROVE  i = j
    BY DEF Once
  <2>1. k + i \in 1..Len(l) /\ k + j \in 1..Len(l) /\ l[k + i] = l[k + j]
    BY <1>2, <1>4
  <2>2. k + i = k + j
    BY <1>7, <2>1
  <2> QED
    BY <1>2, <1>4, <2>2
<1>9. TasksIn(new) = TasksIn(l) \ W
  <2>1. ASSUME NEW u \in TasksIn(new) PROVE u \in TasksIn(l) /\ u \notin W
    <3>1. PICK i \in 1..(Len(l) - k) : u = new[i]
      BY <1>4, <2>1 DEF TasksIn
    <3>2. k + i \in 1..Len(l) /\ u = l[k + i] /\ k + i > k
      BY <1>2, <1>4, <3>1
    <3>3. \A j \in 1..k : j \in 1..Len(l) /\ l[j] # u
      BY <1>2, <1>7, <3>2
    <3> QED
      BY <1>5, <3>2, <3>3 DEF TasksIn
  <2>2. ASSUME NEW u \in TasksIn(l), u \notin W PROVE u \in TasksIn(new)
    <3>1. PICK i \in 1..Len(l) : u = l[i]
      BY <2>2 DEF TasksIn
    <3>2. i \notin 1..k
      BY <1>5, <2>2, <3>1
    <3>3. i - k \in 1..(Len(l) - k) /\ k + (i - k) = i
      BY <1>2, <3>2
    <3>4. new[i - k] = u
      BY <1>4, <3>1, <3>3
    <3> QED
      BY <1>4, <3>3, <3>4 DEF TasksIn
  <2> QED
    BY <2>1, <2>2
<1>10. W \subseteq TasksIn(l)
  <2>1. \A i \in 1..k : i \in 1..Len(l)
    BY <1>2
  <2> QED
    BY <1>5, <2>1 DEF TasksIn
<1> QED
  BY <1>1, <1>2, <1>4, <1>6, <1>8, <1>9, <1>10

\* How many are coming, if those who go on and those who were woken do.
LEMMA MoreComing ==
    ASSUME NEW C, NEW W, NEW D, IsFiniteSet(D), C \cup W \subseteq D, C \cap W = {}
    PROVE  /\ Cardinality(C) \in Nat /\ Cardinality(D) \in Nat /\ Cardinality(W) \in Nat
           /\ Cardinality(C) + Cardinality(W) <= Cardinality(D)
<1>1. IsFiniteSet(C) /\ IsFiniteSet(W) /\ IsFiniteSet(C \cup W)
  BY FS_Subset
<1>2. Cardinality(C \cup W) = Cardinality(C) + Cardinality(W) - Cardinality(C \cap W)
  BY <1>1, FS_Union
<1>3. Cardinality(C \cap W) = 0
  BY FS_EmptySet
<1>4. /\ Cardinality(C) \in Nat /\ Cardinality(W) \in Nat /\ Cardinality(D) \in Nat
      /\ Cardinality(C \cup W) \in Nat
  BY <1>1, FS_CardinalityType
<1>5. Cardinality(C \cup W) <= Cardinality(D)
  BY FS_Subset
<1> QED
  BY <1>2, <1>3, <1>4, <1>5

LEMMA OneGone ==
    ASSUME NEW C, IsFiniteSet(C), NEW t
    PROVE  /\ Cardinality(C) \in Nat /\ Cardinality(C \ {t}) \in Nat
           /\ Cardinality(C) <= Cardinality(C \ {t}) + 1
<1>1. Cardinality(C \ {t}) = IF t \in C THEN Cardinality(C) - 1 ELSE Cardinality(C)
  BY FS_RemoveElement
<1>2. IsFiniteSet(C \ {t})
  BY FS_RemoveElement
<1> QED
  BY <1>1, <1>2, FS_CardinalityType

LEMMA ComingFinite ==
    ASSUME NEW side
    PROVE  IsFiniteSet(Coming(side)) /\ IsFiniteSet(Coming(side)')
<1>1. Coming(side) \in SUBSET Tasks /\ Coming(side)' \in SUBSET Tasks
  BY DEF Coming
<1> QED
  BY <1>1, TasksAssumption, FS_Subset

-------------------------------------------------------------------------------
\* What a step does to those who wait

\* A step that unblocks the first n tasks of a list, and leaves the calls of X, the
\* blocked tasks among them, as they were.
LEMMA WokenFacts ==
    ASSUME WaitInv, NEW side \in Sides, NEW n \in Nat,
           Unblock(TasksIn(FirstOf(Waiters(side), n))),
           Waiters(side)' = Rest(Waiters(side), n),
           \A other \in Sides \ {side} : Waiters(other)' = Waiters(other),
           suspended' = suspended,
           NEW X, blocked \subseteq X,
           \A t \in X : (WillTry(t) => WillTry(t)') /\ (Sends(t)' <=> Sends(t))
    PROVE  /\ xTasksWaitingToSend' \in Seq(Tasks) /\ xTasksWaitingToReceive' \in Seq(Tasks)
           /\ blocked' \subseteq Tasks /\ WaitersOK' /\ BlockedOK'
           /\ n <= Len(Waiters(side)) => Len(Waiters(side)') = Len(Waiters(side)) - n
           /\ Len(Waiters(side)) <= n => Waiters(side)' = <<>>
           /\ \A other \in Sides : Coming(other) \cap X \subseteq Coming(other)'
           /\ \E W : /\ W \cap Coming(side) = {} /\ W \subseteq Coming(side)'
                     /\ n <= Len(Waiters(side)) => Cardinality(W) = n
<1> DEFINE l == Waiters(side)
           W == TasksIn(FirstOf(l, n))
<1>1. /\ \A s \in Sides : Waiters(s) \in Seq(Tasks) /\ Once(Waiters(s))
      /\ \A s \in Sides : \A t \in TasksIn(Waiters(s)) :
            t \in blocked /\ t \notin xPendingReadyList /\ IsOf(t, s)
  BY DEF WaitInv, WaitTypes, WaitersOK, Waiters
<1>2. /\ Waiters(side)' \in Seq(Tasks) /\ Once(Waiters(side)')
      /\ TasksIn(Waiters(side)') = TasksIn(l) \ W
      /\ n <= Len(l) => Len(Waiters(side)') = Len(l) - n
      /\ Len(l) <= n => Len(Waiters(side)') = 0
      /\ W \subseteq TasksIn(l)
      /\ n <= Len(l) => Cardinality(W) = n
  <2>1. l \in Seq(Tasks) /\ Once(l) /\ n \in Nat /\ Waiters(side)' = Rest(l, n)
    BY <1>1
  <2> HIDE DEF l
  <2>2. PICK new : new = Rest(l, n)
    OBVIOUS
  <2>3. PICK cut : cut = W
    OBVIOUS
  <2>4. /\ new \in Seq(Tasks) /\ Once(new) /\ TasksIn(new) = TasksIn(l) \ cut
        /\ n <= Len(l) => Len(new) = Len(l) - n
        /\ Len(l) <= n => Len(new) = 0
        /\ cut \subseteq TasksIn(l) /\ (n <= Len(l) => Cardinality(cut) = n)
    BY <2>1, <2>2, <2>3, CutFacts, ZenonT(60)
  <2>5. Waiters(side)' = new
    BY <2>1, <2>2
  <2> HIDE DEF W
  <2> QED
    BY <2>3, <2>4, <2>5
<1>3. /\ blocked \subseteq Tasks /\ xPendingReadyList \subseteq blocked
      /\ \A t \in blocked : WillTry(t) /\
            (t \in xPendingReadyList \/ \E s \in Sides : t \in TasksIn(Waiters(s)))
      /\ suspended = NoTask => xPendingReadyList = {}
  BY DEF WaitInv, WaitTypes, BlockedOK
<1>4. Unblock(W)
  OBVIOUS
<1> HIDE DEF l, W
<1>5. \A s \in Sides : Once(Waiters(s)') /\ Waiters(s)' \in Seq(Tasks)
  BY <1>1, <1>2
<1>6. \A s \in Sides : TasksIn(Waiters(s)') = TasksIn(Waiters(s)) \ W
  <2>1. ASSUME NEW s \in Sides, s # side PROVE TasksIn(Waiters(s)') = TasksIn(Waiters(s)) \ W
    <3>1. Waiters(s)' = Waiters(s)
      BY <2>1
    <3>2. \A t \in W : t \notin TasksIn(Waiters(s))
      BY <1>1, <1>2, <2>1 DEF IsOf, Sides, l
    <3> QED
      BY <3>1, <3>2
  <2> QED
    BY <1>2, <2>1 DEF l
<1>7. /\ suspended = NoTask =>
            blocked' = blocked \ W /\ xPendingReadyList' = xPendingReadyList
      /\ suspended # NoTask =>
            blocked' = blocked /\ xPendingReadyList' = xPendingReadyList \cup W
  BY <1>4 DEF Unblock
<1>8. \A t \in W : t \in blocked /\ IsOf(t, side) /\ t \notin xPendingReadyList
  BY <1>1, <1>2 DEF l
<1>9. \A t \in X : \A s : IsOf(t, s)' <=> IsOf(t, s)
  BY DEF IsOf
<1>10. WaitersOK'
  <2> SUFFICES ASSUME NEW s \in Sides, NEW t \in TasksIn(Waiters(s)')
               PROVE  t \in blocked' /\ t \notin xPendingReadyList' /\ IsOf(t, s)'
    BY <1>5 DEF WaitersOK
  <2>1. t \in TasksIn(Waiters(s)) /\ t \notin W
    BY <1>6
  <2>2. t \in blocked /\ t \notin xPendingReadyList /\ IsOf(t, s) /\ t \in X
    BY <1>1, <2>1
  <2> QED
    BY <1>7, <1>9, <2>1, <2>2
<1>11. BlockedOK'
  <2>1. xPendingReadyList' \subseteq blocked'
    BY <1>3, <1>7, <1>8
  <2>2. ASSUME NEW t \in blocked'
        PROVE  WillTry(t)' /\
                 (t \in xPendingReadyList' \/ \E s \in Sides : t \in TasksIn(Waiters(s)'))
    <3>1. t \in blocked /\ t \in X /\ WillTry(t)'
      BY <1>3, <1>7, <2>2
    <3>2. t \notin W => t \in xPendingReadyList' \/ \E s \in Sides : t \in TasksIn(Waiters(s)')
      BY <1>3, <1>6, <1>7, <3>1
    <3>3. t \in W => t \in xPendingReadyList'
      BY <1>7, <2>2
    <3> QED
      BY <3>1, <3>2, <3>3
  <2>3. suspended' = NoTask => xPendingReadyList' = {}
    BY <1>3, <1>7
  <2> QED
    BY <2>1, <2>2, <2>3 DEF BlockedOK
<1>12. ASSUME NEW other \in Sides, NEW t \in Coming(other) \cap X PROVE t \in Coming(other)'
  <2>1. t \in Tasks /\ t \notin TasksIn(Waiters(other)) /\ Wakes(t) /\ WillTry(t) /\ IsOf(t, other)
    BY <1>12 DEF Coming
  <2>2. t \notin TasksIn(Waiters(other)') /\ WillTry(t)' /\ IsOf(t, other)'
    BY <1>6, <1>9, <2>1
  <2>3. Wakes(t)'
    BY <1>7, <2>1 DEF Wakes
  <2> QED
    BY <2>1, <2>2, <2>3 DEF Coming
<1>13. W \subseteq Coming(side)'
  <2> SUFFICES ASSUME NEW t \in W PROVE t \in Coming(side)'
    OBVIOUS
  <2>1. t \in blocked /\ t \in Tasks /\ t \in X /\ WillTry(t)' /\ IsOf(t, side)'
    BY <1>3, <1>8, <1>9
  <2>2. t \notin TasksIn(Waiters(side)')
    BY <1>6
  <2>3. Wakes(t)'
    BY <1>7 DEF Wakes
  <2> QED
    BY <2>1, <2>2, <2>3 DEF Coming
<1>14. W \cap Coming(side) = {}
  BY <1>2 DEF Coming, l
<1>15. n <= Len(Waiters(side)) => Cardinality(W) = n
  <2>1. Len(l) \in Nat
    BY <1>1 DEF l
  <2> QED
    BY <1>2, <2>1 DEF l
<1>16. \A s \in Sides : Waiters(s)' = IF s = "send" THEN xTasksWaitingToSend'
                                                 ELSE xTasksWaitingToReceive'
  BY DEF Waiters
<1>17. xTasksWaitingToSend' \in Seq(Tasks) /\ xTasksWaitingToReceive' \in Seq(Tasks)
  BY <1>5, <1>16 DEF Sides
<1>18. blocked' \subseteq Tasks
  BY <1>3, <1>7
<1>19. /\ n <= Len(Waiters(side)) => Len(Waiters(side)') = Len(Waiters(side)) - n
       /\ Len(Waiters(side)) <= n => Waiters(side)' = <<>>
  BY <1>2 DEF l
<1> QED
  BY <1>10, <1>11, <1>12, <1>13, <1>14, <1>15, <1>17, <1>18, <1>19

\* A step that unblocks nobody.
LEMMA NobodyWoken ==
    ASSUME WaitInv, UNCHANGED events, suspended' = suspended \/ suspended = NoTask,
           NEW X, blocked \subseteq X,
           \A t \in X : (WillTry(t) => WillTry(t)') /\ (Sends(t)' <=> Sends(t))
    PROVE  /\ xTasksWaitingToSend' \in Seq(Tasks) /\ xTasksWaitingToReceive' \in Seq(Tasks)
           /\ blocked' \subseteq Tasks /\ WaitersOK' /\ BlockedOK'
           /\ \A side \in Sides : /\ Waiters(side)' = Waiters(side)
                                  /\ Coming(side) \cap X \subseteq Coming(side)'
<1>1. /\ xTasksWaitingToSend' = xTasksWaitingToSend
      /\ xTasksWaitingToReceive' = xTasksWaitingToReceive
      /\ blocked' = blocked /\ xPendingReadyList' = xPendingReadyList
  BY DEF events
<1>2. \A side : Waiters(side)' = Waiters(side)
  BY <1>1 DEF Waiters
<1>3. \A t \in X : \A side : IsOf(t, side)' <=> IsOf(t, side)
  BY DEF IsOf
<1>4. \A side \in Sides : \A t \in TasksIn(Waiters(side)) : t \in X
  BY DEF WaitInv, WaitersOK
<1>5. WaitersOK'
  BY <1>1, <1>2, <1>3, <1>4 DEF WaitInv, WaitersOK
<1>6. BlockedOK'
  BY <1>1, <1>2 DEF WaitInv, BlockedOK
<1>7. ASSUME NEW side \in Sides, NEW t \in Coming(side) \cap X PROVE t \in Coming(side)'
  <2>1. t \in Tasks /\ t \notin TasksIn(Waiters(side)) /\ Wakes(t) /\ WillTry(t) /\ IsOf(t, side)
    BY <1>7 DEF Coming
  <2>2. Wakes(t)'
    BY <1>1, <2>1 DEF Wakes
  <2> QED
    BY <1>2, <1>3, <2>1, <2>2 DEF Coming
<1> QED
  BY <1>1, <1>2, <1>5, <1>6, <1>7 DEF WaitInv, WaitTypes

-------------------------------------------------------------------------------
\* The steps between two suspensions

LEMMA TaskUnsuspended ==
    ASSUME WaitInv, suspended = NoTask
    PROVE  /\ cTxLock = -1 /\ cRxLock = -1 /\ xPendingReadyList = {}
           /\ \A side \in Sides : Mark(side) = -1
           /\ \A u \in Tasks : pc[u] \notin Suspending /\ (Wakes(u) <=> u \notin blocked)
<1>1. \A u \in Tasks : pc[u] \notin Suspending
  BY TasksAssumption DEF WaitInv, LockedOK
<1>2. cTxLock = -1 /\ cRxLock = -1
  BY <1>1 DEF WaitInv, LockedOK, Suspending, queueUNLOCKED
<1>3. xPendingReadyList = {}
  BY DEF WaitInv, BlockedOK
<1> QED
  BY <1>1, <1>2, <1>3 DEF Wakes, Mark, Sides

\* A task goes on while the scheduler runs.
LEMMA MovesOn ==
    ASSUME WaitInv, NEW t \in Tasks, suspended = NoTask, suspended' = suspended,
           UNCHANGED locks,
           pc' = pc \/ \E p \in {"idle", "try", "suspend", "recheck"} : Go(t, p)
    PROVE  /\ LockedOK' /\ Seen' /\ pc' \in [Tasks -> QueuePlaces]
           /\ cTxLock' = -1 /\ cRxLock' = -1 /\ suspended' = NoTask
           /\ \A side \in Sides : Mark(side)' = -1
<1>1. cTxLock = -1 /\ cRxLock = -1 /\ \A u \in Tasks : pc[u] \notin Suspending
  BY TaskUnsuspended
<1>2. cTxLock' = -1 /\ cRxLock' = -1
  BY <1>1 DEF locks
<1>3. pc \in [Tasks -> QueuePlaces]
  BY DEF WaitInv, WaitTypes
<1>4. pc' \in [Tasks -> QueuePlaces]
  BY <1>3 DEF Go, QueuePlaces
<1>5. \A u \in Tasks : pc'[u] \notin Suspending
  BY <1>1, <1>3 DEF Go, Suspending
<1>6. LockedOK'
  BY <1>2, <1>5, TasksAssumption DEF LockedOK, Suspending, queueUNLOCKED
<1>7. Seen'
  BY <1>5 DEF Seen, Suspending
<1> QED
  BY <1>2, <1>4, <1>6, <1>7 DEF Mark

\* What there is of items and of room.
LEMMA AvailableType ==
    ASSUME QueueInvariant, QueueInvariant'
    PROVE  \A side \in Sides : Available(side) \in Nat /\ Available(side)' \in Nat
<1>1. uxMessagesWaiting \in Nat /\ uxLength - uxMessagesWaiting \in Nat
  BY DEF QueueInvariant, Ring
<1>2. uxMessagesWaiting' \in Nat /\ uxLength' - uxMessagesWaiting' \in Nat
  <2>1. uxLength' \in Nat /\ uxMessagesWaiting' \in 0..uxLength'
    BY DEF QueueInvariant, Ring
  <2>2. \A n \in Nat : \A m \in 0..n : m \in Nat /\ n - m \in Nat
    OBVIOUS
  <2> QED
    BY <2>1, <2>2
<1> QED
  BY <1>1, <1>2 DEF Available

\* A step after which no fewer are coming, and no more is there for them.
LEMMA StillReached ==
    ASSUME WakeInv, QueueInvariant, QueueInvariant', NEW side \in Sides,
           Coming(side) \subseteq Coming(side)', Available(side)' <= Available(side),
           \/ Waiters(side)' = Waiters(side) /\ Mark(side)' = Mark(side)
           \/ Mark(side) = -1 /\ (Waiters(side)' # <<>> => Waiters(side) # <<>>),
           Mark(side)' \in Int
    PROVE  Reached(side)'
<1> SUFFICES ASSUME Waiters(side)' # <<>> PROVE Reached(side)'
  BY DEF Reached
<1>1. /\ Cardinality(Coming(side)) \in Nat /\ Cardinality(Coming(side)') \in Nat
      /\ Cardinality(Coming(side)) <= Cardinality(Coming(side)')
  BY ComingFinite, FS_Subset, FS_CardinalityType
<1>2. Available(side) \in Nat /\ Available(side)' \in Nat
  BY AvailableType
<1>3. Waiters(side) \in Seq(Tasks) /\ Waiters(side) # <<>> /\ Mark(side) \in Int
  BY DEF WakeInv, WaitInv, WaitTypes, Waiters, Mark
<1>4. \/ Available(side) <= Cardinality(Coming(side)) + Counted(Mark(side))
      \/ Mark(side) >= Len(Waiters(side))
  BY <1>3 DEF WakeInv, Reached
<1>5. Len(Waiters(side)) \in Nat /\ Len(Waiters(side)) > 0
  BY <1>3
<1>6. Counted(Mark(side)) \in Nat /\ Counted(Mark(side)') \in Nat
  BY <1>3 DEF Counted
<1>7. CASE Waiters(side)' = Waiters(side) /\ Mark(side)' = Mark(side)
  <2>1. Counted(Mark(side)') = Counted(Mark(side))
    BY <1>7
  <2>2. \/ Available(side)' <= Cardinality(Coming(side)') + Counted(Mark(side)')
        \/ Mark(side)' >= Len(Waiters(side)')
    BY <1>1, <1>2, <1>4, <1>5, <1>6, <1>7, <2>1
  <2> QED
    BY <2>2 DEF Reached
<1>8. CASE Mark(side) = -1
  <2>1. Counted(Mark(side)) = 0
    BY <1>8 DEF Counted
  <2>2. Available(side)' <= Cardinality(Coming(side)') + Counted(Mark(side)')
    BY <1>1, <1>2, <1>4, <1>5, <1>6, <1>8, <2>1
  <2> QED
    BY <2>2 DEF Reached
<1> QED
  BY <1>7, <1>8

\* A step after which one fewer may be coming, but one less, or nothing, is there.
LEMMA LessLeft ==
    ASSUME WakeInv, QueueInvariant, QueueInvariant', NEW side \in Sides, NEW t,
           Coming(side) \ {t} \subseteq Coming(side)',
           Available(side)' <= Available(side) - 1 \/ Available(side)' = 0,
           Waiters(side)' = Waiters(side), Mark(side) = -1, Mark(side)' = -1
    PROVE  Reached(side)'
<1> SUFFICES ASSUME Waiters(side)' # <<>> PROVE Reached(side)'
  BY DEF Reached
<1>1. /\ Cardinality(Coming(side)) \in Nat /\ Cardinality(Coming(side)') \in Nat
      /\ Cardinality(Coming(side)) - 1 <= Cardinality(Coming(side)')
  <2>1. IsFiniteSet(Coming(side)) /\ IsFiniteSet(Coming(side)')
    BY ComingFinite
  <2>2. /\ Cardinality(Coming(side)) \in Nat /\ Cardinality(Coming(side) \ {t}) \in Nat
        /\ Cardinality(Coming(side)) <= Cardinality(Coming(side) \ {t}) + 1
    BY <2>1, OneGone
  <2>3. Cardinality(Coming(side) \ {t}) <= Cardinality(Coming(side)')
    BY <2>1, FS_Subset
  <2>4. Cardinality(Coming(side)') \in Nat
    BY <2>1, FS_CardinalityType
  <2> QED
    BY <2>2, <2>3, <2>4
<1>2. Available(side) \in Nat /\ Available(side)' \in Nat
  BY AvailableType
<1>3. Waiters(side) \in Seq(Tasks) /\ Waiters(side) # <<>>
  BY DEF WakeInv, WaitInv, WaitTypes, Waiters
<1>4. \/ Available(side) <= Cardinality(Coming(side)) + Counted(Mark(side))
      \/ Mark(side) >= Len(Waiters(side))
  BY <1>3 DEF WakeInv, Reached
<1>5. Len(Waiters(side)) \in Nat /\ Len(Waiters(side)) > 0
  BY <1>3
<1>6. Counted(Mark(side)) = 0 /\ Counted(Mark(side)') = 0
  BY DEF Counted
<1>7. Available(side)' <= Cardinality(Coming(side)') + Counted(Mark(side)')
  BY <1>1, <1>2, <1>4, <1>5, <1>6
<1> QED
  BY <1>7 DEF Reached

\* A step that wakes one for the one more that may be there.
LEMMA OneWoken ==
    ASSUME WakeInv, QueueInvariant, QueueInvariant', NEW side \in Sides, NEW t,
           Coming(side) \ {t} \subseteq Coming(side)',
           Available(side)' <= Available(side) + 1,
           t \in Coming(side) => Available(side)' <= Available(side),
           NEW W, W \cap Coming(side) = {}, W \subseteq Coming(side)',
           1 <= Len(Waiters(side)) => Cardinality(W) = 1,
           Len(Waiters(side)) <= 1 => Waiters(side)' = <<>>,
           t \notin W, Mark(side) = -1, Mark(side)' = -1
    PROVE  Reached(side)'
<1> SUFFICES ASSUME Waiters(side)' # <<>> PROVE Reached(side)'
  BY DEF Reached
<1>1. Waiters(side) \in Seq(Tasks)
  BY DEF WakeInv, WaitInv, WaitTypes, Waiters
<1>2. Len(Waiters(side)) \in Nat /\ Len(Waiters(side)) > 1 /\ Waiters(side) # <<>>
  BY <1>1
<1>3. IsFiniteSet(Coming(side)) /\ IsFiniteSet(Coming(side)')
  BY ComingFinite
<1>4. /\ Cardinality(Coming(side) \ {t}) \in Nat /\ Cardinality(Coming(side)') \in Nat
      /\ Cardinality(Coming(side) \ {t}) + 1 <= Cardinality(Coming(side)')
  <2>1. (Coming(side) \ {t}) \cup W \subseteq Coming(side)' /\ (Coming(side) \ {t}) \cap W = {}
    OBVIOUS
  <2> QED
    <3>1. PICK C, D : C = Coming(side) \ {t} /\ D = Coming(side)'
      OBVIOUS
    <3>2. IsFiniteSet(D) /\ C \cup W \subseteq D /\ C \cap W = {}
      BY <1>3, <2>1, <3>1
    <3>3. Cardinality(W) = 1
      BY <1>2
    <3>4. /\ Cardinality(C) \in Nat /\ Cardinality(D) \in Nat
          /\ Cardinality(C) + 1 <= Cardinality(D)
      BY <3>2, <3>3, MoreComing
    <3> QED
      BY <3>1, <3>4
<1>5. Available(side) \in Nat /\ Available(side)' \in Nat
  BY AvailableType
<1>6. \/ Available(side) <= Cardinality(Coming(side)) + Counted(Mark(side))
      \/ Mark(side) >= Len(Waiters(side))
  BY <1>2 DEF WakeInv, Reached
<1>7. Counted(Mark(side)) = 0 /\ Counted(Mark(side)') = 0
  BY DEF Counted
<1>8. Cardinality(Coming(side)) \in Nat /\ Available(side) <= Cardinality(Coming(side))
  BY <1>2, <1>3, <1>5, <1>6, <1>7, FS_CardinalityType
<1>9. Available(side)' <= Cardinality(Coming(side) \ {t}) + 1
  <2>1. CASE t \in Coming(side)
    <3>1. Cardinality(Coming(side)) <= Cardinality(Coming(side) \ {t}) + 1
      BY <1>3, OneGone
    <3> QED
      BY <1>4, <1>5, <1>8, <2>1, <3>1
  <2>2. CASE t \notin Coming(side)
    <3>1. Coming(side) \ {t} = Coming(side)
      BY <2>2
    <3>2. Cardinality(Coming(side) \ {t}) = Cardinality(Coming(side))
      BY <3>1
    <3> QED
      BY <1>4, <1>5, <1>8, <3>2
  <2> QED
    BY <2>1, <2>2
<1>10. Available(side)' <= Cardinality(Coming(side)') + Counted(Mark(side)')
  BY <1>4, <1>5, <1>7, <1>9
<1> QED
  BY <1>10 DEF Reached

\* What the other tasks do is left to them by a step of the calls.
LEMMA OthersGoOn ==
    ASSUME QueueInvariant, WaitInv, NEW t \in Tasks, NEW p \in QueuePlaces, Go(t, p),
           op' = op \/ \E c : op' = [op EXCEPT ![t] = c],
           next' = next \/ \E c \in {"try", "fail", "recheck"} : next' = [next EXCEPT ![t] = c]
    PROVE  /\ \A u \in Tasks \ {t} : (WillTry(u) => WillTry(u)') /\ (Sends(u)' <=> Sends(u))
           /\ next' \in [Tasks -> {"try", "fail", "recheck"}]
           /\ pc' \in [Tasks -> QueuePlaces] /\ pc'[t] = p
           /\ \A u \in Tasks \ {t} : pc'[u] = pc[u]
<1>1. /\ pc \in [Tasks -> QueuePlaces] /\ next \in [Tasks -> {"try", "fail", "recheck"}]
      /\ op \in [Tasks -> Operations]
  BY DEF QueueInvariant, Offers, WaitInv, WaitTypes
<1>2. \A u \in Tasks \ {t} : pc'[u] = pc[u]
  BY <1>1 DEF Go
<1>3. \A u \in Tasks \ {t} : op'[u] = op[u]
  BY <1>1
<1>4. \A u \in Tasks \ {t} : next'[u] = next[u]
  BY <1>1
<1>5. next' \in [Tasks -> {"try", "fail", "recheck"}]
  BY <1>1
<1>6. pc' \in [Tasks -> QueuePlaces] /\ pc'[t] = p
  BY <1>1 DEF Go
<1>7. \A u \in Tasks \ {t} : (WillTry(u) => WillTry(u)') /\ (Sends(u)' <=> Sends(u))
  BY <1>2, <1>3, <1>4 DEF WillTry, Sends
<1> QED
  BY <1>2, <1>5, <1>6, <1>7

\* A task does what it came for, and wakes one who waits on the other side.
LEMMA DoneWakes ==
    ASSUME WakeInv, QueueInvariant, QueueInvariant', NEW t \in Tasks,
           NEW side \in Sides, NEW own \in Sides, IsOf(t, own),
           At(t, "try"), Return(t), UNCHANGED <<locks, suspended>>,
           Unblock(TasksIn(FirstOf(Waiters(side), 1))),
           Waiters(side)' = Rest(Waiters(side), 1),
           \A other \in Sides \ {side} : Waiters(other)' = Waiters(other),
           IF own = side THEN \A s \in Sides : Available(s)' = Available(s)
           ELSE /\ Available(side)' <= Available(side) + 1
                /\ Available(own)' <= Available(own) - 1 \/ Available(own)' = 0
    PROVE  WakeInv'
<1> USE DEF WakeInv
<1>1. t \notin blocked /\ pc[t] = "try" /\ suspended = NoTask
  <2>1. pc[t] \notin Suspending
    BY DEF At, Suspending
  <2> QED
    BY <2>1, TasksAssumption DEF At, Runs, WaitInv, LockedOK
<1>2. /\ \A u \in Tasks \ {t} : (WillTry(u) => WillTry(u)') /\ (Sends(u)' <=> Sends(u))
      /\ next' \in [Tasks -> {"try", "fail", "recheck"}]
      /\ Go(t, "idle") /\ pc'[t] = "idle"
  BY OthersGoOn DEF Return, QueuePlaces
<1>3. blocked \subseteq Tasks \ {t}
  BY <1>1 DEF WaitInv, WaitTypes
<1>4. PICK W :
        /\ xTasksWaitingToSend' \in Seq(Tasks) /\ xTasksWaitingToReceive' \in Seq(Tasks)
        /\ blocked' \subseteq Tasks /\ WaitersOK' /\ BlockedOK'
        /\ Len(Waiters(side)) <= 1 => Waiters(side)' = <<>>
        /\ \A other \in Sides : Coming(other) \cap (Tasks \ {t}) \subseteq Coming(other)'
        /\ W \cap Coming(side) = {} /\ W \subseteq Coming(side)'
        /\ 1 <= Len(Waiters(side)) => Cardinality(W) = 1
  BY <1>2, <1>3, WokenFacts
<1>5. /\ LockedOK' /\ Seen' /\ pc' \in [Tasks -> QueuePlaces]
      /\ cTxLock' = -1 /\ cRxLock' = -1 /\ suspended' = NoTask
      /\ \A s \in Sides : Mark(s)' = -1
  BY <1>1, <1>2, MovesOn
<1>6. \A s \in Sides : Mark(s) = -1
  BY <1>1, TaskUnsuspended
<1>7. WaitInv'
  BY <1>2, <1>4, <1>5, QueueAssumption DEF WaitInv, WaitTypes
<1>8. \A s \in Sides : Coming(s) \ {t} \subseteq Coming(s)'
  BY <1>4 DEF Coming
<1>9. t \notin Coming(side)'
  BY <1>2 DEF Coming, WillTry
<1>10. \A s \in Sides : Available(s) \in Nat /\ Available(s)' \in Nat
  BY AvailableType
<1>11. \A s \in Sides \ {own} : t \notin Coming(s)
  BY DEF Coming, IsOf, Sides
<1>12. Reached(side)'
  <2>1. Available(side)' <= Available(side) + 1
    BY <1>10
  <2>2. t \in Coming(side) => Available(side)' <= Available(side)
    BY <1>10, <1>11
  <2> QED
    BY <1>4, <1>5, <1>6, <1>8, <1>9, <2>1, <2>2, OneWoken
<1>13. ASSUME NEW s \in Sides, s # side PROVE Reached(s)'
  <2>1. Waiters(s)' = Waiters(s)
    BY <1>13
  <2>2. CASE own = side
    <3>1. Coming(s) \subseteq Coming(s)' /\ Available(s)' <= Available(s)
      BY <1>8, <1>10, <1>11, <1>13, <2>2
    <3> QED
      BY <1>5, <1>6, <2>1, <3>1, StillReached
  <2>3. CASE own # side
    <3>1. s = own
      BY <1>13, <2>3 DEF Sides
    <3> QED
      BY <1>5, <1>6, <1>8, <2>1, <2>3, <3>1, LessLeft
  <2> QED
    BY <2>2, <2>3
<1> QED
  BY <1>5, <1>7, <1>12, <1>13

LEMMA SendWakes ==
    ASSUME WakeInv, QueueInvariant, QueueInvariant', NEW t \in Tasks, Send(t)
    PROVE  WakeInv'
<1>1. /\ IsOf(t, "send") /\ At(t, "try") /\ Return(t) /\ UNCHANGED <<locks, suspended>>
  BY DEF Send, IsOf
<1>2. Waiters("receive") = xTasksWaitingToReceive /\ Waiters("send") = xTasksWaitingToSend
  BY DEF Waiters
<1>3. /\ Unblock(TasksIn(FirstOf(Waiters("receive"), 1)))
      /\ Waiters("receive")' = Rest(Waiters("receive"), 1)
      /\ Waiters("send")' = Waiters("send")
  BY <1>2 DEF Send, WakeReceiver, Waiters
<1>4. /\ uxLength' = uxLength /\ uxLength \in Nat /\ uxMessagesWaiting \in Nat
      /\ uxMessagesWaiting <= uxLength
  BY DEF Send, QueueInvariant, Ring
<1>5. \/ uxMessagesWaiting' = uxMessagesWaiting + 1
      \/ uxLength = 1 /\ uxMessagesWaiting' = 1
  <2>1. CASE op[t].kind = "send"
    BY <2>1 DEF Send, CopyDataToQueue
  <2>2. CASE op[t].kind # "send"
    <3>1. OverwriteData(op[t].item) /\ uxLength = 1
      BY <2>2 DEF Send, Sends, QueueInvariant, Offers
    <3> QED
      BY <1>4, <3>1 DEF OverwriteData
  <2> QED
    BY <2>1, <2>2
<1>6. /\ Available("receive") = uxMessagesWaiting /\ Available("receive")' = uxMessagesWaiting'
      /\ Available("send") = uxLength - uxMessagesWaiting
      /\ Available("send")' = uxLength' - uxMessagesWaiting'
  BY DEF Available
<1>7. /\ Available("receive")' <= Available("receive") + 1
      /\ Available("send")' <= Available("send") - 1 \/ Available("send")' = 0
  BY <1>4, <1>5, <1>6
<1> QED
  BY <1>1, <1>3, <1>7, DoneWakes DEF Sides

LEMMA ReceiveWakes ==
    ASSUME WakeInv, QueueInvariant, QueueInvariant', NEW t \in Tasks, Receive(t)
    PROVE  WakeInv'
<1>1. /\ IsOf(t, "receive") /\ At(t, "try") /\ Return(t) /\ UNCHANGED <<locks, suspended>>
  BY DEF Receive, IsOf, Sends
<1>2. Waiters("receive") = xTasksWaitingToReceive /\ Waiters("send") = xTasksWaitingToSend
  BY DEF Waiters
<1>3. /\ Unblock(TasksIn(FirstOf(Waiters("send"), 1)))
      /\ Waiters("send")' = Rest(Waiters("send"), 1)
      /\ Waiters("receive")' = Waiters("receive")
  BY <1>2 DEF Receive, WakeSender, Waiters
<1>4. /\ uxLength' = uxLength /\ uxLength \in Nat /\ uxMessagesWaiting \in Nat
      /\ uxMessagesWaiting' = uxMessagesWaiting - 1
  BY DEF Receive, CopyDataFromQueue, QueueInvariant, Ring
<1>5. /\ Available("receive") = uxMessagesWaiting /\ Available("receive")' = uxMessagesWaiting'
      /\ Available("send") = uxLength - uxMessagesWaiting
      /\ Available("send")' = uxLength' - uxMessagesWaiting'
  BY DEF Available
<1>6. /\ Available("send")' <= Available("send") + 1
      /\ Available("receive")' <= Available("receive") - 1
  BY <1>4, <1>5
<1> QED
  BY <1>1, <1>3, <1>6, DoneWakes DEF Sides

LEMMA PeekWakes ==
    ASSUME WakeInv, QueueInvariant, QueueInvariant', NEW t \in Tasks, Peek(t)
    PROVE  WakeInv'
<1>1. /\ IsOf(t, "receive") /\ At(t, "try") /\ Return(t) /\ UNCHANGED <<locks, suspended>>
  BY DEF Peek, IsOf, Sends
<1>2. Waiters("receive") = xTasksWaitingToReceive /\ Waiters("send") = xTasksWaitingToSend
  BY DEF Waiters
<1>3. /\ Unblock(TasksIn(FirstOf(Waiters("receive"), 1)))
      /\ Waiters("receive")' = Rest(Waiters("receive"), 1)
      /\ Waiters("send")' = Waiters("send")
  BY <1>2 DEF Peek, WakeReceiver, Waiters
<1>4. \A s \in Sides : Available(s)' = Available(s)
  BY DEF Peek, PeekData, Available
<1> QED
  BY <1>1, <1>3, <1>4, DoneWakes DEF Sides

\* A task goes on between two suspensions, without having got what it came for.
LEMMA GoesOn ==
    ASSUME WakeInv, QueueInvariant, QueueInvariant', NEW t \in Tasks,
           t \notin blocked, suspended = NoTask,
           UNCHANGED <<uxLength, storage, locks, events, suspended>>,
           \E p \in {"idle", "try", "suspend", "recheck"} : Go(t, p),
           next' \in [Tasks -> {"try", "fail", "recheck"}],
           \A u \in Tasks \ {t} : (WillTry(u) => WillTry(u)') /\ (Sends(u)' <=> Sends(u)),
           \A side \in Sides : IsOf(t, side) /\ WillTry(t) => Available(side) = 0
    PROVE  WakeInv'
<1> USE DEF WakeInv
<1>1. blocked \subseteq Tasks \ {t}
  BY DEF WaitInv, WaitTypes
<1>2. /\ xTasksWaitingToSend' \in Seq(Tasks) /\ xTasksWaitingToReceive' \in Seq(Tasks)
      /\ blocked' \subseteq Tasks /\ WaitersOK' /\ BlockedOK'
      /\ \A side \in Sides : /\ Waiters(side)' = Waiters(side)
                             /\ Coming(side) \cap (Tasks \ {t}) \subseteq Coming(side)'
  BY <1>1, NobodyWoken
<1>3. /\ LockedOK' /\ Seen' /\ pc' \in [Tasks -> QueuePlaces]
      /\ cTxLock' = -1 /\ cRxLock' = -1 /\ suspended' = NoTask
      /\ \A side \in Sides : Mark(side)' = -1
  BY MovesOn
<1>4. \A side \in Sides : Mark(side) = -1
  BY TaskUnsuspended
<1>5. WaitInv'
  BY <1>2, <1>3, QueueAssumption DEF WaitInv, WaitTypes
<1>6. \A side \in Sides : Available(side)' = Available(side) /\ Available(side) \in Nat
  <2>1. \A side \in Sides : Available(side)' = Available(side)
    BY DEF Available, storage
  <2> QED
    BY <2>1, AvailableType
<1>7. ASSUME NEW side \in Sides PROVE Reached(side)'
  <2>1. CASE IsOf(t, side) /\ WillTry(t)
    <3>1. Coming(side) \ {t} \subseteq Coming(side)'
      BY <1>2 DEF Coming
    <3> QED
      BY <1>2, <1>3, <1>4, <1>6, <2>1, <3>1, LessLeft
  <2>2. CASE ~(IsOf(t, side) /\ WillTry(t))
    <3>1. Coming(side) \subseteq Coming(side)'
      BY <1>2, <2>2 DEF Coming
    <3> QED
      BY <1>2, <1>3, <1>4, <1>6, <3>1, StillReached
  <2> QED
    BY <2>1, <2>2
<1> QED
  BY <1>3, <1>5, <1>7

LEMMA CallWakes ==
    ASSUME WakeInv, QueueInvariant, QueueInvariant', NEW t \in Tasks, Call(t)
    PROVE  WakeInv'
<1>1. /\ suspended = NoTask /\ UNCHANGED <<uxLength, storage, locks, events, suspended, next>>
      /\ t \notin blocked /\ pc[t] = "idle" /\ Go(t, "try")
      /\ \E c : op' = [op EXCEPT ![t] = c]
  BY DEF Call, At, Runs
<1>2. ~WillTry(t)
  BY <1>1 DEF WillTry
<1>3. /\ \A u \in Tasks \ {t} : (WillTry(u) => WillTry(u)') /\ (Sends(u)' <=> Sends(u))
      /\ next' \in [Tasks -> {"try", "fail", "recheck"}]
  BY <1>1, OthersGoOn DEF QueuePlaces, WakeInv
<1> QED
  BY <1>1, <1>2, <1>3, GoesOn

LEMMA RefusedWakes ==
    ASSUME WakeInv, QueueInvariant, QueueInvariant', NEW t \in Tasks, Refused(t)
    PROVE  WakeInv'
<1>1. /\ t \notin blocked /\ suspended = NoTask /\ ~Fits(t)
      /\ UNCHANGED <<uxLength, storage, locks, events, suspended>>
  <2>1. pc[t] \notin Suspending
    BY DEF Refused, At, Suspending
  <2> QED
    BY <2>1, TasksAssumption DEF Refused, At, Runs, WakeInv, WaitInv, LockedOK
<1>2. /\ \A u \in Tasks \ {t} : (WillTry(u) => WillTry(u)') /\ (Sends(u)' <=> Sends(u))
      /\ next' \in [Tasks -> {"try", "fail", "recheck"}]
      /\ Go(t, "idle") \/ Go(t, "suspend")
  <2>1. CASE Return(t)
    BY <2>1, OthersGoOn DEF Return, QueuePlaces, WakeInv
  <2>2. CASE Go(t, "suspend") /\ UNCHANGED <<next, op, expired>>
    BY <2>2, OthersGoOn DEF QueuePlaces, WakeInv
  <2> QED
    BY <2>1, <2>2 DEF Refused
<1>3. \A side \in Sides : IsOf(t, side) => Available(side) = 0
  BY <1>1 DEF Fits, Sends, IsOf, Sides, Available, QueueInvariant, Ring
<1> QED
  BY <1>1, <1>2, <1>3, GoesOn

LEMMA RecheckWakes ==
    ASSUME WakeInv, QueueInvariant, QueueInvariant', NEW t \in Tasks, Recheck(t)
    PROVE  WakeInv'
<1>1. /\ t \notin blocked /\ pc[t] = "recheck" /\ suspended = NoTask
      /\ UNCHANGED <<uxLength, storage, locks, events, suspended>>
  <2>1. pc[t] \notin Suspending
    BY DEF Recheck, At, Suspending
  <2> QED
    BY <2>1, TasksAssumption DEF Recheck, At, Runs, WakeInv, WaitInv, LockedOK
<1>2. /\ \A u \in Tasks \ {t} : (WillTry(u) => WillTry(u)') /\ (Sends(u)' <=> Sends(u))
      /\ next' \in [Tasks -> {"try", "fail", "recheck"}]
      /\ Go(t, "idle") \/ Go(t, "try")
  <2>1. CASE Return(t)
    BY <2>1, OthersGoOn DEF Return, QueuePlaces, WakeInv
  <2>2. CASE Go(t, "try") /\ UNCHANGED <<next, op, expired>>
    BY <2>2, OthersGoOn DEF QueuePlaces, WakeInv
  <2> QED
    BY <2>1, <2>2 DEF Recheck
<1>3. ~WillTry(t)
  BY <1>1 DEF WillTry
<1> QED
  BY <1>1, <1>2, <1>3, GoesOn

-------------------------------------------------------------------------------
\* The steps of the task that has suspended the scheduler

LEMMA Suspended ==
    ASSUME WaitInv, NEW t \in Tasks, suspended = t
    PROVE  /\ \A u \in Tasks \ {t} : pc[u] \notin Suspending
           /\ cTxLock # -1 <=> pc[t] \in {"check", "place", "unlockTx"}
           /\ cRxLock # -1 <=> pc[t] \in {"check", "place", "unlockTx", "unlockRx"}
           /\ pc[t] \in Suspending
<1>1. \A u \in Tasks \ {t} : pc[u] \notin Suspending
  BY DEF WaitInv, LockedOK
<1>2. pc[t] \in Suspending
  BY DEF WaitInv, LockedOK
<1> QED
  BY <1>1, <1>2 DEF WaitInv, LockedOK, Suspending, queueUNLOCKED

\* Where that task is then, and the locks.
LEMMA StaysLocked ==
    ASSUME NEW t \in Tasks, \A u \in Tasks \ {t} : pc'[u] \notin Suspending,
           pc'[t] \in Suspending => suspended' = t,
           pc'[t] \notin Suspending => suspended' = NoTask,
           cTxLock' # -1 <=> pc'[t] \in {"check", "place", "unlockTx"},
           cRxLock' # -1 <=> pc'[t] \in {"check", "place", "unlockTx", "unlockRx"}
    PROVE  LockedOK'
<1>1. \A u \in Tasks : pc'[u] \in Suspending <=> suspended' = u
  BY TasksAssumption
<1>2. \A u \in Tasks \ {t} : pc'[u] \notin {"check", "place", "unlockTx", "unlockRx"}
  BY DEF Suspending
<1> QED
  BY <1>1, <1>2 DEF LockedOK, queueUNLOCKED

\* Who could get at the locked queue: none of its own ways there is taken.
LEMMA NotComing ==
    ASSUME NEW t, pc[t] \notin {"try", "unlockTx", "unlockRx", "resume"}
    PROVE  ~WillTry(t) /\ \A side : t \notin Coming(side)
<1>1. ~WillTry(t)
  BY DEF WillTry
<1> QED
  BY <1>1 DEF Coming

LEMMA SuspendWakes ==
    ASSUME WakeInv, QueueInvariant, QueueInvariant', NEW t \in Tasks, SuspendAll(t)
    PROVE  WakeInv'
<1> USE DEF WakeInv
<1>1. /\ suspended = NoTask /\ pc[t] = "suspend" /\ t \notin blocked
      /\ UNCHANGED <<uxLength, storage, locks, events, next, op>>
      /\ suspended' = t /\ Go(t, "lock")
  BY DEF SuspendAll, At, Runs
<1>2. /\ \A u \in Tasks \ {t} : (WillTry(u) => WillTry(u)') /\ (Sends(u)' <=> Sends(u))
      /\ next' \in [Tasks -> {"try", "fail", "recheck"}]
      /\ pc' \in [Tasks -> QueuePlaces] /\ pc'[t] = "lock"
      /\ \A u \in Tasks \ {t} : pc'[u] = pc[u]
  BY <1>1, OthersGoOn DEF QueuePlaces
<1>3. blocked \subseteq Tasks \ {t}
  BY <1>1 DEF WaitInv, WaitTypes
<1>4. /\ xTasksWaitingToSend' \in Seq(Tasks) /\ xTasksWaitingToReceive' \in Seq(Tasks)
      /\ blocked' \subseteq Tasks /\ WaitersOK' /\ BlockedOK'
      /\ \A side \in Sides : /\ Waiters(side)' = Waiters(side)
                             /\ Coming(side) \cap (Tasks \ {t}) \subseteq Coming(side)'
  BY <1>1, <1>2, <1>3, NobodyWoken
<1>5. /\ cTxLock' = -1 /\ cRxLock' = -1
      /\ \A side \in Sides : Mark(side) = -1 /\ Mark(side)' = -1
      /\ \A u \in Tasks \ {t} : pc'[u] \notin Suspending
  BY <1>1, <1>2, TaskUnsuspended DEF locks, Mark
<1>6. LockedOK' /\ Seen'
  BY <1>1, <1>2, <1>5, StaysLocked DEF Suspending, Seen
<1>7. WaitInv'
  BY <1>1, <1>2, <1>4, <1>5, <1>6, QueueAssumption DEF WaitInv, WaitTypes
<1>8. \A side \in Sides : Available(side)' = Available(side) /\ Available(side) \in Nat
  <2>1. \A side \in Sides : Available(side)' = Available(side)
    BY <1>1 DEF Available, storage
  <2> QED
    BY <2>1, AvailableType
<1>9. ASSUME NEW side \in Sides PROVE Reached(side)'
  <2>1. Coming(side) \subseteq Coming(side)'
    BY <1>1, <1>4, NotComing DEF Coming
  <2> QED
    BY <1>4, <1>5, <1>8, <2>1, StillReached
<1> QED
  BY <1>6, <1>7, <1>9

LEMMA LockWakes ==
    ASSUME WakeInv, QueueInvariant, QueueInvariant', NEW t \in Tasks, LockQueue(t)
    PROVE  WakeInv'
<1> USE DEF WakeInv
<1>1. /\ pc[t] = "lock" /\ t \notin blocked /\ suspended = t
      /\ UNCHANGED <<uxLength, storage, events, suspended, next, op>> /\ Go(t, "check")
  BY DEF LockQueue, At, Runs, WaitInv, LockedOK, Suspending
<1>2. /\ \A u \in Tasks \ {t} : (WillTry(u) => WillTry(u)') /\ (Sends(u)' <=> Sends(u))
      /\ next' \in [Tasks -> {"try", "fail", "recheck"}]
      /\ pc' \in [Tasks -> QueuePlaces] /\ pc'[t] = "check"
      /\ \A u \in Tasks \ {t} : pc'[u] = pc[u]
  BY <1>1, OthersGoOn DEF QueuePlaces
<1>3. blocked \subseteq Tasks \ {t}
  BY <1>1 DEF WaitInv, WaitTypes
<1>4. /\ xTasksWaitingToSend' \in Seq(Tasks) /\ xTasksWaitingToReceive' \in Seq(Tasks)
      /\ blocked' \subseteq Tasks /\ WaitersOK' /\ BlockedOK'
      /\ \A side \in Sides : /\ Waiters(side)' = Waiters(side)
                             /\ Coming(side) \cap (Tasks \ {t}) \subseteq Coming(side)'
  BY <1>1, <1>2, <1>3, NobodyWoken
<1>5. cTxLock = -1 /\ cRxLock = -1 /\ \A u \in Tasks \ {t} : pc'[u] \notin Suspending
  BY <1>1, <1>2, Suspended
<1>6. cTxLock' = 0 /\ cRxLock' = 0
  BY <1>5 DEF LockQueue, queueUNLOCKED, queueLOCKED_UNMODIFIED
<1>7. \A side \in Sides : Mark(side) = -1 /\ Mark(side)' = 0
  BY <1>5, <1>6 DEF Mark
<1>8. LockedOK' /\ Seen'
  BY <1>1, <1>2, <1>5, <1>6, StaysLocked DEF Suspending, Seen
<1>9. WaitInv'
  BY <1>1, <1>2, <1>4, <1>6, <1>8, QueueAssumption DEF WaitInv, WaitTypes
<1>10. \A side \in Sides : Available(side)' = Available(side) /\ Available(side) \in Nat
  <2>1. \A side \in Sides : Available(side)' = Available(side)
    BY <1>1 DEF Available, storage
  <2> QED
    BY <2>1, AvailableType
<1>11. ASSUME NEW side \in Sides PROVE Reached(side)'
  <2>1. Coming(side) \subseteq Coming(side)'
    BY <1>1, <1>4, NotComing DEF Coming
  <2> QED
    BY <1>4, <1>7, <1>10, <2>1, StillReached
<1> QED
  BY <1>8, <1>9, <1>11

LEMMA CheckWakes ==
    ASSUME WakeInv, QueueInvariant, QueueInvariant', NEW t \in Tasks, Check(t)
    PROVE  WakeInv'
<1> USE DEF WakeInv
<1>1. /\ pc[t] = "check" /\ t \notin blocked /\ suspended = t
      /\ UNCHANGED <<uxLength, storage, locks, events, suspended, op>>
      /\ Go(t, "unlockTx") \/ (Go(t, "place") /\ ~Fits(t))
      /\ next' = next \/ \E c \in {"try", "fail", "recheck"} : next' = [next EXCEPT ![t] = c]
  <2>1. pc[t] = "check" /\ t \notin blocked /\ suspended = t
    BY DEF Check, At, Runs, WaitInv, LockedOK, Suspending
  <2>2. UNCHANGED <<uxLength, storage, locks, events, suspended, op>>
    BY DEF Check
  <2>3. \/ Go(t, "unlockTx")
           /\ next' = [next EXCEPT ![t] = IF Sends(t) THEN "fail" ELSE "recheck"]
        \/ Go(t, "unlockTx") /\ next' = [next EXCEPT ![t] = "try"]
        \/ Go(t, "place") /\ ~Fits(t) /\ next' = next
    BY DEF Check
  <2>4. PICK c \in {"fail", "recheck"} : c = IF Sends(t) THEN "fail" ELSE "recheck"
    OBVIOUS
  <2>5. \/ Go(t, "unlockTx") /\ next' = [next EXCEPT ![t] = c]
        \/ Go(t, "unlockTx") /\ next' = [next EXCEPT ![t] = "try"]
        \/ Go(t, "place") /\ ~Fits(t) /\ next' = next
    BY <2>3, <2>4
  <2>6. next' = next \/ \E v \in {"try", "fail", "recheck"} : next' = [next EXCEPT ![t] = v]
    <3>1. CASE next' = [next EXCEPT ![t] = c]
      BY <3>1
    <3>2. CASE next' = [next EXCEPT ![t] = "try"]
      BY <3>2
    <3> QED
      BY <2>5, <3>1, <3>2
  <2>7. Go(t, "unlockTx") \/ (Go(t, "place") /\ ~Fits(t))
    BY <2>5
  <2> QED
    BY <2>1, <2>2, <2>6, <2>7
<1>2. /\ \A u \in Tasks \ {t} : (WillTry(u) => WillTry(u)') /\ (Sends(u)' <=> Sends(u))
      /\ next' \in [Tasks -> {"try", "fail", "recheck"}]
      /\ pc' \in [Tasks -> QueuePlaces]
      /\ pc'[t] = "unlockTx" \/ (pc'[t] = "place" /\ ~Fits(t))
      /\ \A u \in Tasks \ {t} : pc'[u] = pc[u]
  <2>1. CASE Go(t, "unlockTx")
    BY <1>1, <2>1, OthersGoOn DEF QueuePlaces
  <2>2. CASE Go(t, "place") /\ ~Fits(t)
    BY <1>1, <2>2, OthersGoOn DEF QueuePlaces
  <2> QED
    BY <1>1, <2>1, <2>2
<1>3. blocked \subseteq Tasks \ {t}
  BY <1>1 DEF WaitInv, WaitTypes
<1>4. /\ xTasksWaitingToSend' \in Seq(Tasks) /\ xTasksWaitingToReceive' \in Seq(Tasks)
      /\ blocked' \subseteq Tasks /\ WaitersOK' /\ BlockedOK'
      /\ \A side \in Sides : /\ Waiters(side)' = Waiters(side)
                             /\ Coming(side) \cap (Tasks \ {t}) \subseteq Coming(side)'
  BY <1>1, <1>2, <1>3, NobodyWoken
<1>5. /\ cTxLock # -1 /\ cRxLock # -1 /\ cTxLock' = cTxLock /\ cRxLock' = cRxLock
      /\ \A u \in Tasks \ {t} : pc'[u] \notin Suspending
  BY <1>1, <1>2, Suspended DEF locks
<1>6. cTxLock \in Nat /\ cRxLock \in Nat
  BY <1>5, QueueAssumption DEF WaitInv, WaitTypes
<1>7. \A side \in Sides : Mark(side)' = Mark(side) /\ Mark(side) \in Nat
  BY <1>5, <1>6 DEF Mark
<1>8. \A side \in Sides : Available(side)' = Available(side) /\ Available(side) \in Nat
  <2>1. \A side \in Sides : Available(side)' = Available(side)
    BY <1>1 DEF Available, storage
  <2> QED
    BY <2>1, AvailableType
<1>9. LockedOK'
  BY <1>1, <1>2, <1>5, StaysLocked DEF Suspending
<1>10. Seen'
  <2> SUFFICES ASSUME NEW u \in Tasks, NEW side \in Sides, pc'[u] = "place", IsOf(u, side)'
               PROVE  Available(side)' <= Mark(side)'
    BY DEF Seen
  <2>1. u = t /\ ~Fits(t)
    BY <1>2, <1>5 DEF Suspending
  <2>2. IsOf(t, side)
    BY <1>1, <2>1 DEF IsOf, Sends
  <2>3. Available(side) = 0
    BY <2>1, <2>2 DEF Fits, Sends, IsOf, Sides, Available, QueueInvariant, Ring
  <2> QED
    BY <1>7, <1>8, <2>3
<1>11. WaitInv'
  BY <1>1, <1>2, <1>4, <1>5, <1>9 DEF WaitInv, WaitTypes
<1>12. ASSUME NEW side \in Sides PROVE Reached(side)'
  <2>1. Coming(side) \subseteq Coming(side)'
    BY <1>1, <1>4, NotComing DEF Coming
  <2> QED
    BY <1>4, <1>7, <1>8, <2>1, StillReached
<1> QED
  BY <1>10, <1>11, <1>12

LEMMA PlaceWakes ==
    ASSUME WakeInv, QueueInvariant, QueueInvariant', NEW t \in Tasks, Place(t)
    PROVE  WakeInv'
<1> USE DEF WakeInv
<1>1. /\ pc[t] = "place" /\ t \notin blocked /\ suspended = t
      /\ UNCHANGED <<uxLength, storage, locks, xPendingReadyList, suspended, op>>
      /\ Go(t, "unlockTx") /\ next' = [next EXCEPT ![t] = "try"]
      /\ blocked' = blocked \cup {t}
  BY DEF Place, At, Runs, WaitInv, LockedOK, Suspending
<1>2. /\ \A u \in Tasks \ {t} : (WillTry(u) => WillTry(u)') /\ (Sends(u)' <=> Sends(u))
      /\ next' \in [Tasks -> {"try", "fail", "recheck"}]
      /\ pc' \in [Tasks -> QueuePlaces] /\ pc'[t] = "unlockTx"
      /\ \A u \in Tasks \ {t} : pc'[u] = pc[u]
  BY <1>1, OthersGoOn DEF QueuePlaces
<1>3. PICK own \in Sides : IsOf(t, own) /\ \A s \in Sides : IsOf(t, s) => s = own
  BY DEF IsOf, Sides
<1>4. /\ Waiters(own)' = vListInsert(Waiters(own), t, Priority)
      /\ \A s \in Sides \ {own} : Waiters(s)' = Waiters(s)
  <2>1. CASE Sends(t)
    BY <1>3, <2>1 DEF Place, Waiters, IsOf, Sides
  <2>2. CASE ~Sends(t)
    BY <1>3, <2>2 DEF Place, Waiters, IsOf, Sides
  <2> QED
    BY <2>1, <2>2
<1>5. /\ \A s \in Sides : Waiters(s) \in Seq(Tasks) /\ Once(Waiters(s))
      /\ \A s \in Sides : \A u \in TasksIn(Waiters(s)) :
            u \in blocked /\ u \notin xPendingReadyList /\ IsOf(u, s)
      /\ blocked \subseteq Tasks /\ xPendingReadyList \subseteq blocked
  BY DEF WaitInv, WaitTypes, WaitersOK, BlockedOK, Waiters
<1>6. /\ Waiters(own)' \in Seq(Tasks) /\ Len(Waiters(own)') = Len(Waiters(own)) + 1
      /\ TasksIn(Waiters(own)') = TasksIn(Waiters(own)) \cup {t}
      /\ Once(Waiters(own)')
  <2>1. PICK list : list = Waiters(own)
    OBVIOUS
  <2>2. PICK new : new = vListInsert(list, t, Priority)
    OBVIOUS
  <2>3. list \in Seq(Tasks) /\ Once(list) /\ t \notin TasksIn(list)
    BY <1>1, <1>5, <2>1
  <2>4. /\ new \in Seq(Tasks) /\ Len(new) = Len(list) + 1
        /\ TasksIn(new) = TasksIn(list) \cup {t} /\ Once(new)
    BY <2>2, <2>3, TasksAssumption, InsertedFacts
  <2> QED
    BY <1>4, <2>1, <2>2, <2>4
<1>7. /\ \A s \in Sides : Waiters(s)' \in Seq(Tasks) /\ Once(Waiters(s)')
      /\ \A s \in Sides : s # own => TasksIn(Waiters(s)') = TasksIn(Waiters(s))
  <2>1. \A s \in Sides : s # own => TasksIn(Waiters(s)') = TasksIn(Waiters(s))
    BY <1>4
  <2> QED
    BY <1>4, <1>5, <1>6, <2>1
<1>8. \A u \in Tasks : \A s \in Sides : IsOf(u, s)' <=> IsOf(u, s)
  BY <1>1 DEF IsOf, Sends
<1>9. WaitersOK'
  <2> SUFFICES ASSUME NEW s \in Sides, NEW u \in TasksIn(Waiters(s)')
               PROVE  u \in blocked' /\ u \notin xPendingReadyList' /\ IsOf(u, s)'
    BY <1>7 DEF WaitersOK
  <2>1. u \in TasksIn(Waiters(s)) \/ (u = t /\ s = own)
    <3>1. CASE s = own
      BY <1>6, <3>1
    <3>2. CASE s # own
      <4>1. TasksIn(Waiters(s)') = TasksIn(Waiters(s))
        BY <1>7, <3>2
      <4> QED
        BY <4>1
    <3> QED
      BY <3>1, <3>2
  <2> QED
    BY <1>1, <1>3, <1>5, <1>8, <2>1
<1>10. WillTry(t)'
  <2>1. next'[t] = "try"
    BY <1>1 DEF WaitInv, WaitTypes
  <2> QED
    BY <1>2, <2>1 DEF WillTry
<1>11. BlockedOK'
  <2>1. ASSUME NEW u \in blocked'
        PROVE  WillTry(u)' /\
                 (u \in xPendingReadyList' \/ \E s \in Sides : u \in TasksIn(Waiters(s)'))
    <3>1. CASE u = t
      BY <1>6, <1>10, <3>1
    <3>2. CASE u # t
      <4>1. u \in blocked /\ u \in Tasks \ {t}
        BY <1>1, <1>5, <2>1, <3>2
      <4>2. /\ WillTry(u)
            /\ u \in xPendingReadyList \/ \E s \in Sides : u \in TasksIn(Waiters(s))
        BY <4>1 DEF WaitInv, BlockedOK
      <4>3. \A s \in Sides : u \in TasksIn(Waiters(s)) => u \in TasksIn(Waiters(s)')
        BY <1>6, <1>7
      <4> QED
        BY <1>1, <1>2, <4>1, <4>2, <4>3
    <3> QED
      BY <3>1, <3>2
  <2>2. suspended' # NoTask /\ xPendingReadyList' \subseteq blocked'
    BY <1>1, <1>5, TasksAssumption
  <2> QED
    BY <2>1, <2>2 DEF BlockedOK
<1>12. /\ cTxLock # -1 /\ cRxLock # -1 /\ cTxLock' = cTxLock /\ cRxLock' = cRxLock
       /\ \A u \in Tasks \ {t} : pc'[u] \notin Suspending
  BY <1>1, <1>2, Suspended DEF locks
<1>13. cTxLock \in Nat /\ cRxLock \in Nat
  BY <1>12, QueueAssumption DEF WaitInv, WaitTypes
<1>14. \A s \in Sides : Mark(s)' = Mark(s) /\ Mark(s) \in Nat
  BY <1>12, <1>13 DEF Mark
<1>15. \A s \in Sides : Available(s)' = Available(s) /\ Available(s) \in Nat
  <2>1. \A s \in Sides : Available(s)' = Available(s)
    BY <1>1 DEF Available, storage
  <2> QED
    BY <2>1, AvailableType
<1>16. LockedOK' /\ Seen'
  BY <1>1, <1>2, <1>12, StaysLocked DEF Suspending, Seen
<1>17. WaitInv'
  <2>1. xTasksWaitingToSend' \in Seq(Tasks) /\ xTasksWaitingToReceive' \in Seq(Tasks)
    <3>1. /\ Waiters("send")' = xTasksWaitingToSend'
          /\ Waiters("receive")' = xTasksWaitingToReceive'
      BY DEF Waiters
    <3> QED
      BY <1>7, <3>1 DEF Sides
  <2> QED
    BY <1>1, <1>2, <1>5, <1>9, <1>11, <1>12, <1>16, <2>1 DEF WaitInv, WaitTypes
<1>18. ASSUME NEW s \in Sides PROVE Coming(s) \subseteq Coming(s)'
  <2> SUFFICES ASSUME NEW u \in Coming(s) PROVE u \in Coming(s)'
    OBVIOUS
  <2>1. /\ u \in Tasks \ {t} /\ u \notin TasksIn(Waiters(s)) /\ Wakes(u) /\ WillTry(u)
        /\ IsOf(u, s)
    BY <1>1, NotComing DEF Coming
  <2>2. u \notin TasksIn(Waiters(s)') /\ WillTry(u)' /\ IsOf(u, s)'
    BY <1>2, <1>6, <1>7, <1>8, <2>1
  <2>3. Wakes(u)'
    BY <1>1, <2>1 DEF Wakes
  <2> QED
    BY <2>1, <2>2, <2>3 DEF Coming
<1>19. ASSUME NEW s \in Sides, s # own PROVE Reached(s)'
  BY <1>4, <1>14, <1>15, <1>18, <1>19, StillReached
<1>20. Reached(own)'
  <2>1. /\ Cardinality(Coming(own)') \in Nat
    BY ComingFinite, FS_CardinalityType
  <2>2. CASE Available(own) <= Mark(own)
    <3>1. Counted(Mark(own)') = Mark(own)
      BY <1>14 DEF Counted
    <3>2. Available(own)' <= Cardinality(Coming(own)') + Counted(Mark(own)')
      BY <1>14, <1>15, <2>1, <2>2, <3>1
    <3> QED
      BY <3>2 DEF Reached
  <2>3. CASE Mark(own) = NumberOfTasks
    <3>1. Len(Waiters(own)') <= NumberOfTasks
      <4>1. PICK new : new = Waiters(own)'
        OBVIOUS
      <4>2. new \in Seq(Tasks) /\ Once(new)
        BY <1>6, <4>1
      <4>3. Len(new) \in 0..Len(new)
        BY <4>2
      <4>4. Len(new) <= NumberOfTasks
        BY <4>2, <4>3, ManyWoken
      <4> QED
        BY <4>1, <4>4
    <3>2. Mark(own)' >= Len(Waiters(own)')
      BY <1>6, <1>14, <2>3, <3>1, QueueAssumption
    <3> QED
      BY <3>2 DEF Reached
  <2> QED
    BY <1>1, <1>3, <2>2, <2>3 DEF Seen
<1> QED
  BY <1>16, <1>17, <1>19, <1>20

\* A lock is undone: as many are woken as were counted.
LEMMA UnlockedWakes ==
    ASSUME WakeInv, QueueInvariant, QueueInvariant', NEW side \in Sides,
           Mark(side) \in Nat, Mark(side)' = -1,
           UNCHANGED <<uxLength, storage, suspended, next, op>>,
           Unblock(TasksIn(FirstOf(Waiters(side), Mark(side)))),
           Waiters(side)' = Rest(Waiters(side), Mark(side)),
           \A s \in Sides \ {side} : Waiters(s)' = Waiters(s) /\ Mark(s)' = Mark(s),
           \A t \in Tasks : WillTry(t) => WillTry(t)'
    PROVE  /\ xTasksWaitingToSend' \in Seq(Tasks) /\ xTasksWaitingToReceive' \in Seq(Tasks)
           /\ blocked' \subseteq Tasks /\ WaitersOK' /\ BlockedOK'
           /\ \A s \in Sides : Reached(s)'
<1> USE DEF WakeInv
<1>1. \A t \in Tasks : Sends(t)' <=> Sends(t)
  BY DEF Sends
<1>2. blocked \subseteq Tasks
  BY DEF WaitInv, WaitTypes
<1>3. PICK n \in Nat : n = Mark(side)
  OBVIOUS
<1>4. PICK W :
        /\ xTasksWaitingToSend' \in Seq(Tasks) /\ xTasksWaitingToReceive' \in Seq(Tasks)
        /\ blocked' \subseteq Tasks /\ WaitersOK' /\ BlockedOK'
        /\ Len(Waiters(side)) <= n => Waiters(side)' = <<>>
        /\ \A s \in Sides : Coming(s) \cap Tasks \subseteq Coming(s)'
        /\ W \cap Coming(side) = {} /\ W \subseteq Coming(side)'
        /\ n <= Len(Waiters(side)) => Cardinality(W) = n
  BY <1>1, <1>2, <1>3, WokenFacts
<1>5. \A s \in Sides : Available(s)' = Available(s) /\ Available(s) \in Nat
  <2>1. \A s \in Sides : Available(s)' = Available(s)
    BY DEF Available, storage
  <2> QED
    BY <2>1, AvailableType
<1>6. \A s \in Sides : Coming(s) \subseteq Coming(s)'
  BY <1>4 DEF Coming
<1>7. ASSUME NEW s \in Sides, s # side PROVE Reached(s)'
  <2>1. Mark(s) \in Int
    BY DEF Mark, WaitInv, WaitTypes
  <2> QED
    BY <1>5, <1>6, <1>7, <2>1, StillReached
<1>8. Reached(side)'
  <2> SUFFICES ASSUME Waiters(side)' # <<>> PROVE Reached(side)'
    BY DEF Reached
  <2>1. Waiters(side) \in Seq(Tasks)
    BY DEF WaitInv, WaitTypes, Waiters
  <2>2. Len(Waiters(side)) \in Nat /\ n < Len(Waiters(side)) /\ Waiters(side) # <<>>
    BY <1>4, <2>1
  <2>3. IsFiniteSet(Coming(side)')
    BY ComingFinite
  <2>4. /\ Cardinality(Coming(side)) \in Nat /\ Cardinality(Coming(side)') \in Nat
        /\ Cardinality(Coming(side)) + n <= Cardinality(Coming(side)')
    <3>1. Coming(side) \cup W \subseteq Coming(side)' /\ Coming(side) \cap W = {}
      BY <1>4, <1>6
    <3>2. Cardinality(W) = n
      BY <1>4, <2>2
    <3> QED
      BY <2>3, <3>1, <3>2, MoreComing
  <2>5. Available(side) <= Cardinality(Coming(side)) + Counted(Mark(side))
    BY <1>3, <2>2 DEF Reached
  <2>6. Counted(Mark(side)) = n /\ Counted(Mark(side)') = 0
    BY <1>3 DEF Counted
  <2>7. Available(side)' <= Cardinality(Coming(side)') + Counted(Mark(side)')
    BY <1>5, <2>4, <2>5, <2>6
  <2> QED
    BY <2>7 DEF Reached
<1> QED
  BY <1>4, <1>7, <1>8

LEMMA UnlockTxWakes ==
    ASSUME WakeInv, QueueInvariant, QueueInvariant', NEW t \in Tasks, UnlockTx(t)
    PROVE  WakeInv'
<1> USE DEF WakeInv
<1>1. /\ pc[t] = "unlockTx" /\ suspended = t /\ Go(t, "unlockRx") /\ cTxLock' = -1
      /\ UNCHANGED <<uxLength, storage, xTasksWaitingToSend, cRxLock, suspended, next, op>>
      /\ Unblock(TasksIn(FirstOf(xTasksWaitingToReceive, cTxLock)))
      /\ xTasksWaitingToReceive' = Rest(xTasksWaitingToReceive, cTxLock)
  BY DEF UnlockTx, Holds, queueUNLOCKED
<1>2. /\ \A u \in Tasks \ {t} : WillTry(u) => WillTry(u)'
      /\ pc' \in [Tasks -> QueuePlaces] /\ pc'[t] = "unlockRx"
      /\ \A u \in Tasks \ {t} : pc'[u] = pc[u]
  BY <1>1, OthersGoOn DEF QueuePlaces
<1>3. \A u \in Tasks : WillTry(u) => WillTry(u)'
  BY <1>1, <1>2 DEF WillTry
<1>4. cTxLock # -1 /\ cRxLock # -1 /\ \A u \in Tasks \ {t} : pc'[u] \notin Suspending
  BY <1>1, <1>2, Suspended
<1>5. /\ Mark("receive") \in Nat /\ Mark("receive")' = -1 /\ Mark("receive") = cTxLock
      /\ Mark("send")' = Mark("send")
  BY <1>1, <1>4, QueueAssumption DEF Mark, WaitInv, WaitTypes
<1>6. /\ Waiters("receive") = xTasksWaitingToReceive
      /\ Waiters("receive")' = xTasksWaitingToReceive'
      /\ Waiters("send")' = Waiters("send")
  BY <1>1 DEF Waiters
<1>7. /\ xTasksWaitingToSend' \in Seq(Tasks) /\ xTasksWaitingToReceive' \in Seq(Tasks)
      /\ blocked' \subseteq Tasks /\ WaitersOK' /\ BlockedOK'
      /\ \A s \in Sides : Reached(s)'
  BY <1>1, <1>3, <1>5, <1>6, UnlockedWakes DEF Sides
<1>8. LockedOK' /\ Seen'
  BY <1>1, <1>2, <1>4, StaysLocked DEF Suspending, Seen
<1>9. WaitInv'
  BY <1>1, <1>2, <1>7, <1>8, QueueAssumption DEF WaitInv, WaitTypes
<1> QED
  BY <1>7, <1>8, <1>9

LEMMA UnlockRxWakes ==
    ASSUME WakeInv, QueueInvariant, QueueInvariant', NEW t \in Tasks, UnlockRx(t)
    PROVE  WakeInv'
<1> USE DEF WakeInv
<1>1. /\ pc[t] = "unlockRx" /\ suspended = t /\ Go(t, "resume") /\ cRxLock' = -1
      /\ UNCHANGED <<uxLength, storage, xTasksWaitingToReceive, cTxLock, suspended, next, op>>
      /\ Unblock(TasksIn(FirstOf(xTasksWaitingToSend, cRxLock)))
      /\ xTasksWaitingToSend' = Rest(xTasksWaitingToSend, cRxLock)
  BY DEF UnlockRx, Holds, queueUNLOCKED
<1>2. /\ \A u \in Tasks \ {t} : WillTry(u) => WillTry(u)'
      /\ pc' \in [Tasks -> QueuePlaces] /\ pc'[t] = "resume"
      /\ \A u \in Tasks \ {t} : pc'[u] = pc[u]
  BY <1>1, OthersGoOn DEF QueuePlaces
<1>3. \A u \in Tasks : WillTry(u) => WillTry(u)'
  BY <1>1, <1>2 DEF WillTry
<1>4. cTxLock = -1 /\ cRxLock # -1 /\ \A u \in Tasks \ {t} : pc'[u] \notin Suspending
  BY <1>1, <1>2, Suspended
<1>5. /\ Mark("send") \in Nat /\ Mark("send")' = -1 /\ Mark("send") = cRxLock
      /\ Mark("receive")' = Mark("receive")
  BY <1>1, <1>4, QueueAssumption DEF Mark, WaitInv, WaitTypes
<1>6. /\ Waiters("send") = xTasksWaitingToSend /\ Waiters("send")' = xTasksWaitingToSend'
      /\ Waiters("receive")' = Waiters("receive")
  BY <1>1 DEF Waiters
<1>7. /\ xTasksWaitingToSend' \in Seq(Tasks) /\ xTasksWaitingToReceive' \in Seq(Tasks)
      /\ blocked' \subseteq Tasks /\ WaitersOK' /\ BlockedOK'
      /\ \A s \in Sides : Reached(s)'
  BY <1>1, <1>3, <1>5, <1>6, UnlockedWakes DEF Sides
<1>8. LockedOK' /\ Seen'
  BY <1>1, <1>2, <1>4, StaysLocked DEF Suspending, Seen
<1>9. WaitInv'
  BY <1>1, <1>2, <1>7, <1>8, QueueAssumption DEF WaitInv, WaitTypes
<1> QED
  BY <1>7, <1>8, <1>9

LEMMA ResumeWakes ==
    ASSUME WakeInv, QueueInvariant, QueueInvariant', NEW t \in Tasks, ResumeAll(t)
    PROVE  WakeInv'
<1> USE DEF WakeInv
<1>1. /\ pc[t] = "resume" /\ suspended = t /\ suspended' = NoTask
      /\ blocked' = blocked \ xPendingReadyList /\ xPendingReadyList' = {}
      /\ UNCHANGED <<uxLength, storage, locks, xTasksWaitingToSend, xTasksWaitingToReceive>>
      /\ next[t] \in {"try", "fail", "recheck"}
  BY DEF ResumeAll, Holds, WaitInv, WaitTypes
<1>2. /\ \A u \in Tasks \ {t} : (WillTry(u) => WillTry(u)') /\ (Sends(u)' <=> Sends(u))
      /\ next' \in [Tasks -> {"try", "fail", "recheck"}]
      /\ pc' \in [Tasks -> QueuePlaces] /\ pc'[t] \in {"idle", "try", "recheck"}
      /\ \A u \in Tasks \ {t} : pc'[u] = pc[u]
      /\ next[t] = "try" => pc'[t] = "try" /\ op' = op
  <2>1. CASE next[t] = "fail"
    <3>1. Return(t)
      BY <2>1 DEF ResumeAll
    <3> QED
      BY <2>1, <3>1, OthersGoOn DEF Return, QueuePlaces
  <2>2. CASE next[t] # "fail"
    <3>1. Go(t, next[t]) /\ UNCHANGED <<next, op>> /\ next[t] \in {"try", "recheck"}
      BY <1>1, <2>2 DEF ResumeAll
    <3>2. next[t] \in QueuePlaces
      BY <3>1 DEF QueuePlaces
    <3> QED
      BY <3>1, <3>2, OthersGoOn
  <2> QED
    BY <2>1, <2>2
<1>3. WillTry(t) => /\ WillTry(t)'
                    /\ Sends(t)' <=> Sends(t)
  <2>1. WillTry(t) => next[t] = "try"
    BY <1>1 DEF WillTry
  <2> QED
    BY <1>2, <2>1 DEF WillTry, Sends
<1>4. \A u \in Tasks : WillTry(u) =>
         /\ WillTry(u)'
         /\ \A s \in Sides : IsOf(u, s)' <=> IsOf(u, s)
  BY <1>2, <1>3 DEF IsOf
<1>5. \A s \in Sides : Waiters(s)' = Waiters(s)
  BY <1>1 DEF Waiters
<1>6. /\ \A s \in Sides : Once(Waiters(s))
      /\ \A s \in Sides : \A u \in TasksIn(Waiters(s)) :
            u \in blocked /\ u \notin xPendingReadyList /\ IsOf(u, s)
      /\ \A u \in blocked : WillTry(u) /\
            (u \in xPendingReadyList \/ \E s \in Sides : u \in TasksIn(Waiters(s)))
      /\ blocked \subseteq Tasks
  BY DEF WaitInv, WaitTypes, WaitersOK, BlockedOK
<1>7. WaitersOK'
  <2> SUFFICES ASSUME NEW s \in Sides, NEW u \in TasksIn(Waiters(s)')
               PROVE  u \in blocked' /\ u \notin xPendingReadyList' /\ IsOf(u, s)'
    BY <1>5, <1>6 DEF WaitersOK
  <2>1. u \in TasksIn(Waiters(s))
    BY <1>5
  <2>2. u \in blocked /\ u \notin xPendingReadyList /\ IsOf(u, s) /\ WillTry(u) /\ u \in Tasks
    BY <1>6, <2>1
  <2> QED
    BY <1>1, <1>4, <2>2
<1>8. BlockedOK'
  <2>1. ASSUME NEW u \in blocked'
        PROVE  WillTry(u)' /\
                 (u \in xPendingReadyList' \/ \E s \in Sides : u \in TasksIn(Waiters(s)'))
    <3>1. /\ u \in Tasks /\ WillTry(u)
          /\ \E s \in Sides : u \in TasksIn(Waiters(s))
      BY <1>1, <1>6, <2>1
    <3> QED
      BY <1>4, <1>5, <3>1
  <2> QED
    BY <1>1, <2>1 DEF BlockedOK
<1>9. /\ cTxLock = -1 /\ cRxLock = -1 /\ cTxLock' = -1 /\ cRxLock' = -1
      /\ \A u \in Tasks \ {t} : pc'[u] \notin Suspending
  BY <1>1, <1>2, Suspended DEF locks
<1>10. LockedOK' /\ Seen'
  BY <1>1, <1>2, <1>9, StaysLocked DEF Suspending, Seen
<1>11. WaitInv'
  <2>1. blocked' \subseteq Tasks
    BY <1>1, <1>6
  <2>2. xTasksWaitingToSend' \in Seq(Tasks) /\ xTasksWaitingToReceive' \in Seq(Tasks)
    BY <1>1 DEF WaitInv, WaitTypes
  <2> QED
    BY <1>1, <1>2, <1>7, <1>8, <1>9, <1>10, <2>1, <2>2, QueueAssumption DEF WaitInv, WaitTypes
<1>12. ASSUME NEW s \in Sides, NEW u \in Coming(s) PROVE u \in Coming(s)'
  <2>1. /\ u \in Tasks /\ u \notin TasksIn(Waiters(s)) /\ Wakes(u) /\ WillTry(u)
        /\ IsOf(u, s)
    BY <1>12 DEF Coming
  <2>2. u \notin TasksIn(Waiters(s)') /\ WillTry(u)' /\ IsOf(u, s)'
    BY <1>4, <1>5, <2>1
  <2>3. u \notin blocked'
    <3> SUFFICES ASSUME u \in blocked' PROVE FALSE
      OBVIOUS
    <3>1. u \in blocked /\ u \notin xPendingReadyList
      BY <1>1
    <3>2. PICK r \in Sides : u \in TasksIn(Waiters(r))
      BY <1>6, <3>1
    <3>3. IsOf(u, r)
      BY <1>6, <3>2
    <3>4. r = s
      BY <2>1, <3>3 DEF IsOf, Sides
    <3> QED
      BY <2>1, <3>2, <3>4
  <2> QED
    BY <2>1, <2>2, <2>3 DEF Coming, Wakes
<1>13. ASSUME NEW s \in Sides PROVE Reached(s)'
  <2>1. Available(s)' = Available(s) /\ Available(s) \in Nat
    <3>1. Available(s)' = Available(s)
      BY <1>1 DEF Available, storage
    <3> QED
      BY <3>1, AvailableType
  <2>2. Mark(s) = -1 /\ Mark(s)' = -1
    BY <1>9 DEF Mark
  <2>3. Coming(s) \subseteq Coming(s)'
    BY <1>12
  <2> QED
    BY <1>5, <2>1, <2>2, <2>3, StillReached
<1> QED
  BY <1>10, <1>11, <1>13

-------------------------------------------------------------------------------
\* The interrupts

\* An interrupt adds to one side, and takes from the other: it wakes one who waits, or
\* counts it in the lock.
LEMMA InterruptWakes ==
    ASSUME WakeInv, QueueInvariant, QueueInvariant', NEW side \in Sides,
           UNCHANGED control,
           Available(side)' = Available(side) + 1,
           \A s \in Sides \ {side} : /\ Available(s)' = Available(s) - 1
                                     /\ Waiters(s)' = Waiters(s) /\ Mark(s)' = Mark(s),
           IF Mark(side) = -1
           THEN /\ Unblock(TasksIn(FirstOf(Waiters(side), 1)))
                /\ Waiters(side)' = Rest(Waiters(side), 1) /\ Mark(side)' = Mark(side)
           ELSE Mark(side)' = Incremented(Mark(side)) /\ UNCHANGED events
    PROVE  WakeInv'
<1> USE DEF WakeInv
<1>1. /\ suspended' = suspended /\ pc' = pc /\ next' = next /\ op' = op
      /\ \A s \in Sides : Mark(s) \in -1..NumberOfTasks /\ Waiters(s) \in Seq(Tasks)
      /\ Mark("send") = cRxLock /\ Mark("receive") = cTxLock
      /\ Mark("send")' = cRxLock' /\ Mark("receive")' = cTxLock'
      /\ blocked \subseteq Tasks /\ pc \in [Tasks -> QueuePlaces]
      /\ next \in [Tasks -> {"try", "fail", "recheck"}] /\ suspended \in Tasks \cup {NoTask}
  BY DEF control, WaitInv, WaitTypes, Mark, Waiters, Sides
<1>2. \A u \in Tasks : /\ (WillTry(u) => WillTry(u)') /\ (Sends(u)' <=> Sends(u))
                       /\ \A s \in Sides : IsOf(u, s)' <=> IsOf(u, s)
  BY <1>1 DEF WillTry, Sends, IsOf
<1>3. \A s \in Sides : Available(s) \in Nat /\ Available(s)' \in Nat
  BY AvailableType
<1>4. \A s \in Sides : /\ Mark(s)' \in -1..NumberOfTasks
                       /\ Mark(s)' = -1 <=> Mark(s) = -1
  BY <1>1, QueueAssumption DEF Incremented
<1>5. LockedOK'
  <2>1. (cTxLock' = -1 <=> cTxLock = -1) /\ (cRxLock' = -1 <=> cRxLock = -1)
    BY <1>1, <1>4 DEF Sides
  <2> QED
    BY <1>1, <2>1 DEF WaitInv, LockedOK, queueUNLOCKED
<1>6. \A u \in Tasks : pc[u] = "place" => Mark(side) # -1
  BY <1>1 DEF WaitInv, LockedOK, queueUNLOCKED, Sides
<1>7. Seen'
  <2> SUFFICES ASSUME NEW u \in Tasks, NEW s \in Sides, pc'[u] = "place", IsOf(u, s)'
               PROVE  Available(s)' <= Mark(s)' \/ Mark(s)' = NumberOfTasks
    BY DEF Seen
  <2>1. pc[u] = "place" /\ IsOf(u, s)
    BY <1>1, <1>2
  <2>2. Available(s) <= Mark(s) \/ Mark(s) = NumberOfTasks
    BY <2>1 DEF Seen
  <2>3. CASE s = side
    <3>1. Mark(s)' = Incremented(Mark(s)) /\ Mark(s) \in -1..NumberOfTasks
      BY <1>1, <1>6, <2>1, <2>3
    <3> QED
      BY <1>3, <2>2, <2>3, <3>1, QueueAssumption DEF Incremented
  <2>4. CASE s # side
    BY <1>1, <1>3, <2>2, <2>4
  <2> QED
    BY <2>3, <2>4
<1>8. ASSUME Mark(side) = -1
      PROVE  /\ xTasksWaitingToSend' \in Seq(Tasks) /\ xTasksWaitingToReceive' \in Seq(Tasks)
             /\ blocked' \subseteq Tasks /\ WaitersOK' /\ BlockedOK'
             /\ \A s \in Sides : Coming(s) \subseteq Coming(s)'
             /\ Reached(side)'
  <2>1. PICK W :
          /\ xTasksWaitingToSend' \in Seq(Tasks) /\ xTasksWaitingToReceive' \in Seq(Tasks)
          /\ blocked' \subseteq Tasks /\ WaitersOK' /\ BlockedOK'
          /\ Len(Waiters(side)) <= 1 => Waiters(side)' = <<>>
          /\ \A s \in Sides : Coming(s) \cap Tasks \subseteq Coming(s)'
          /\ W \cap Coming(side) = {} /\ W \subseteq Coming(side)'
          /\ 1 <= Len(Waiters(side)) => Cardinality(W) = 1
    BY <1>1, <1>2, <1>8, WokenFacts
  <2>2. \A s \in Sides : Coming(s) \subseteq Coming(s)'
    BY <2>1 DEF Coming
  <2>3. NoTask \notin Coming(side) /\ NoTask \notin W
    BY <2>1, TasksAssumption DEF Coming
  <2>4. Available(side)' <= Available(side) + 1
    BY <1>3
  <2>5. Mark(side)' = -1
    BY <1>8
  <2>6. Reached(side)'
    BY <1>8, <2>1, <2>2, <2>3, <2>4, <2>5, OneWoken
  <2> QED
    BY <2>1, <2>2, <2>6
<1>9. ASSUME Mark(side) # -1
      PROVE  /\ xTasksWaitingToSend' \in Seq(Tasks) /\ xTasksWaitingToReceive' \in Seq(Tasks)
             /\ blocked' \subseteq Tasks /\ WaitersOK' /\ BlockedOK'
             /\ \A s \in Sides : Coming(s) \subseteq Coming(s)'
             /\ Reached(side)'
  <2>1. /\ xTasksWaitingToSend' \in Seq(Tasks) /\ xTasksWaitingToReceive' \in Seq(Tasks)
        /\ blocked' \subseteq Tasks /\ WaitersOK' /\ BlockedOK'
        /\ \A s \in Sides : /\ Waiters(s)' = Waiters(s)
                            /\ Coming(s) \cap Tasks \subseteq Coming(s)'
    BY <1>1, <1>2, <1>9, NobodyWoken
  <2>2. \A s \in Sides : Coming(s) \subseteq Coming(s)'
    BY <2>1 DEF Coming
  <2>3. Reached(side)'
    <3> SUFFICES ASSUME Waiters(side)' # <<>> PROVE Reached(side)'
      BY DEF Reached
    <3>1. /\ Cardinality(Coming(side)) \in Nat /\ Cardinality(Coming(side)') \in Nat
          /\ Cardinality(Coming(side)) <= Cardinality(Coming(side)')
      BY <2>2, ComingFinite, FS_Subset, FS_CardinalityType
    <3>2. Mark(side) \in 0..NumberOfTasks /\ Mark(side)' = Incremented(Mark(side))
      BY <1>1, <1>9, QueueAssumption
    <3>3. Len(Waiters(side)) <= NumberOfTasks /\ Len(Waiters(side)) \in Nat
      <4>1. PICK list : list = Waiters(side)
        OBVIOUS
      <4>2. list \in Seq(Tasks) /\ Once(list)
        BY <1>1, <4>1 DEF WaitInv, WaitersOK
      <4>3. Len(list) \in 0..Len(list) /\ Len(list) \in Nat
        BY <4>2
      <4>4. Len(list) <= NumberOfTasks
        BY <4>2, <4>3, ManyWoken
      <4> QED
        BY <4>1, <4>3, <4>4
    <3>4. \/ Available(side) <= Cardinality(Coming(side)) + Counted(Mark(side))
          \/ Mark(side) >= Len(Waiters(side))
      BY <2>1 DEF Reached
    <3>5. /\ Counted(Mark(side)) = Mark(side) /\ Counted(Mark(side)') = Mark(side)'
          /\ Mark(side)' = Mark(side) + 1 \/ (Mark(side)' = Mark(side) /\ Mark(side) = NumberOfTasks)
      BY <3>2, QueueAssumption DEF Counted, Incremented
    <3>6. \/ Available(side)' <= Cardinality(Coming(side)') + Counted(Mark(side)')
          \/ Mark(side)' >= Len(Waiters(side))
      BY <1>3, <3>1, <3>2, <3>3, <3>4, <3>5, QueueAssumption
    <3>7. Waiters(side)' = Waiters(side)
      BY <2>1
    <3> QED
      BY <3>6, <3>7 DEF Reached
  <2> QED
    BY <2>1, <2>2, <2>3
<1>10. WaitInv'
  <2>1. cTxLock' \in -1..NumberOfTasks /\ cRxLock' \in -1..NumberOfTasks
    BY <1>1, <1>4 DEF Sides
  <2> QED
    BY <1>1, <1>5, <1>8, <1>9, <2>1 DEF WaitInv, WaitTypes
<1>11. ASSUME NEW s \in Sides, s # side PROVE Reached(s)'
  <2>1. Waiters(s)' = Waiters(s) /\ Mark(s)' = Mark(s) /\ Mark(s)' \in Int
    BY <1>1, <1>11
  <2>2. Available(s)' <= Available(s)
    BY <1>3, <1>11
  <2>3. Coming(s) \subseteq Coming(s)'
    BY <1>8, <1>9
  <2> QED
    BY <2>1, <2>2, <2>3, StillReached
<1> QED
  BY <1>7, <1>8, <1>9, <1>10, <1>11

LEMMA SendFromISRWakes ==
    ASSUME WakeInv, QueueInvariant, QueueInvariant', NEW x, SendFromISR(x)
    PROVE  WakeInv'
<1>1. /\ Available("receive") = uxMessagesWaiting /\ Available("receive")' = uxMessagesWaiting'
      /\ Available("send") = uxLength - uxMessagesWaiting
      /\ Available("send")' = uxLength' - uxMessagesWaiting'
      /\ Waiters("receive") = xTasksWaitingToReceive
      /\ Waiters("receive")' = xTasksWaitingToReceive'
      /\ Waiters("send") = xTasksWaitingToSend /\ Waiters("send")' = xTasksWaitingToSend'
      /\ Mark("receive") = cTxLock /\ Mark("receive")' = cTxLock'
      /\ Mark("send") = cRxLock /\ Mark("send")' = cRxLock'
  BY DEF Available, Waiters, Mark
<1>2. /\ uxMessagesWaiting' = uxMessagesWaiting + 1 /\ uxLength' = uxLength
      /\ uxLength \in Nat /\ uxMessagesWaiting \in Nat
  BY DEF SendFromISR, CopyDataToQueue, QueueInvariant, Ring
<1>3. /\ Available("receive")' = Available("receive") + 1
      /\ Available("send")' = Available("send") - 1
  BY <1>1, <1>2
<1>4. UNCHANGED control /\ Waiters("send")' = Waiters("send") /\ Mark("send")' = Mark("send")
  BY <1>1 DEF SendFromISR, WakeReceiver, events
<1>5. IF Mark("receive") = -1
      THEN /\ Unblock(TasksIn(FirstOf(Waiters("receive"), 1)))
           /\ Waiters("receive")' = Rest(Waiters("receive"), 1)
           /\ Mark("receive")' = Mark("receive")
      ELSE Mark("receive")' = Incremented(Mark("receive")) /\ UNCHANGED events
  BY <1>1 DEF SendFromISR, WakeReceiver, queueUNLOCKED
<1> QED
  BY <1>3, <1>4, <1>5, InterruptWakes DEF Sides

LEMMA ReceiveFromISRWakes ==
    ASSUME WakeInv, QueueInvariant, QueueInvariant', ReceiveFromISR
    PROVE  WakeInv'
<1>1. /\ Available("receive") = uxMessagesWaiting /\ Available("receive")' = uxMessagesWaiting'
      /\ Available("send") = uxLength - uxMessagesWaiting
      /\ Available("send")' = uxLength' - uxMessagesWaiting'
      /\ Waiters("receive") = xTasksWaitingToReceive
      /\ Waiters("receive")' = xTasksWaitingToReceive'
      /\ Waiters("send") = xTasksWaitingToSend /\ Waiters("send")' = xTasksWaitingToSend'
      /\ Mark("receive") = cTxLock /\ Mark("receive")' = cTxLock'
      /\ Mark("send") = cRxLock /\ Mark("send")' = cRxLock'
  BY DEF Available, Waiters, Mark
<1>2. /\ uxMessagesWaiting' = uxMessagesWaiting - 1 /\ uxLength' = uxLength
      /\ uxLength \in Nat /\ uxMessagesWaiting \in Nat
  BY DEF ReceiveFromISR, CopyDataFromQueue, QueueInvariant, Ring
<1>3. /\ Available("send")' = Available("send") + 1
      /\ Available("receive")' = Available("receive") - 1
  BY <1>1, <1>2
<1>4. /\ UNCHANGED control /\ Waiters("receive")' = Waiters("receive")
      /\ Mark("receive")' = Mark("receive")
  BY <1>1 DEF ReceiveFromISR, WakeSender, events
<1>5. IF Mark("send") = -1
      THEN /\ Unblock(TasksIn(FirstOf(Waiters("send"), 1)))
           /\ Waiters("send")' = Rest(Waiters("send"), 1)
           /\ Mark("send")' = Mark("send")
      ELSE Mark("send")' = Incremented(Mark("send")) /\ UNCHANGED events
  BY <1>1 DEF ReceiveFromISR, WakeSender, queueUNLOCKED
<1> QED
  BY <1>3, <1>4, <1>5, InterruptWakes DEF Sides

LEMMA TickWakes ==
    ASSUME WakeInv, QueueInvariant, QueueInvariant', NEW t \in Tasks, Tick(t)
    PROVE  WakeInv'
<1> USE DEF WakeInv
<1>1. /\ suspended = NoTask /\ t \in blocked /\ blocked' = blocked \ {t}
      /\ UNCHANGED <<uxLength, storage, locks, xPendingReadyList, suspended, pc, next, op>>
      /\ \A s \in Sides : Waiters(s)' = Without(Waiters(s), t)
  BY DEF Tick, Waiters
<1>2. /\ \A s \in Sides : Waiters(s) \in Seq(Tasks) /\ Once(Waiters(s))
      /\ \A s \in Sides : \A u \in TasksIn(Waiters(s)) :
            u \in blocked /\ u \notin xPendingReadyList /\ IsOf(u, s)
      /\ \A u \in blocked : WillTry(u) /\
            (u \in xPendingReadyList \/ \E s \in Sides : u \in TasksIn(Waiters(s)))
      /\ blocked \subseteq Tasks
  BY DEF WaitInv, WaitTypes, WaitersOK, BlockedOK, Waiters
<1>3. ASSUME NEW s \in Sides
      PROVE  /\ Waiters(s)' \in Seq(Tasks) /\ Once(Waiters(s)')
             /\ TasksIn(Waiters(s)') = TasksIn(Waiters(s)) \ {t}
             /\ Waiters(s)' # <<>> => Waiters(s) # <<>>
  <2>1. PICK list : list = Waiters(s)
    OBVIOUS
  <2>2. PICK new : new = Without(list, t)
    OBVIOUS
  <2>3. list \in Seq(Tasks) /\ Once(list)
    BY <1>2, <2>1
  <2>4. CASE t \in TasksIn(list)
    <3>1. new \in Seq(Tasks) /\ Once(new) /\ TasksIn(new) = TasksIn(list) \ {t}
      BY <2>2, <2>3, <2>4, TasksAssumption, WithoutFacts
    <3>2. list # <<>>
      BY <2>4 DEF TasksIn
    <3> QED
      BY <1>1, <2>1, <2>2, <3>1, <3>2
  <2>5. CASE t \notin TasksIn(list)
    <3>1. new = list
      BY <2>2, <2>5 DEF Without
    <3>2. Waiters(s)' = Waiters(s)
      BY <1>1, <2>1, <2>2, <3>1
    <3> QED
      BY <2>1, <2>3, <2>5, <3>2
  <2> QED
    BY <2>4, <2>5
<1>4. \A u \in Tasks : /\ WillTry(u)' <=> WillTry(u)
                       /\ \A s \in Sides : IsOf(u, s)' <=> IsOf(u, s)
  BY <1>1 DEF WillTry, IsOf, Sends
<1>5. WaitersOK'
  <2> SUFFICES ASSUME NEW s \in Sides, NEW u \in TasksIn(Waiters(s)')
               PROVE  u \in blocked' /\ u \notin xPendingReadyList' /\ IsOf(u, s)'
    BY <1>3 DEF WaitersOK
  <2>1. u \in TasksIn(Waiters(s)) /\ u # t
    BY <1>3
  <2> QED
    BY <1>1, <1>2, <1>4, <2>1
<1>6. BlockedOK'
  <2>1. ASSUME NEW u \in blocked'
        PROVE  WillTry(u)' /\
                 (u \in xPendingReadyList' \/ \E s \in Sides : u \in TasksIn(Waiters(s)'))
    <3>1. u \in blocked /\ u # t /\ u \in Tasks
      BY <1>1, <1>2, <2>1
    <3>2. \A s \in Sides : u \in TasksIn(Waiters(s)) => u \in TasksIn(Waiters(s)')
      BY <1>3, <3>1
    <3> QED
      BY <1>1, <1>2, <1>4, <3>1, <3>2
  <2>2. xPendingReadyList' = {}
    BY <1>1, TaskUnsuspended
  <2> QED
    BY <2>1, <2>2 DEF BlockedOK
<1>7. /\ LockedOK' /\ Seen' /\ pc' \in [Tasks -> QueuePlaces]
      /\ cTxLock' = -1 /\ cRxLock' = -1 /\ suspended' = NoTask
      /\ \A side \in Sides : Mark(side)' = -1
  BY <1>1, MovesOn
<1>8. /\ \A side \in Sides : Mark(side) = -1
      /\ \A u \in Tasks : Wakes(u) <=> u \notin blocked
  BY <1>1, TaskUnsuspended
<1>9. WaitInv'
  <2>1. xTasksWaitingToSend' \in Seq(Tasks) /\ xTasksWaitingToReceive' \in Seq(Tasks)
    <3>1. /\ Waiters("send")' = xTasksWaitingToSend'
          /\ Waiters("receive")' = xTasksWaitingToReceive'
      BY DEF Waiters
    <3> QED
      BY <1>3, <3>1 DEF Sides
  <2>2. blocked' \subseteq Tasks
    BY <1>1, <1>2
  <2> QED
    BY <1>1, <1>5, <1>6, <1>7, <2>1, <2>2, QueueAssumption DEF WaitInv, WaitTypes
<1>10. ASSUME NEW s \in Sides, NEW u \in Coming(s) PROVE u \in Coming(s)'
  <2>1. u \in Tasks /\ u \notin TasksIn(Waiters(s)) /\ WillTry(u) /\ IsOf(u, s) /\ u \notin blocked
    BY <1>8, <1>10 DEF Coming
  <2>2. u \notin TasksIn(Waiters(s)') /\ WillTry(u)' /\ IsOf(u, s)' /\ u \notin blocked'
    BY <1>1, <1>3, <1>4, <2>1
  <2> QED
    BY <2>1, <2>2 DEF Coming, Wakes
<1>11. ASSUME NEW s \in Sides PROVE Reached(s)'
  <2>1. Available(s)' = Available(s) /\ Available(s) \in Nat
    <3>1. Available(s)' = Available(s)
      BY <1>1 DEF Available, storage
    <3> QED
      BY <3>1, AvailableType
  <2>2. Coming(s) \subseteq Coming(s)'
    BY <1>10
  <2> QED
    BY <1>3, <1>7, <1>8, <2>1, <2>2, StillReached
<1> QED
  BY <1>7, <1>9, <1>11

-------------------------------------------------------------------------------

LEMMA WakeStarts == ASSUME QueueInit PROVE WakeInv
<1>1. /\ suspended = NoTask /\ xPendingReadyList = {} /\ blocked = {}
      /\ pc = [t \in Tasks |-> "idle"] /\ next = [t \in Tasks |-> "try"]
      /\ cTxLock = -1 /\ cRxLock = -1
      /\ xTasksWaitingToSend = <<>> /\ xTasksWaitingToReceive = <<>>
  BY DEF QueueInit, TasksInit, Idle, QueueStart, queueUNLOCKED
<1>2. \A side : Waiters(side) = <<>>
  BY <1>1 DEF Waiters
<1>3. WaitTypes
  BY <1>1, QueueAssumption DEF WaitTypes, QueuePlaces
<1>4. WaitersOK
  BY <1>2 DEF WaitersOK, Once, TasksIn
<1>5. LockedOK
  BY <1>1, TasksAssumption DEF LockedOK, Suspending, queueUNLOCKED
<1>6. BlockedOK /\ Seen
  BY <1>1 DEF BlockedOK, Seen
<1>7. \A side \in Sides : Reached(side)
  BY <1>2 DEF Reached
<1> QED
  BY <1>3, <1>4, <1>5, <1>6, <1>7 DEF WakeInv, WaitInv

\* No item and no room is overlooked: whoever waits for one while there is one has
\* another task on its way to it before him, or is counted in the lock, and will be woken.
THEOREM NoWakeupIsLost == QueueSpec => []NoLostWakeup
<1>1. QueueInit => QueueInvariant /\ WakeInv
  BY QueueStarts, WakeStarts
<1>2. ASSUME QueueInvariant, WakeInv, [QueueNext]_queueVars
      PROVE  QueueInvariant' /\ WakeInv'
  <2>1. CASE QueueNext
    <3>1. QueueInvariant'
      BY <1>2, <2>1, QueueStep
    <3>2. ASSUME NEW t \in Tasks, Call(t) \/ Step(t) \/ Tick(t) PROVE WakeInv'
      <4>1. CASE Call(t)
        BY <1>2, <3>1, <4>1, CallWakes
      <4>2. CASE Send(t)
        BY <1>2, <3>1, <4>2, SendWakes
      <4>3. CASE Receive(t)
        BY <1>2, <3>1, <4>3, ReceiveWakes
      <4>4. CASE Peek(t)
        BY <1>2, <3>1, <4>4, PeekWakes
      <4>5. CASE Refused(t)
        BY <1>2, <3>1, <4>5, RefusedWakes
      <4>6. CASE SuspendAll(t)
        BY <1>2, <3>1, <4>6, SuspendWakes
      <4>7. CASE LockQueue(t)
        BY <1>2, <3>1, <4>7, LockWakes
      <4>8. CASE Check(t)
        BY <1>2, <3>1, <4>8, CheckWakes
      <4>9. CASE Place(t)
        BY <1>2, <3>1, <4>9, PlaceWakes
      <4>10. CASE UnlockTx(t)
        BY <1>2, <3>1, <4>10, UnlockTxWakes
      <4>11. CASE UnlockRx(t)
        BY <1>2, <3>1, <4>11, UnlockRxWakes
      <4>12. CASE ResumeAll(t)
        BY <1>2, <3>1, <4>12, ResumeWakes
      <4>13. CASE Recheck(t)
        BY <1>2, <3>1, <4>13, RecheckWakes
      <4>14. CASE Tick(t)
        BY <1>2, <3>1, <4>14, TickWakes
      <4> QED
        BY <3>2, <4>1, <4>2, <4>3, <4>4, <4>5, <4>6, <4>7, <4>8, <4>9, <4>10, <4>11,
           <4>12, <4>13, <4>14 DEF Step
    <3>3. ASSUME ReceiveFromISR PROVE WakeInv'
      BY <1>2, <3>1, <3>3, ReceiveFromISRWakes
    <3>4. ASSUME NEW x \in ISRItems, SendFromISR(x) PROVE WakeInv'
      BY <1>2, <3>1, <3>4, SendFromISRWakes
    <3> QED
      BY <2>1, <3>1, <3>2, <3>3, <3>4 DEF QueueNext
  <2>2. CASE UNCHANGED queueVars
    <3>1. QueueInvariant'
      BY <1>2, <2>2, Untouched, OffersKept DEF queueVars, control, QueueInvariant
    <3>2. WakeInv'
      BY <1>2, <2>2 DEF queueVars, storage, locks, events, control, WakeInv, WaitInv,
         WaitTypes, WaitersOK, BlockedOK, LockedOK, Seen, Reached, Waiters, Available, Mark,
         Coming, IsOf, Wakes, WillTry, Sends
    <3> QED
      BY <3>1, <3>2
  <2> QED
    BY <1>2, <2>1, <2>2
<1>3. WakeInv => NoLostWakeup
  <2> SUFFICES ASSUME WakeInv PROVE NoLostWakeup
    OBVIOUS
  <2>1. Reached("receive") /\ Reached("send")
    BY DEF WakeInv, Sides
  <2>2. Coming("receive") = Takers /\ Coming("send") = Givers
    BY DEF Coming, Takers, Givers, Waiters, IsOf
  <2> QED
    BY <2>1, <2>2 DEF Reached, NoLostWakeup, Waiters, Available, Mark
<1> QED
  BY <1>1, <1>2, <1>3, PTL DEF QueueSpec

-------------------------------------------------------------------------------
\* Mutexes: the invariant.
\*
\* The kernel raises the holder of the mutex a task waits for and no other: if the
\* holder waits for a second mutex itself, that one's holder is not raised with it, and
\* the order of the list it waits in is out of date.  The program has no such chain,
\* since the only mutex under which another one is taken is Storage::mStoreAccess, and
\* one task alone takes it: OuterUncontended, the hypothesis of the theorems.

Places == {"idle", "sleep", "asleep", "take", "block", "waiting", "over", "disinherit"}
Wanting == {"take", "block", "waiting", "over", "disinherit"}
Busy(t) == pc[t] \in Wanting

\* What a task holds is the beginning of one of its nests,
Begins(nest, t) == \A i \in 1..Len(held[t]) : held[t][i] = nest[i]
HoldsOfNest(t) == \E nest \in Nests[t] : Len(held[t]) <= Len(nest) /\ Begins(nest, t)

\* and m is the next of it.
NextOfNest(t, m) == \E nest \in Nests[t] :
    Len(held[t]) < Len(nest) /\ Begins(nest, t) /\ m = nest[Len(held[t]) + 1]

MutexTypes ==
    /\ pc \in [Tasks -> Places]
    /\ uxPriority \in [Tasks -> Nat]
    /\ xMutexHolder \in [Mutexes -> Tasks \cup {NoTask}]
    /\ waiting \in [Mutexes -> Seq(Tasks)]
    /\ held \in [Tasks -> Seq(Mutexes)]
    /\ want \in [Tasks -> Mutexes \cup {NoMutex}]

Nesting == \A t \in Tasks :
    /\ held[t] # <<>> => HoldsOfNest(t)
    /\ Busy(t) => NextOfNest(t, want[t])
    /\ ~Busy(t) => want[t] = NoMutex

Holding ==
    /\ \A t \in Tasks : \A i \in 1..Len(held[t]) : xMutexHolder[held[t][i]] = t
    /\ \A m \in Mutexes : xMutexHolder[m] # NoTask =>
          \E i \in 1..Len(held[xMutexHolder[m]]) : held[xMutexHolder[m]][i] = m
    /\ \A t \in Tasks : Once(held[t])

\* Who is in the list of a mutex waits for it, and the other way round.
Listed ==
    /\ \A m \in Mutexes : Once(waiting[m]) /\ InOrder(waiting[m], uxPriority)
    /\ \A m \in Mutexes : \A u \in TasksIn(waiting[m]) : pc[u] = "waiting" /\ want[u] = m
    /\ \A u \in Tasks : pc[u] = "waiting" => u \in TasksIn(waiting[want[u]])

OwnPriority == \A t \in Tasks :
    Priority[t] <= uxPriority[t] /\ (held[t] = <<>> => uxPriority[t] = Priority[t])

Inherits == \A m \in Mutexes : xMutexHolder[m] # NoTask =>
    \A u \in TasksIn(waiting[m]) : uxPriority[u] <= uxPriority[xMutexHolder[m]]

\* Whoever takes a mutex that others wait for has at least their priorities: the task
\* that was woken for it is ready until it did.
Heir(m, u) ==
    /\ pc[u] = "take" /\ want[u] = m
    /\ \A v \in TasksIn(waiting[m]) : uxPriority[v] <= uxPriority[u]
Heirs == \A m \in Mutexes :
    xMutexHolder[m] = NoTask /\ waiting[m] # <<>> => \E u \in Tasks : Heir(m, u)

ShareInv == MutexTypes /\ Nesting /\ Holding /\ Listed /\ OwnPriority /\ Inherits /\ Heirs

\* The timeouts.
TicksTyped ==
    /\ xTicksToWait \in [Tasks -> {"none", "finite", "forever", "elapsed"}]
    /\ xInheritanceOccurred \in [Tasks -> BOOLEAN]

\* A task that waits, or will take back what it lent.
Owes(u, t) ==
    /\ Busy(u) /\ xMutexHolder[want[u]] = t
    /\ uxPriority[t] <= uxPriority[u]
    /\ \/ pc[u] = "waiting"
       \/ xInheritanceOccurred[u] /\ ~(pc[u] = "take" /\ xTicksToWait[u] = "none")
Lent == \A t \in Tasks : NestsNothing(t) =>
    uxPriority[t] = Priority[t] \/ \E u \in Tasks : Owes(u, t)

\* Who waits knows whether it lends.
Noted == \A u, t \in Tasks :
    pc[u] = "waiting" /\ xMutexHolder[want[u]] = t /\ NestsNothing(t) /\ Priority[t] < uxPriority[u]
        => xInheritanceOccurred[u]
LentInv == Lent /\ Noted

-------------------------------------------------------------------------------
\* The steps, one by one.

\* A mutex that is wanted is not held by a task that wants another one.
LEMMA HolderWantsNothing ==
    ASSUME OuterUncontended, MutexTypes, Nesting, Holding,
           NEW t \in Tasks, Busy(t), xMutexHolder[want[t]] # NoTask
    PROVE  /\ want[t] \in Mutexes /\ xMutexHolder[want[t]] \in Tasks
           /\ Busy(xMutexHolder[want[t]]) => xMutexHolder[want[t]] = t
<1>1. PICK nest \in Nests[t] :
          Len(held[t]) < Len(nest) /\ want[t] = nest[Len(held[t]) + 1]
  BY DEF Nesting, NextOfNest
<1>2. Nests \in [Tasks -> SUBSET Seq(Mutexes)] /\ held \in [Tasks -> Seq(Mutexes)]
  BY MutexAssumption DEF MutexTypes
<1>3. nest \in Seq(Mutexes) /\ Len(held[t]) \in Nat /\ Len(nest) \in Nat
  BY <1>1, <1>2
<1>4. Len(held[t]) + 1 \in 1..Len(nest)
  BY <1>1, <1>3
<1>5. want[t] \in Mutexes
  BY <1>1, <1>3, <1>4
<1>6. PICK m, h : m = want[t] /\ h = xMutexHolder[m]
  OBVIOUS
<1>7. h \in Tasks
  BY <1>5, <1>6 DEF MutexTypes
<1>8. ASSUME Busy(h), h # t PROVE FALSE
  <2>1. PICK i \in 1..Len(held[h]) : held[h][i] = m
    BY <1>5, <1>6 DEF Holding
  <2>2. PICK other \in Nests[h] : Len(held[h]) < Len(other) /\ held[h][i] = other[i]
    BY <1>7, <1>8, <2>1 DEF Nesting, NextOfNest, Begins
  <2>3. other \in Seq(Mutexes) /\ Len(held[h]) \in Nat /\ Len(other) \in Nat
    BY <1>2, <1>7, <2>2
  <2>4. i \in 1..(Len(other) - 1)
    BY <2>1, <2>2, <2>3
  <2>5. nest[Len(held[t]) + 1] # other[i]
    BY <1>1, <1>4, <1>7, <1>8, <2>2, <2>4 DEF OuterUncontended
  <2> QED
    BY <1>1, <1>6, <2>1, <2>2, <2>5
<1> QED
  BY <1>5, <1>6, <1>7, <1>8

\* Steps that only move a task, which does not leave a mutex that is free to nobody.
LEMMA MovesShare ==
    ASSUME ShareInv, NEW t \in Tasks, NEW p \in Places \ {"waiting"},
           NEW m \in Mutexes \cup {NoMutex},
           pc[t] # "waiting", pc' = [pc EXCEPT ![t] = p], want' = [want EXCEPT ![t] = m],
           UNCHANGED <<uxPriority, xMutexHolder, waiting, held>>,
           pc[t] = "take" /\ (p # "take" \/ m # want[t]) => xMutexHolder[want[t]] # NoTask,
           p \in Wanting => NextOfNest(t, m), p \notin Wanting => m = NoMutex
    PROVE  ShareInv'
<1>1. pc \in [Tasks -> Places] /\ want \in [Tasks -> Mutexes \cup {NoMutex}]
  BY DEF ShareInv, MutexTypes
<1>2. MutexTypes'
  BY <1>1 DEF ShareInv, MutexTypes
<1>3. \A u \in Tasks : /\ u # t => pc'[u] = pc[u] /\ want'[u] = want[u]
                       /\ pc'[t] = p /\ want'[t] = m
  BY <1>1
<1>4. \A u \in Tasks : HoldsOfNest(u)' <=> HoldsOfNest(u)
  BY DEF HoldsOfNest, Begins
<1>5. Nesting'
  <2> SUFFICES ASSUME NEW u \in Tasks
               PROVE  /\ held'[u] # <<>> => HoldsOfNest(u)'
                      /\ pc'[u] \in Wanting => NextOfNest(u, want[u])'
                      /\ pc'[u] \notin Wanting => want'[u] = NoMutex
    BY DEF Nesting, Busy
  <2>1. CASE u = t
    <3>1. NextOfNest(t, want[t])' <=> NextOfNest(t, m)
      BY <1>3 DEF NextOfNest, Begins
    <3> QED
      BY <1>3, <1>4, <2>1, <3>1 DEF ShareInv, Nesting
  <2>2. CASE u # t
    <3>1. NextOfNest(u, want[u])' <=> NextOfNest(u, want[u])
      BY <1>3, <2>2 DEF NextOfNest, Begins
    <3> QED
      BY <1>3, <1>4, <2>2, <3>1 DEF ShareInv, Nesting, Busy
  <2> QED
    BY <2>1, <2>2
<1>6. Holding'
  BY DEF ShareInv, Holding, Once
<1>7. Listed'
  <2>1. \A n \in Mutexes : \A u \in TasksIn(waiting[n]) : u \in Tasks /\ u # t
    BY <1>1 DEF ShareInv, MutexTypes, Listed, TasksIn
  <2> QED
    BY <1>3, <2>1 DEF ShareInv, Listed, Once, InOrder, TasksIn
<1>8. OwnPriority' /\ Inherits'
  BY DEF ShareInv, OwnPriority, Inherits, TasksIn
<1>9. Heirs'
  <2> SUFFICES ASSUME NEW n \in Mutexes, xMutexHolder[n] = NoTask, waiting[n] # <<>>
               PROVE  \E u \in Tasks : Heir(n, u)'
    BY DEF Heirs
  <2>1. PICK u \in Tasks : Heir(n, u)
    BY DEF ShareInv, Heirs
  <2>2. pc'[u] = "take" /\ want'[u] = n
    BY <1>3, <2>1 DEF Heir
  <2> QED
    BY <2>1, <2>2 DEF Heir, TasksIn
<1> QED
  BY <1>2, <1>5, <1>6, <1>7, <1>8, <1>9 DEF ShareInv

\* A call begins.
LEMMA LockShare ==
    ASSUME ShareInv, NEW t \in Tasks, Lock(t)
    PROVE  ShareInv'
<1>1. PICK nest \in Nests[t] :
          /\ Len(held[t]) < Len(nest) /\ held[t] = SubSeq(nest, 1, Len(held[t]))
          /\ want' = [want EXCEPT ![t] = nest[Len(held[t]) + 1]]
  BY DEF Lock
<1>2. /\ pc[t] = "idle" /\ pc' = [pc EXCEPT ![t] = "take"]
      /\ UNCHANGED <<uxPriority, xMutexHolder, waiting, held>>
  BY DEF Lock, Go
<1>3. nest \in Seq(Mutexes) /\ held[t] \in Seq(Mutexes) /\ Len(held[t]) \in Nat
  BY MutexAssumption DEF ShareInv, MutexTypes
<1>4. Len(held[t]) + 1 \in 1..Len(nest)
  BY <1>1, <1>3
<1>5. nest[Len(held[t]) + 1] \in Mutexes
  BY <1>3, <1>4
<1>6. \A i \in 1..Len(held[t]) : held[t][i] = nest[i]
  BY <1>1, <1>3
<1>7. NextOfNest(t, nest[Len(held[t]) + 1])
  BY <1>1, <1>6 DEF NextOfNest, Begins
<1> QED
  BY <1>1, <1>2, <1>5, <1>7, MovesShare DEF Places, Wanting

\* The steps of a call that neither take the mutex nor wait for it.
LEMMA CallStepShare ==
    ASSUME ShareInv, NEW t \in Tasks,
           \/ TakeAtOnce(t) \/ TimeIsOver(t) \/ LookOnceMore(t)
           \/ TakeInTime(t) /\ ~Free(t)
           \/ BlockFor(t) /\ Free(t)
    PROVE  ShareInv'
<1>1. pc \in [Tasks -> Places] /\ want \in [Tasks -> Mutexes \cup {NoMutex}]
  BY DEF ShareInv, MutexTypes
<1>2. want' = [want EXCEPT ![t] = want'[t]] /\ pc' = [pc EXCEPT ![t] = pc'[t]]
  BY <1>1 DEF TakeAtOnce, TimeIsOver, LookOnceMore, TakeInTime, BlockFor, SemaphoreTake,
              BlockOnMutex, Fail, Go, Free, mutexVars
<1>3. UNCHANGED <<uxPriority, xMutexHolder, waiting, held>>
  BY DEF TakeAtOnce, TimeIsOver, LookOnceMore, TakeInTime, BlockFor, SemaphoreTake,
         BlockOnMutex, Free, mutexVars
<1>4. /\ pc[t] \in {"take", "block", "over"}
      /\ pc[t] = "take" => xMutexHolder[want[t]] # NoTask
      /\ \/ pc'[t] = "idle" /\ want'[t] = NoMutex
         \/ pc'[t] \in {"take", "block", "over", "disinherit"} /\ want'[t] = want[t]
  BY <1>1 DEF TakeAtOnce, TimeIsOver, LookOnceMore, TakeInTime, BlockFor, SemaphoreTake,
              BlockOnMutex, Fail, Go, Free, mutexVars
<1>5. NextOfNest(t, want[t])
  BY <1>4 DEF ShareInv, Nesting, Busy, Wanting
<1>6. want'[t] \in Mutexes \cup {NoMutex} /\ pc'[t] \in Places \ {"waiting"}
  BY <1>1, <1>4 DEF Places
<1> QED
  BY <1>2, <1>3, <1>4, <1>5, <1>6, MovesShare DEF Places, Wanting

\* The task waits for something else, or got it.
LEMMA SleepShare ==
    ASSUME ShareInv, NEW t \in Tasks, pc[t] \in {"idle", "sleep", "asleep"},
           NEW p \in {"idle", "sleep", "asleep"}, pc' = [pc EXCEPT ![t] = p],
           UNCHANGED mutexVars
    PROVE  ShareInv'
<1>1. want \in [Tasks -> Mutexes \cup {NoMutex}]
  BY DEF ShareInv, MutexTypes
<1>2. want[t] = NoMutex
  BY DEF ShareInv, Nesting, Busy, Wanting
<1>3. want' = [want EXCEPT ![t] = NoMutex]
  BY <1>1, <1>2 DEF mutexVars
<1>4. UNCHANGED <<uxPriority, xMutexHolder, waiting, held>>
  BY DEF mutexVars
<1> QED
  BY <1>1, <1>3, <1>4, MovesShare DEF Places, Wanting

\* Who is in a call wants a mutex.
LEMMA WantedFacts ==
    ASSUME MutexTypes, Nesting, NEW t \in Tasks, Busy(t)
    PROVE  want[t] \in Mutexes /\ want[t] # NoMutex
<1>1. PICK nest \in Nests[t] :
          Len(held[t]) < Len(nest) /\ want[t] = nest[Len(held[t]) + 1]
  BY DEF Nesting, NextOfNest
<1>2. nest \in Seq(Mutexes) /\ held[t] \in Seq(Mutexes)
  BY MutexAssumption DEF MutexTypes
<1>3. Len(held[t]) \in Nat /\ Len(held[t]) + 1 \in 1..Len(nest)
  BY <1>1, <1>2
<1>4. want[t] \in Mutexes
  BY <1>1, <1>2, <1>3
<1> QED
  BY <1>4, MutexAssumption

\* Whoever is in the list of a mutex waits there.
LEMMA ListedFacts ==
    ASSUME MutexTypes, Listed, NEW m \in Mutexes, NEW u \in TasksIn(waiting[m])
    PROVE  u \in Tasks /\ pc[u] = "waiting" /\ want[u] = m /\ Busy(u)
<1>1. u \in Tasks
  BY DEF MutexTypes, TasksIn
<1> QED
  BY <1>1 DEF Listed, Busy, Wanting

\* The task takes the mutex.
LEMMA TakeShare ==
    ASSUME ShareInv, NEW t \in Tasks, Running(t), SemaphoreTake(t), Free(t)
    PROVE  ShareInv'
<1> DEFINE m == want[t]
<1>1. pc[t] = "take" /\ Busy(t) /\ xMutexHolder[m] = NoTask
  BY DEF SemaphoreTake, Free, Busy, Wanting
<1>2. m \in Mutexes
  BY <1>1, WantedFacts DEF ShareInv
<1>3. /\ xMutexHolder' = [xMutexHolder EXCEPT ![m] = t]
      /\ held' = [held EXCEPT ![t] = Append(held[t], m)]
      /\ want' = [want EXCEPT ![t] = NoMutex] /\ pc' = [pc EXCEPT ![t] = "idle"]
      /\ UNCHANGED <<uxPriority, waiting>>
  BY DEF SemaphoreTake, Free, Go
<1>4. /\ pc \in [Tasks -> Places] /\ uxPriority \in [Tasks -> Nat]
      /\ xMutexHolder \in [Mutexes -> Tasks \cup {NoTask}] /\ waiting \in [Mutexes -> Seq(Tasks)]
      /\ held \in [Tasks -> Seq(Mutexes)] /\ want \in [Tasks -> Mutexes \cup {NoMutex}]
  BY DEF ShareInv, MutexTypes
<1>5. /\ Len(held[t]) \in Nat /\ held'[t] \in Seq(Mutexes) /\ Len(held'[t]) = Len(held[t]) + 1
      /\ \A i \in 1..Len(held[t]) : held'[t][i] = held[t][i]
      /\ held'[t][Len(held[t]) + 1] = m /\ held'[t] # <<>>
  <2>1. held[t] \in Seq(Mutexes) /\ held'[t] = Append(held[t], m)
    BY <1>3, <1>4
  <2>2. PICK old \in Seq(Mutexes) : old = held[t]
    BY <2>1
  <2>3. PICK mx \in Mutexes : mx = m
    BY <1>2
  <2>4. PICK new : new = Append(old, mx)
    OBVIOUS
  <2>5. /\ Len(old) \in Nat /\ new \in Seq(Mutexes) /\ Len(new) = Len(old) + 1
        /\ \A i \in 1..Len(old) : new[i] = old[i]
        /\ new[Len(old) + 1] = mx /\ new # <<>>
    BY <2>4
  <2> QED
    BY <2>1, <2>2, <2>3, <2>4, <2>5
<1>6. /\ pc'[t] = "idle" /\ want'[t] = NoMutex /\ xMutexHolder'[m] = t
      /\ \A u \in Tasks \ {t} : pc'[u] = pc[u] /\ want'[u] = want[u] /\ held'[u] = held[u]
      /\ \A n \in Mutexes \ {m} : xMutexHolder'[n] = xMutexHolder[n]
  BY <1>2, <1>3, <1>4
<1>7. t # NoTask /\ \A n \in Mutexes : xMutexHolder[n] # NoTask => n # m
  BY <1>1, TasksAssumption
<1>8. MutexTypes'
  BY <1>2, <1>3, <1>4 DEF ShareInv, MutexTypes, Places
<1>9. Nesting'
  <2> SUFFICES ASSUME NEW u \in Tasks
               PROVE  /\ held'[u] # <<>> => HoldsOfNest(u)'
                      /\ pc'[u] \in Wanting => NextOfNest(u, want[u])'
                      /\ pc'[u] \notin Wanting => want'[u] = NoMutex
    BY DEF Nesting, Busy
  <2>1. CASE u = t
    <3>1. PICK nest \in Nests[t] : Len(held[t]) < Len(nest) /\ Begins(nest, t) /\ m = nest[Len(held[t]) + 1]
      BY <1>1 DEF ShareInv, Nesting, NextOfNest
    <3>2. nest \in Seq(Mutexes)
      BY MutexAssumption
    <3>3. Len(held'[t]) <= Len(nest) /\ \A i \in 1..Len(held'[t]) : held'[t][i] = nest[i]
      <4>1. PICK n, old, new :
                /\ n = Len(held[t]) /\ old = held[t] /\ new = held'[t]
                /\ n \in Nat /\ Len(new) = n + 1
        BY <1>5
      <4>2. /\ Len(nest) \in Nat /\ n < Len(nest) /\ new[n + 1] = nest[n + 1]
            /\ \A i \in 1..n : new[i] = nest[i]
        BY <1>5, <3>1, <3>2, <4>1 DEF Begins
      <4>3. Len(new) <= Len(nest) /\ \A i \in 1..Len(new) : new[i] = nest[i]
        BY <4>1, <4>2
      <4> QED
        BY <4>1, <4>3
    <3>4. HoldsOfNest(t)'
      BY <3>3 DEF HoldsOfNest, Begins
    <3> QED
      BY <1>6, <2>1, <3>4 DEF Wanting
  <2>2. CASE u # t
    <3>1. held'[u] = held[u] /\ pc'[u] = pc[u] /\ want'[u] = want[u]
      BY <1>6, <2>2
    <3> QED
      BY <3>1 DEF ShareInv, Nesting, Busy, HoldsOfNest, NextOfNest, Begins
  <2> QED
    BY <2>1, <2>2
<1>10. Holding'
  <2>1. ASSUME NEW u \in Tasks, NEW i \in 1..Len(held'[u]) PROVE xMutexHolder'[held'[u][i]] = u
    <3>1. CASE u = t /\ i = Len(held[t]) + 1
      BY <1>5, <1>6, <3>1
    <3>2. CASE u # t \/ i # Len(held[t]) + 1
      <4>1. i \in 1..Len(held[u]) /\ held'[u][i] = held[u][i]
        BY <1>5, <1>6, <2>1, <3>2
      <4>2. xMutexHolder[held[u][i]] = u /\ held[u][i] \in Mutexes
        BY <1>4, <4>1 DEF ShareInv, Holding
      <4> QED
        BY <1>6, <1>7, <4>1, <4>2, TasksAssumption
    <3> QED
      BY <3>1, <3>2
  <2>2. ASSUME NEW n \in Mutexes, xMutexHolder'[n] # NoTask
        PROVE  \E i \in 1..Len(held'[xMutexHolder'[n]]) : held'[xMutexHolder'[n]][i] = n
    <3>1. CASE n = m
      <4>1. Len(held[t]) + 1 \in 1..Len(held'[t])
        BY <1>5
      <4> QED
        BY <1>5, <1>6, <3>1, <4>1
    <3>2. CASE n # m
      <4>1. xMutexHolder'[n] = xMutexHolder[n] /\ xMutexHolder[n] \in Tasks
        BY <1>4, <1>6, <2>2, <3>2
      <4>2. PICK i \in 1..Len(held[xMutexHolder[n]]) : held[xMutexHolder[n]][i] = n
        BY <2>2, <4>1 DEF ShareInv, Holding
      <4>3. i \in 1..Len(held'[xMutexHolder[n]]) /\ held'[xMutexHolder[n]][i] = n
        BY <1>5, <1>6, <4>1, <4>2
      <4> QED
        BY <4>1, <4>3
    <3> QED
      BY <3>1, <3>2
  <2>3. ASSUME NEW u \in Tasks PROVE Once(held'[u])
    <3>1. CASE u = t
      <4>1. \A i \in 1..Len(held[t]) : held[t][i] # m
        BY <1>1, TasksAssumption DEF ShareInv, Holding
      <4> SUFFICES ASSUME NEW i \in 1..Len(held'[t]), NEW j \in 1..Len(held'[t]),
                          held'[t][i] = held'[t][j]
                   PROVE  i = j
        BY <3>1 DEF Once
      <4>2. i \in 1..Len(held[t]) \/ i = Len(held[t]) + 1
        BY <1>5
      <4>3. j \in 1..Len(held[t]) \/ j = Len(held[t]) + 1
        BY <1>5
      <4> QED
        BY <1>5, <4>1, <4>2, <4>3 DEF ShareInv, Holding, Once
    <3>2. CASE u # t
      BY <1>6, <3>2 DEF ShareInv, Holding
    <3> QED
      BY <3>1, <3>2
  <2> QED
    BY <2>1, <2>2, <2>3 DEF Holding, Once
<1>11. \A n \in Mutexes : \A u \in TasksIn(waiting[n]) : u \in Tasks \ {t} /\ pc[u] = "waiting" /\ want[u] = n
  BY <1>1, ListedFacts DEF ShareInv
<1>12. Listed'
  BY <1>3, <1>6, <1>11 DEF ShareInv, Listed, Once, InOrder, TasksIn
<1>13. OwnPriority'
  BY <1>3, <1>5, <1>6 DEF ShareInv, OwnPriority
<1>14. Inherits'
  <2> SUFFICES ASSUME NEW n \in Mutexes, xMutexHolder'[n] # NoTask, NEW u \in TasksIn(waiting[n])
               PROVE  uxPriority[u] <= uxPriority[xMutexHolder'[n]]
    BY <1>3 DEF Inherits, TasksIn
  <2>1. CASE n = m
    <3>1. waiting[m] # <<>>
      BY <2>1 DEF TasksIn
    <3>2. PICK v \in Tasks : Heir(m, v)
      BY <1>1, <1>2, <3>1 DEF ShareInv, Heirs
    <3>3. uxPriority[v] <= uxPriority[t]
      BY <3>2 DEF Heir, Running, Ready
    <3>4. uxPriority[u] <= uxPriority[v]
      BY <2>1, <3>2 DEF Heir
    <3>5. uxPriority[u] \in Nat /\ uxPriority[v] \in Nat /\ uxPriority[t] \in Nat
      BY <1>4, <1>11, <3>2
    <3> QED
      BY <1>6, <2>1, <3>3, <3>4, <3>5
  <2>2. CASE n # m
    BY <1>6, <2>2 DEF ShareInv, Inherits
  <2> QED
    BY <2>1, <2>2
<1>15. Heirs'
  <2> SUFFICES ASSUME NEW n \in Mutexes, xMutexHolder'[n] = NoTask, waiting[n] # <<>>
               PROVE  \E u \in Tasks : Heir(n, u)'
    BY <1>3 DEF Heirs
  <2>1. n # m /\ xMutexHolder[n] = NoTask
    BY <1>6, <1>7
  <2>2. PICK u \in Tasks : Heir(n, u)
    BY <2>1 DEF ShareInv, Heirs
  <2>3. u # t
    BY <2>1, <2>2 DEF Heir
  <2> QED
    BY <1>3, <1>6, <2>2, <2>3 DEF Heir, TasksIn
<1> QED
  BY <1>8, <1>9, <1>10, <1>12, <1>13, <1>14, <1>15 DEF ShareInv

\* The task waits for the mutex, and lends the holder its priority.
LEMMA BlockShare ==
    ASSUME OuterUncontended, ShareInv, NEW t \in Tasks, BlockOnMutex(t), ~Free(t)
    PROVE  ShareInv'
<1> DEFINE m == want[t]
           h == xMutexHolder[m]
<1>1. pc[t] = "block" /\ Busy(t) /\ h # NoTask
  BY DEF BlockOnMutex, Free, Busy, Wanting
<1>2. m \in Mutexes /\ h \in Tasks /\ (Busy(h) => h = t)
  BY <1>1, HolderWantsNothing DEF ShareInv
<1>3. /\ uxPriority' = PriorityInherit(h, t)
      /\ waiting' = [waiting EXCEPT ![m] = vListInsert(waiting[m], t, uxPriority)]
      /\ pc' = [pc EXCEPT ![t] = "waiting"]
      /\ UNCHANGED <<xMutexHolder, held, want>>
  BY DEF BlockOnMutex, Free, Go
<1>4. /\ pc \in [Tasks -> Places] /\ uxPriority \in [Tasks -> Nat]
      /\ xMutexHolder \in [Mutexes -> Tasks \cup {NoTask}] /\ waiting \in [Mutexes -> Seq(Tasks)]
      /\ held \in [Tasks -> Seq(Mutexes)] /\ want \in [Tasks -> Mutexes \cup {NoMutex}]
  BY DEF ShareInv, MutexTypes
<1>5. PICK new : new = vListInsert(waiting[m], t, uxPriority)
  OBVIOUS
<1>6. t \notin TasksIn(waiting[m])
  BY <1>1, <1>2, ListedFacts DEF ShareInv
<1>7. InOrder(waiting[m], uxPriority) /\ Once(waiting[m])
  BY <1>2 DEF ShareInv, Listed
<1>8. /\ new \in Seq(Tasks) /\ TasksIn(new) = TasksIn(waiting[m]) \cup {t}
      /\ InOrder(new, uxPriority) /\ Once(new)
  <2>1. PICK list \in Seq(Tasks) : list = waiting[m]
    BY <1>2, <1>4
  <2> QED
    BY <1>4, <1>5, <1>6, <1>7, <2>1, InsertedFacts
<1>9. /\ waiting'[m] = new /\ pc'[t] = "waiting"
      /\ \A n \in Mutexes \ {m} : waiting'[n] = waiting[n]
      /\ \A u \in Tasks \ {t} : pc'[u] = pc[u]
  BY <1>2, <1>3, <1>4, <1>5
<1>10. /\ \A u \in Tasks : uxPriority[u] <= uxPriority'[u] /\ uxPriority'[u] \in Nat
       /\ uxPriority[t] <= uxPriority'[h]
       /\ \A u \in Tasks : u # h \/ u = t => uxPriority'[u] = uxPriority[u]
  <2>1. CASE uxPriority[h] < uxPriority[t]
    <3>1. uxPriority' = [uxPriority EXCEPT ![h] = uxPriority[t]]
      BY <1>3, <2>1 DEF PriorityInherit
    <3>2. h # t
      BY <1>4, <2>1
    <3> QED
      BY <1>2, <1>4, <2>1, <3>1, <3>2
  <2>2. CASE ~(uxPriority[h] < uxPriority[t])
    <3>1. uxPriority' = uxPriority
      BY <1>3, <2>2 DEF PriorityInherit
    <3> QED
      BY <1>2, <1>4, <2>2, <3>1
  <2> QED
    BY <2>1, <2>2
<1>11. \A u \in Tasks : Busy(u) => uxPriority'[u] = uxPriority[u]
  BY <1>2, <1>10
<1>12. /\ uxPriority' \in [Tasks -> Nat] /\ waiting' \in [Mutexes -> Seq(Tasks)]
       /\ pc' \in [Tasks -> Places]
  <2>1. uxPriority' \in [Tasks -> Nat]
    BY <1>2, <1>3, <1>4 DEF PriorityInherit
  <2>2. waiting' \in [Mutexes -> Seq(Tasks)]
    BY <1>3, <1>4, <1>5, <1>8
  <2> QED
    BY <1>3, <1>4, <2>1, <2>2 DEF Places
<1>13. MutexTypes'
  BY <1>3, <1>4, <1>12 DEF ShareInv, MutexTypes
<1>14. Nesting'
  BY <1>1, <1>3, <1>9 DEF ShareInv, Nesting, Busy, Wanting, HoldsOfNest, NextOfNest, Begins
<1>15. Holding'
  BY <1>3 DEF ShareInv, Holding, Once
<1>16. \A n \in Mutexes : \A u \in TasksIn(waiting[n]) :
           u \in Tasks /\ u # t /\ pc[u] = "waiting" /\ want[u] = n /\ Busy(u)
  BY <1>1, ListedFacts DEF ShareInv
<1>17. \A n \in Mutexes : \A u \in TasksIn(waiting'[n]) :
           u \in Tasks /\ uxPriority'[u] = uxPriority[u]
  BY <1>1, <1>8, <1>9, <1>11, <1>16
<1>18. Listed'
  <2>1. ASSUME NEW n \in Mutexes PROVE Once(waiting'[n]) /\ InOrder(waiting'[n], uxPriority')
    <3>1. Once(waiting'[n]) /\ InOrder(waiting'[n], uxPriority)
      BY <1>8, <1>9 DEF ShareInv, Listed
    <3>2. \A i \in 1..Len(waiting'[n]) : uxPriority'[waiting'[n][i]] = uxPriority[waiting'[n][i]]
      BY <1>17 DEF TasksIn
    <3> QED
      BY <3>1, <3>2 DEF InOrder
  <2>2. ASSUME NEW n \in Mutexes, NEW u \in TasksIn(waiting'[n])
        PROVE  pc'[u] = "waiting" /\ want'[u] = n
    BY <1>3, <1>8, <1>9, <1>16, <2>2
  <2>3. ASSUME NEW u \in Tasks, pc'[u] = "waiting" PROVE u \in TasksIn(waiting'[want'[u]])
    <3>1. CASE u = t
      BY <1>3, <1>8, <1>9, <3>1
    <3>2. CASE u # t
      <4>1. pc[u] = "waiting" /\ Busy(u)
        BY <1>9, <2>3, <3>2 DEF Busy, Wanting
      <4>2. u \in TasksIn(waiting[want[u]]) /\ want[u] \in Mutexes
        BY <4>1, WantedFacts DEF ShareInv, Listed
      <4> QED
        BY <1>3, <1>8, <1>9, <4>2
    <3> QED
      BY <3>1, <3>2
  <2> QED
    BY <2>1, <2>2, <2>3 DEF Listed, Once, InOrder, TasksIn
<1>19. OwnPriority'
  <2> SUFFICES ASSUME NEW u \in Tasks
               PROVE  Priority[u] <= uxPriority'[u] /\ (held[u] = <<>> => uxPriority'[u] = Priority[u])
    BY <1>3 DEF OwnPriority
  <2>1. held[h] # <<>>
    BY <1>1, <1>2 DEF ShareInv, Holding
  <2>2. Priority[u] \in Nat /\ uxPriority[u] \in Nat
    BY <1>4, TasksAssumption
  <2> QED
    BY <1>10, <2>1, <2>2 DEF ShareInv, OwnPriority
<1>20. Inherits'
  <2> SUFFICES ASSUME NEW n \in Mutexes, xMutexHolder[n] # NoTask, NEW u \in TasksIn(waiting'[n])
               PROVE  uxPriority'[u] <= uxPriority'[xMutexHolder[n]]
    BY <1>3 DEF Inherits, TasksIn
  <2>1. /\ xMutexHolder[n] \in Tasks /\ uxPriority[u] \in Nat /\ uxPriority'[u] = uxPriority[u]
        /\ uxPriority[xMutexHolder[n]] \in Nat /\ uxPriority'[xMutexHolder[n]] \in Nat
    BY <1>4, <1>10, <1>17
  <2>2. CASE n = m /\ u = t
    BY <1>10, <2>1, <2>2
  <2>3. CASE ~(n = m /\ u = t)
    <3>1. u \in TasksIn(waiting[n])
      BY <1>8, <1>9, <2>3
    <3>2. uxPriority[u] <= uxPriority[xMutexHolder[n]]
      BY <3>1 DEF ShareInv, Inherits
    <3> QED
      BY <1>10, <2>1, <3>2
  <2> QED
    BY <2>2, <2>3
<1>21. Heirs'
  <2> SUFFICES ASSUME NEW n \in Mutexes, xMutexHolder[n] = NoTask, waiting'[n] # <<>>
               PROVE  \E u \in Tasks : Heir(n, u)'
    BY <1>3 DEF Heirs
  <2>1. n # m /\ waiting'[n] = waiting[n]
    BY <1>1, <1>9
  <2>2. PICK u \in Tasks : Heir(n, u)
    BY <2>1 DEF ShareInv, Heirs
  <2>3. u # t /\ Busy(u)
    BY <1>1, <2>2 DEF Heir, Busy, Wanting
  <2>4. \A v \in TasksIn(waiting'[n]) : uxPriority'[v] <= uxPriority'[u]
    BY <1>11, <1>17, <2>1, <2>2, <2>3 DEF Heir
  <2> QED
    BY <1>3, <1>9, <2>2, <2>3, <2>4 DEF Heir, TasksIn
<1> QED
  BY <1>13, <1>14, <1>15, <1>18, <1>19, <1>20, <1>21 DEF ShareInv

\* The task whose time was up takes back what it lent.
LEMMA TakeBackFacts ==
    ASSUME OuterUncontended, ShareInv, NEW t \in Tasks, TakeBack(t), ~Free(t)
    PROVE  LET h == xMutexHolder[want[t]]
           IN  /\ want[t] \in Mutexes /\ h \in Tasks /\ (Busy(h) => h = t)
               /\ \A u \in Tasks \ {h} : uxPriority'[u] = uxPriority[u]
               /\ uxPriority'[h] \in Nat
               /\ Len(held[h]) = 1 =>
                     /\ Priority[h] <= uxPriority'[h]
                     /\ waiting[want[t]] = <<>> => uxPriority'[h] = Priority[h]
                     /\ waiting[want[t]] # <<>> =>
                           /\ uxPriority[Head(waiting[want[t]])] <= uxPriority'[h]
                           /\ \/ uxPriority'[h] = Priority[h]
                              \/ uxPriority'[h] = uxPriority[Head(waiting[want[t]])]
               /\ Len(held[h]) # 1 => uxPriority'[h] = uxPriority[h]
<1> DEFINE m == want[t]
           h == xMutexHolder[m]
<1>1. Busy(t) /\ h # NoTask
  BY DEF TakeBack, Free, Busy, Wanting
<1>2. m \in Mutexes /\ h \in Tasks /\ (Busy(h) => h = t)
  BY <1>1, HolderWantsNothing DEF ShareInv
<1>3. PICK highest : highest = HighestWaiting(m)
  OBVIOUS
<1>4. uxPriority' = AfterTimeout(h, highest)
  BY <1>3 DEF TakeBack, Free
<1>5. uxPriority \in [Tasks -> Nat] /\ Priority \in [Tasks -> Nat]
  BY TasksAssumption DEF ShareInv, MutexTypes
<1>6. /\ waiting[m] = <<>> => highest = 0
      /\ waiting[m] # <<>> => highest = uxPriority[Head(waiting[m])]
      /\ highest \in Nat
  <2>1. CASE waiting[m] = <<>>
    BY <1>3, <2>1 DEF HighestWaiting
  <2>2. CASE waiting[m] # <<>>
    <3>1. PICK list \in Seq(Tasks) : list = waiting[m]
      BY <1>2 DEF ShareInv, MutexTypes
    <3>2. Head(waiting[m]) \in Tasks
      BY <2>2, <3>1
    <3>3. highest = uxPriority[Head(waiting[m])]
      BY <1>3, <2>2 DEF HighestWaiting
    <3> QED
      BY <1>5, <2>2, <3>2, <3>3
  <2> QED
    BY <2>1, <2>2
<1>7. CASE Len(held[h]) = 1
  <2>1. PICK p \in Nat : /\ p = IF Priority[h] < highest THEN highest ELSE Priority[h]
                         /\ uxPriority' = [uxPriority EXCEPT ![h] = p]
    BY <1>2, <1>4, <1>5, <1>6, <1>7 DEF AfterTimeout
  <2>2. uxPriority'[h] = p /\ \A u \in Tasks \ {h} : uxPriority'[u] = uxPriority[u]
    BY <1>2, <1>5, <2>1
  <2>3. Priority[h] <= p /\ highest <= p /\ (p = Priority[h] \/ p = highest)
    BY <1>2, <1>5, <1>6, <2>1
  <2>4. highest = 0 => p = Priority[h]
    BY <1>2, <1>5, <2>1
  <2> QED
    BY <1>2, <1>6, <1>7, <2>2, <2>3, <2>4
<1>8. CASE Len(held[h]) # 1
  <2>1. uxPriority' = uxPriority
    BY <1>4, <1>8 DEF AfterTimeout
  <2> QED
    BY <1>2, <1>5, <1>8, <2>1
<1> QED
  BY <1>7, <1>8

LEMMA TakeBackShare ==
    ASSUME OuterUncontended, ShareInv, NEW t \in Tasks, TakeBack(t)
    PROVE  ShareInv'
<1> DEFINE m == want[t]
           h == xMutexHolder[m]
<1>1. /\ pc[t] = "disinherit" /\ Busy(t)
      /\ pc' = [pc EXCEPT ![t] = "idle"] /\ want' = [want EXCEPT ![t] = NoMutex]
      /\ UNCHANGED <<xMutexHolder, waiting, held>>
  BY DEF TakeBack, Busy, Wanting, Fail, Go
<1>2. /\ pc \in [Tasks -> Places] /\ uxPriority \in [Tasks -> Nat]
      /\ xMutexHolder \in [Mutexes -> Tasks \cup {NoTask}] /\ waiting \in [Mutexes -> Seq(Tasks)]
      /\ held \in [Tasks -> Seq(Mutexes)] /\ want \in [Tasks -> Mutexes \cup {NoMutex}]
  BY DEF ShareInv, MutexTypes
<1>3. CASE Free(t)
  <2>1. UNCHANGED uxPriority
    BY <1>3 DEF TakeBack
  <2> QED
    BY <1>1, <1>2, <2>1, MovesShare DEF Places, Wanting
<1>4. CASE ~Free(t)
  <2>1. /\ m \in Mutexes /\ h \in Tasks /\ (Busy(h) => h = t)
        /\ \A u \in Tasks \ {h} : uxPriority'[u] = uxPriority[u]
        /\ uxPriority'[h] \in Nat
        /\ Len(held[h]) = 1 =>
              /\ Priority[h] <= uxPriority'[h]
              /\ waiting[m] # <<>> => uxPriority[Head(waiting[m])] <= uxPriority'[h]
        /\ Len(held[h]) # 1 => uxPriority'[h] = uxPriority[h]
    BY <1>4, TakeBackFacts
  <2>2. uxPriority' \in [Tasks -> Nat]
    <3>1. uxPriority' = uxPriority \/ \E p : uxPriority' = [uxPriority EXCEPT ![h] = p]
      BY <1>4 DEF TakeBack, Free, AfterTimeout
    <3>2. \A u \in Tasks : uxPriority'[u] \in Nat
      BY <1>2, <2>1
    <3> QED
      BY <1>2, <3>1, <3>2
  <2>3. MutexTypes'
    BY <1>1, <1>2, <2>2 DEF ShareInv, MutexTypes, Places
  <2>4. /\ pc'[t] = "idle" /\ want'[t] = NoMutex
        /\ \A u \in Tasks \ {t} : pc'[u] = pc[u] /\ want'[u] = want[u]
    BY <1>1, <1>2
  <2>5. Nesting'
    <3> SUFFICES ASSUME NEW u \in Tasks
                 PROVE  /\ held'[u] # <<>> => HoldsOfNest(u)'
                        /\ pc'[u] \in Wanting => NextOfNest(u, want[u])'
                        /\ pc'[u] \notin Wanting => want'[u] = NoMutex
      BY DEF Nesting, Busy
    <3>1. held' = held /\ (HoldsOfNest(u)' <=> HoldsOfNest(u))
      BY <1>1 DEF HoldsOfNest, Begins
    <3>2. CASE u = t
      BY <2>4, <3>1, <3>2 DEF ShareInv, Nesting, Wanting
    <3>3. CASE u # t
      BY <1>1, <2>4, <3>1, <3>3 DEF ShareInv, Nesting, Busy, NextOfNest, Begins
    <3> QED
      BY <3>2, <3>3
  <2>6. Holding'
    BY <1>1 DEF ShareInv, Holding, Once
  <2>7. \A n \in Mutexes : \A u \in TasksIn(waiting[n]) :
            u \in Tasks \ {t} /\ u # h /\ uxPriority'[u] = uxPriority[u]
    BY <1>1, <2>1, ListedFacts DEF ShareInv
  <2>8. Listed'
    <3>1. ASSUME NEW n \in Mutexes PROVE InOrder(waiting[n], uxPriority')
      <4>1. \A i \in 1..Len(waiting[n]) : uxPriority'[waiting[n][i]] = uxPriority[waiting[n][i]]
        BY <2>7 DEF TasksIn
      <4> QED
        BY <4>1 DEF ShareInv, Listed, InOrder
    <3>2. ASSUME NEW n \in Mutexes, NEW u \in TasksIn(waiting[n])
          PROVE  pc'[u] = "waiting" /\ want'[u] = n
      BY <2>4, <2>7 DEF ShareInv, Listed
    <3>3. ASSUME NEW u \in Tasks, pc'[u] = "waiting" PROVE u \in TasksIn(waiting[want'[u]])
      BY <2>4, <3>3 DEF ShareInv, Listed
    <3> QED
      BY <1>1, <3>1, <3>2, <3>3 DEF ShareInv, Listed, Once, InOrder, TasksIn
  <2>9. OwnPriority'
    <3>1. held[h] # <<>>
      BY <1>4, <2>1 DEF ShareInv, Holding, Free
    <3> QED
      BY <1>1, <2>1, <3>1 DEF ShareInv, OwnPriority
  <2>10. Inherits'
    <3> SUFFICES ASSUME NEW n \in Mutexes, xMutexHolder[n] # NoTask, NEW u \in TasksIn(waiting[n])
                 PROVE  uxPriority'[u] <= uxPriority'[xMutexHolder[n]]
      BY <1>1 DEF Inherits, TasksIn
    <3>1. /\ uxPriority[u] <= uxPriority[xMutexHolder[n]] /\ uxPriority'[u] = uxPriority[u]
          /\ u \in Tasks /\ xMutexHolder[n] \in Tasks
      BY <1>2, <2>7 DEF ShareInv, Inherits
    <3>2. CASE xMutexHolder[n] # h \/ Len(held[h]) # 1
      BY <2>1, <3>1, <3>2
    <3>3. CASE xMutexHolder[n] = h /\ Len(held[h]) = 1
      <4>1. PICK i \in 1..1 : held[h][i] = n
        BY <2>1, <3>3, TasksAssumption DEF ShareInv, Holding
      <4>2. PICK j \in 1..1 : held[h][j] = m
        BY <2>1, <3>3, TasksAssumption DEF ShareInv, Holding
      <4>3. i = 1 /\ j = 1
        OBVIOUS
      <4>4. n = m
        BY <4>1, <4>2, <4>3
      <4>5. PICK list \in Seq(Tasks) : list = waiting[m]
        BY <1>2, <2>1
      <4>6. PICK k \in 1..Len(list) : u = list[k]
        BY <4>4, <4>5 DEF TasksIn
      <4>7. list # <<>> /\ Head(list) = list[1] /\ 1 \in 1..Len(list) /\ Len(list) \in Nat
        BY <4>5, <4>6
      <4>8. k = 1 \/ uxPriority[list[k]] <= uxPriority[list[1]]
        BY <2>1, <4>5, <4>7 DEF ShareInv, Listed, InOrder
      <4>9. uxPriority[u] \in Nat /\ uxPriority[list[1]] \in Nat
        BY <1>2, <3>1, <4>5, <4>7, SMTT(30)
      <4>10. uxPriority[u] <= uxPriority[list[1]]
        BY <4>6, <4>8, <4>9
      <4>11. uxPriority[list[1]] <= uxPriority'[h]
        BY <2>1, <3>3, <4>5, <4>7
      <4> QED
        BY <2>1, <3>1, <3>3, <4>9, <4>10, <4>11
    <3> QED
      BY <3>2, <3>3
  <2>11. Heirs'
    <3> SUFFICES ASSUME NEW n \in Mutexes, xMutexHolder[n] = NoTask, waiting[n] # <<>>
                 PROVE  \E u \in Tasks : Heir(n, u)'
      BY <1>1 DEF Heirs
    <3>1. PICK u \in Tasks : Heir(n, u)
      BY DEF ShareInv, Heirs
    <3>2. u # t /\ Busy(u)
      BY <1>1, <3>1 DEF Heir, Busy, Wanting
    <3>3. uxPriority'[u] = uxPriority[u]
      BY <2>1, <3>2
    <3> QED
      BY <1>1, <2>4, <2>7, <3>1, <3>2, <3>3 DEF Heir, TasksIn
  <2> QED
    BY <2>3, <2>5, <2>6, <2>8, <2>9, <2>10, <2>11 DEF ShareInv
<1> QED
  BY <1>3, <1>4

\* The first of a list that is in order, and the rest of the list.
LEMMA TailOfList ==
    ASSUME NEW list \in Seq(Tasks), list # <<>>, Once(list), NEW prio, InOrder(list, prio)
    PROVE  /\ Head(list) \in TasksIn(list) /\ Tail(list) \in Seq(Tasks)
           /\ TasksIn(Tail(list)) = TasksIn(list) \ {Head(list)}
           /\ Once(Tail(list)) /\ InOrder(Tail(list), prio)
           /\ \A u \in TasksIn(Tail(list)) : prio[u] <= prio[Head(list)]
<1>1. PICK new : new = Tail(list)
  OBVIOUS
<1>2. /\ Len(list) \in Nat /\ 1 \in 1..Len(list) /\ Head(list) = list[1]
      /\ new \in Seq(Tasks) /\ Len(new) = Len(list) - 1
      /\ \A i \in 1..(Len(list) - 1) : new[i] = list[i + 1]
  BY <1>1
<1>3. \A i \in 1..Len(new) : i + 1 \in 1..Len(list) /\ new[i] = list[i + 1]
  BY <1>2
<1>4. TasksIn(new) = TasksIn(list) \ {list[1]}
  <2>1. ASSUME NEW u \in TasksIn(new) PROVE u \in TasksIn(list) /\ u # list[1]
    <3>1. PICK i \in 1..Len(new) : u = new[i]
      BY <2>1 DEF TasksIn
    <3>2. u = list[i + 1] /\ i + 1 \in 1..Len(list) /\ i + 1 # 1
      BY <1>2, <1>3, <3>1
    <3> QED
      BY <1>2, <3>2 DEF TasksIn, Once
  <2>2. ASSUME NEW u \in TasksIn(list), u # list[1] PROVE u \in TasksIn(new)
    <3>1. PICK k \in 1..Len(list) : u = list[k]
      BY DEF TasksIn
    <3>2. k - 1 \in 1..Len(new) /\ new[k - 1] = list[k]
      BY <1>2, <2>2, <3>1
    <3> QED
      BY <3>1, <3>2 DEF TasksIn
  <2> QED
    BY <2>1, <2>2
<1>5. Once(new)
  <2> SUFFICES ASSUME NEW i \in 1..Len(new), NEW j \in 1..Len(new), new[i] = new[j] PROVE i = j
    BY DEF Once
  <2>1. i + 1 = j + 1
    BY <1>3 DEF Once
  <2> QED
    BY <1>2, <2>1
<1>6. InOrder(new, prio)
  <2> SUFFICES ASSUME NEW i \in 1..Len(new), NEW j \in 1..Len(new), i < j
               PROVE  prio[new[j]] <= prio[new[i]]
    BY DEF InOrder
  <2>1. i + 1 < j + 1
    BY <1>2
  <2> QED
    BY <1>3, <2>1 DEF InOrder
<1>7. ASSUME NEW u \in TasksIn(new) PROVE prio[u] <= prio[list[1]]
  <2>1. PICK i \in 1..Len(new) : u = new[i]
    BY <1>7 DEF TasksIn
  <2>2. 1 < i + 1
    BY <1>2
  <2> QED
    BY <1>2, <1>3, <2>1, <2>2 DEF InOrder
<1>8. Head(list) \in TasksIn(list)
  BY <1>2 DEF TasksIn
<1> QED
  BY <1>1, <1>2, <1>4, <1>5, <1>6, <1>7, <1>8

\* What giving the mutex m does.
GiveEffect(t, m) ==
    /\ m \in Mutexes /\ xMutexHolder[m] = t /\ pc[t] = "idle" /\ ~Busy(t)
    /\ xMutexHolder' = [xMutexHolder EXCEPT ![m] = NoTask]
    /\ held[t] # <<>> /\ held' = [held EXCEPT ![t] = held'[t]]
    /\ held'[t] \in Seq(Mutexes) /\ Len(held[t]) \in Nat /\ Len(held'[t]) = Len(held[t]) - 1
    /\ \A i \in 1..(Len(held[t]) - 1) : held'[t][i] = held[t][i] /\ held[t][i] # m
    /\ uxPriority' = [uxPriority EXCEPT ![t] = uxPriority'[t]]
    /\ uxPriority'[t] = IF Len(held[t]) = 1 THEN Priority[t] ELSE uxPriority[t]
    /\ UNCHANGED want
    /\ waiting[m] = <<>> => UNCHANGED <<waiting, pc>>
    /\ waiting[m] # <<>> =>
          /\ waiting' = [waiting EXCEPT ![m] = Tail(waiting[m])]
          /\ pc' = [pc EXCEPT ![Head(waiting[m])] = "take"]

LEMMA GiveFacts ==
    ASSUME ShareInv, NEW t \in Tasks, Give(t)
    PROVE  GiveEffect(t, held[t][Len(held[t])])
<1>1. /\ held[t] \in Seq(Mutexes) /\ held[t] # <<>> /\ pc[t] = "idle"
      /\ uxPriority \in [Tasks -> Nat] /\ held \in [Tasks -> Seq(Mutexes)]
  BY DEF Give, ShareInv, MutexTypes
<1>2. PICK old \in Seq(Mutexes) : old = held[t]
  BY <1>1
<1>3. PICK m : m = held[t][Len(held[t])]
  OBVIOUS
<1>4. Len(old) \in Nat /\ Len(old) \in 1..Len(old) /\ m = old[Len(old)]
  BY <1>1, <1>2, <1>3
<1>5. m \in Mutexes /\ xMutexHolder[m] = t
  BY <1>2, <1>4 DEF ShareInv, Holding
<1>6. \A i \in 1..(Len(old) - 1) : old[i] # m
  BY <1>2, <1>4 DEF ShareInv, Holding, Once
<1>7. PICK k \in Nat : k = Len(old) - 1 /\ k < Len(old)
  <2>1. Len(old) - 1 \in Nat /\ Len(old) - 1 < Len(old)
    BY <1>4
  <2> QED
    BY <2>1
<1>8. PICK new : new = SubSeq(old, 1, k)
  OBVIOUS
<1>9. /\ held' = [held EXCEPT ![t] = new]
      /\ uxPriority' = PriorityDisinherit(t, k)
      /\ xMutexHolder' = [xMutexHolder EXCEPT ![m] = NoTask]
      /\ UNCHANGED want
      /\ waiting[m] = <<>> => UNCHANGED <<waiting, pc>>
      /\ waiting[m] # <<>> =>
            /\ waiting' = [waiting EXCEPT ![m] = Tail(waiting[m])]
            /\ pc' = [pc EXCEPT ![Head(waiting[m])] = "take"]
  BY <1>2, <1>3, <1>7, <1>8 DEF Give, Go
<1>10. \A i \in 1..k : i \in 1..Len(old)
  BY <1>4, <1>7
<1>11. new \in Seq(Mutexes) /\ Len(new) = k /\ \A i \in 1..k : new[i] = old[i]
  BY <1>8, <1>10, <1>7
<1>12. held'[t] = new
  BY <1>1, <1>9
<1>13. /\ uxPriority'[t] = IF Len(old) = 1 THEN Priority[t] ELSE uxPriority[t]
       /\ uxPriority' = [uxPriority EXCEPT ![t] = uxPriority'[t]]
  <2>1. CASE k = 0
    <3>1. uxPriority' = [uxPriority EXCEPT ![t] = Priority[t]]
      BY <1>9, <2>1 DEF PriorityDisinherit
    <3>2. Len(old) = 1
      BY <1>4, <1>7, <2>1
    <3> QED
      BY <1>1, <3>1, <3>2
  <2>2. CASE k # 0
    <3>1. uxPriority' = uxPriority
      BY <1>9, <2>2 DEF PriorityDisinherit
    <3>2. Len(old) # 1
      BY <1>4, <1>7, <2>2
    <3> QED
      BY <1>1, <3>1, <3>2
  <2> QED
    BY <2>1, <2>2
<1>14. ~Busy(t)
  BY <1>1 DEF Busy, Wanting
<1>15. /\ held[t] # <<>> /\ held' = [held EXCEPT ![t] = held'[t]]
       /\ held'[t] \in Seq(Mutexes) /\ Len(held[t]) \in Nat /\ Len(held'[t]) = Len(held[t]) - 1
       /\ \A i \in 1..(Len(held[t]) - 1) : held'[t][i] = held[t][i] /\ held[t][i] # m
  BY <1>1, <1>2, <1>4, <1>6, <1>7, <1>9, <1>11, <1>12
<1>16. GiveEffect(t, m)
  BY <1>1, <1>2, <1>5, <1>9, <1>13, <1>14, <1>15 DEF GiveEffect
<1> QED
  BY <1>3, <1>16

\* The list of m then, and the tasks that are woken: the first of it, if there is one.
WakesHeir(m, W) ==
    /\ W \subseteq TasksIn(waiting[m]) /\ TasksIn(waiting'[m]) = TasksIn(waiting[m]) \ W
    /\ waiting' \in [Mutexes -> Seq(Tasks)]
    /\ Once(waiting'[m]) /\ InOrder(waiting'[m], uxPriority)
    /\ \A n \in Mutexes : n # m => waiting'[n] = waiting[n]
    /\ pc' \in [Tasks -> Places] /\ \A u \in Tasks : pc'[u] = IF u \in W THEN "take" ELSE pc[u]
    /\ waiting'[m] # <<>> =>
          \E w \in W : \A u \in TasksIn(waiting'[m]) : uxPriority[u] <= uxPriority[w]

LEMMA GiveWakes ==
    ASSUME ShareInv, NEW t \in Tasks, NEW m, GiveEffect(t, m)
    PROVE  \E W \in SUBSET TasksIn(waiting[m]) : WakesHeir(m, W)
<1>1. /\ pc \in [Tasks -> Places] /\ waiting \in [Mutexes -> Seq(Tasks)] /\ m \in Mutexes
  BY DEF ShareInv, MutexTypes, GiveEffect
<1>2. PICK list \in Seq(Tasks) : list = waiting[m] /\ Once(list) /\ InOrder(list, uxPriority)
  BY <1>1 DEF ShareInv, Listed
<1>3. CASE list = <<>>
  <2>1. waiting' = waiting /\ pc' = pc
    BY <1>2, <1>3 DEF GiveEffect
  <2>2. TasksIn(waiting'[m]) = TasksIn(waiting[m]) /\ waiting'[m] = list
    BY <1>2, <2>1 DEF TasksIn
  <2>3. Once(waiting'[m]) /\ InOrder(waiting'[m], uxPriority)
    BY <1>2, <2>2
  <2>4. WakesHeir(m, {})
    BY <1>1, <1>3, <2>1, <2>2, <2>3 DEF WakesHeir
  <2> QED
    BY <2>4
<1>4. CASE list # <<>>
  <2>1. /\ Head(list) \in TasksIn(list) /\ Tail(list) \in Seq(Tasks)
        /\ TasksIn(Tail(list)) = TasksIn(list) \ {Head(list)}
        /\ Once(Tail(list)) /\ InOrder(Tail(list), uxPriority)
        /\ \A u \in TasksIn(Tail(list)) : uxPriority[u] <= uxPriority[Head(list)]
    BY <1>2, <1>4, TailOfList
  <2>2. PICK rest \in Seq(Tasks), w \in TasksIn(list) : rest = Tail(list) /\ w = Head(list)
    BY <2>1
  <2>3. waiting' = [waiting EXCEPT ![m] = rest] /\ pc' = [pc EXCEPT ![w] = "take"]
    BY <1>2, <1>4, <2>2 DEF GiveEffect
  <2>4. w \in Tasks
    BY <1>2 DEF TasksIn
  <2>5. /\ waiting'[m] = rest /\ \A n \in Mutexes : n # m => waiting'[n] = waiting[n]
        /\ waiting' \in [Mutexes -> Seq(Tasks)]
    BY <1>1, <2>3
  <2>6. /\ \A u \in Tasks : pc'[u] = IF u \in {w} THEN "take" ELSE pc[u]
        /\ pc' \in [Tasks -> Places]
    BY <1>1, <2>3, <2>4 DEF Places
  <2>7. {w} \in SUBSET TasksIn(list) /\ TasksIn(rest) = TasksIn(list) \ {w}
    BY <2>1, <2>2
  <2>8. \E x \in {w} : \A u \in TasksIn(waiting'[m]) : uxPriority[u] <= uxPriority[x]
    BY <2>1, <2>2, <2>5
  <2>9. WakesHeir(m, {w})
    BY <1>2, <2>1, <2>2, <2>5, <2>6, <2>7, <2>8 DEF WakesHeir
  <2> QED
    BY <1>2, <2>7, <2>9
<1> QED
  BY <1>3, <1>4

LEMMA GiveShare ==
    ASSUME ShareInv, NEW t \in Tasks, Give(t)
    PROVE  ShareInv'
<1>1. PICK m : m = held[t][Len(held[t])] /\ GiveEffect(t, m)
  BY GiveFacts
<1>2. PICK W \in SUBSET TasksIn(waiting[m]) : WakesHeir(m, W)
  BY <1>1, GiveWakes
<1>3. /\ pc \in [Tasks -> Places] /\ uxPriority \in [Tasks -> Nat]
      /\ xMutexHolder \in [Mutexes -> Tasks \cup {NoTask}] /\ waiting \in [Mutexes -> Seq(Tasks)]
      /\ held \in [Tasks -> Seq(Mutexes)] /\ want \in [Tasks -> Mutexes \cup {NoMutex}]
  BY DEF ShareInv, MutexTypes
<1>4. /\ m \in Mutexes /\ xMutexHolder[m] = t /\ pc[t] = "idle" /\ ~Busy(t)
      /\ UNCHANGED want
  BY <1>1 DEF GiveEffect
<1>5. /\ xMutexHolder'[m] = NoTask /\ xMutexHolder' \in [Mutexes -> Tasks \cup {NoTask}]
      /\ \A n \in Mutexes : n # m => xMutexHolder'[n] = xMutexHolder[n]
  BY <1>1, <1>3, <1>4 DEF GiveEffect
<1>6. /\ held'[t] \in Seq(Mutexes) /\ Len(held[t]) \in Nat /\ Len(held'[t]) = Len(held[t]) - 1
      /\ held[t] # <<>> /\ \A u \in Tasks : u # t => held'[u] = held[u]
      /\ \A i \in 1..(Len(held[t]) - 1) : held'[t][i] = held[t][i] /\ held[t][i] # m
      /\ held' \in [Tasks -> Seq(Mutexes)]
  <2>1. PICK new \in Seq(Mutexes) : held'[t] = new /\ held' = [held EXCEPT ![t] = new]
    BY <1>1 DEF GiveEffect
  <2>2. held' \in [Tasks -> Seq(Mutexes)] /\ \A u \in Tasks : u # t => held'[u] = held[u]
    BY <1>3, <2>1
  <2> QED
    BY <1>1, <2>2 DEF GiveEffect
<1>7. held'[t] = <<>> => Len(held[t]) = 1
  BY <1>6
<1>8. /\ uxPriority'[t] = IF Len(held[t]) = 1 THEN Priority[t] ELSE uxPriority[t]
      /\ \A u \in Tasks : u # t => uxPriority'[u] = uxPriority[u]
      /\ uxPriority' \in [Tasks -> Nat]
  <2>1. uxPriority'[t] = IF Len(held[t]) = 1 THEN Priority[t] ELSE uxPriority[t]
    BY <1>1 DEF GiveEffect
  <2>2. uxPriority'[t] \in Nat
    BY <1>3, <2>1, TasksAssumption
  <2>3. PICK p \in Nat : uxPriority' = [uxPriority EXCEPT ![t] = p]
    BY <1>1, <2>2 DEF GiveEffect
  <2> QED
    BY <1>3, <2>1, <2>3
<1>9. /\ W \subseteq TasksIn(waiting[m]) /\ TasksIn(waiting'[m]) = TasksIn(waiting[m]) \ W
      /\ waiting' \in [Mutexes -> Seq(Tasks)]
      /\ Once(waiting'[m]) /\ InOrder(waiting'[m], uxPriority)
      /\ \A n \in Mutexes : n # m => waiting'[n] = waiting[n]
      /\ pc' \in [Tasks -> Places] /\ \A u \in Tasks : pc'[u] = IF u \in W THEN "take" ELSE pc[u]
      /\ waiting'[m] # <<>> =>
            \E w \in W : \A u \in TasksIn(waiting'[m]) : uxPriority[u] <= uxPriority[w]
  BY <1>2 DEF WakesHeir
<1>10. \A n \in Mutexes : \A u \in TasksIn(waiting[n]) :
           u \in Tasks /\ u # t /\ pc[u] = "waiting" /\ want[u] = n /\ Busy(u)
  BY <1>4, ListedFacts DEF ShareInv
<1>11. \A u \in W : u \in Tasks /\ u # t /\ pc[u] = "waiting" /\ want[u] = m /\ Busy(u)
  BY <1>4, <1>9, <1>10
<1>12. pc'[t] = pc[t] /\ \A u \in Tasks : pc'[u] \in Wanting <=> pc[u] \in Wanting
  BY <1>9, <1>11 DEF Wanting
<1>13. MutexTypes'
  <2>1. want' \in [Tasks -> Mutexes \cup {NoMutex}]
    BY <1>3, <1>4
  <2> QED
    BY <1>5, <1>6, <1>8, <1>9, <2>1 DEF MutexTypes
<1>14. Nesting'
  <2> SUFFICES ASSUME NEW u \in Tasks
               PROVE  /\ held'[u] # <<>> => HoldsOfNest(u)'
                      /\ pc'[u] \in Wanting => NextOfNest(u, want[u])'
                      /\ pc'[u] \notin Wanting => want'[u] = NoMutex
    BY DEF Nesting, Busy
  <2>1. CASE u = t
    <3>1. PICK nest \in Nests[t] : Len(held[t]) <= Len(nest) /\ Begins(nest, t)
      BY <1>6 DEF ShareInv, Nesting, HoldsOfNest
    <3>2. nest \in Seq(Mutexes)
      BY MutexAssumption
    <3>3. Len(nest) \in Nat
      BY <3>2
    <3>4. Len(held'[t]) <= Len(nest)
      BY <1>6, <3>1, <3>3
    <3>5. \A i \in 1..Len(held'[t]) : i \in 1..Len(held[t]) /\ held'[t][i] = held[t][i]
      BY <1>6
    <3>6. \A i \in 1..Len(held'[t]) : held'[t][i] = nest[i]
      BY <3>1, <3>5 DEF Begins
    <3>7. HoldsOfNest(t)'
      BY <3>4, <3>6 DEF HoldsOfNest, Begins
    <3> QED
      BY <1>4, <1>12, <2>1, <3>7 DEF ShareInv, Nesting, Busy
  <2>2. CASE u # t
    <3>1. held'[u] = held[u] /\ want'[u] = want[u]
      BY <1>4, <1>6, <2>2
    <3>2. HoldsOfNest(u)' <=> HoldsOfNest(u)
      BY <3>1 DEF HoldsOfNest, Begins
    <3>3. NextOfNest(u, want[u])' <=> NextOfNest(u, want[u])
      BY <3>1 DEF NextOfNest, Begins
    <3> QED
      BY <1>12, <3>1, <3>2, <3>3 DEF ShareInv, Nesting, Busy
  <2> QED
    BY <2>1, <2>2
<1>15. Holding'
  <2>1. ASSUME NEW u \in Tasks, NEW i \in 1..Len(held'[u]) PROVE xMutexHolder'[held'[u][i]] = u
    <3>1. i \in 1..Len(held[u]) /\ held'[u][i] = held[u][i] /\ held[u][i] # m
      <4>1. CASE u = t
        BY <1>6, <4>1
      <4>2. CASE u # t
        <5>1. held'[u] = held[u]
          BY <1>6, <4>2
        <5> QED
          BY <1>4, <4>2, <5>1 DEF ShareInv, Holding
      <4> QED
        BY <4>1, <4>2
    <3>2. held[u][i] \in Mutexes /\ xMutexHolder[held[u][i]] = u
      BY <1>3, <3>1 DEF ShareInv, Holding
    <3> QED
      BY <1>5, <3>1, <3>2
  <2>2. ASSUME NEW n \in Mutexes, xMutexHolder'[n] # NoTask
        PROVE  \E i \in 1..Len(held'[xMutexHolder'[n]]) : held'[xMutexHolder'[n]][i] = n
    <3>1. n # m /\ xMutexHolder'[n] = xMutexHolder[n] /\ xMutexHolder[n] \in Tasks
      BY <1>3, <1>5, <2>2
    <3>2. PICK i \in 1..Len(held[xMutexHolder[n]]) : held[xMutexHolder[n]][i] = n
      BY <2>2, <3>1 DEF ShareInv, Holding
    <3>3. CASE xMutexHolder[n] = t
      <4>1. i # Len(held[t])
        BY <1>1, <3>1, <3>2, <3>3
      <4>2. i \in 1..(Len(held[t]) - 1) /\ i \in 1..Len(held'[t])
        BY <1>6, <3>2, <3>3, <4>1
      <4>3. held'[t][i] = n
        BY <1>6, <3>2, <3>3, <4>2
      <4> QED
        BY <3>1, <3>3, <4>2, <4>3
    <3>4. CASE xMutexHolder[n] # t
      BY <1>6, <3>1, <3>2, <3>4
    <3> QED
      BY <3>3, <3>4
  <2>3. ASSUME NEW u \in Tasks PROVE Once(held'[u])
    <3>1. CASE u = t
      <4> SUFFICES ASSUME NEW i \in 1..Len(held'[t]), NEW j \in 1..Len(held'[t]),
                          held'[t][i] = held'[t][j]
                   PROVE  i = j
        BY <3>1 DEF Once
      <4>1. /\ i \in 1..(Len(held[t]) - 1) /\ i \in 1..Len(held[t])
            /\ j \in 1..(Len(held[t]) - 1) /\ j \in 1..Len(held[t])
        BY <1>6
      <4> QED
        BY <1>6, <4>1 DEF ShareInv, Holding, Once
    <3>2. CASE u # t
      BY <1>6, <3>2 DEF ShareInv, Holding
    <3> QED
      BY <3>1, <3>2
  <2> QED
    BY <2>1, <2>2, <2>3 DEF Holding, Once
<1>16. \A n \in Mutexes : TasksIn(waiting'[n]) \subseteq TasksIn(waiting[n])
  BY <1>9
<1>17. \A n \in Mutexes : \A u \in TasksIn(waiting[n]) : uxPriority'[u] = uxPriority[u]
  BY <1>8, <1>10
<1>18. Listed'
  <2>1. ASSUME NEW n \in Mutexes PROVE Once(waiting'[n]) /\ InOrder(waiting'[n], uxPriority')
    <3>1. Once(waiting'[n]) /\ InOrder(waiting'[n], uxPriority)
      BY <1>9 DEF ShareInv, Listed
    <3>2. \A u \in TasksIn(waiting'[n]) : uxPriority'[u] = uxPriority[u]
      BY <1>16, <1>17
    <3>3. \A i \in 1..Len(waiting'[n]) : uxPriority'[waiting'[n][i]] = uxPriority[waiting'[n][i]]
      BY <3>2 DEF TasksIn
    <3> QED
      BY <3>1, <3>3 DEF InOrder
  <2>2. ASSUME NEW n \in Mutexes, NEW u \in TasksIn(waiting'[n])
        PROVE  pc'[u] = "waiting" /\ want'[u] = n
    <3>1. u \in Tasks /\ pc[u] = "waiting" /\ want[u] = n
      BY <1>10, <1>16, <2>2
    <3>2. u \notin W
      BY <1>9, <1>11, <2>2, <3>1
    <3> QED
      BY <1>4, <1>9, <3>1, <3>2
  <2>3. ASSUME NEW u \in Tasks, pc'[u] = "waiting" PROVE u \in TasksIn(waiting'[want'[u]])
    <3>1. pc[u] = "waiting" /\ u \notin W
      BY <1>9, <2>3
    <3>2. Busy(u) /\ u \in TasksIn(waiting[want[u]])
      BY <3>1 DEF ShareInv, Listed, Busy, Wanting
    <3>3. want[u] \in Mutexes
      BY <3>2, WantedFacts DEF ShareInv
    <3> QED
      BY <1>4, <1>9, <3>1, <3>2, <3>3
  <2> QED
    BY <2>1, <2>2, <2>3 DEF Listed, Once, InOrder, TasksIn
<1>19. OwnPriority'
  <2> SUFFICES ASSUME NEW u \in Tasks
               PROVE  /\ Priority[u] <= uxPriority'[u]
                      /\ held'[u] = <<>> => uxPriority'[u] = Priority[u]
    BY DEF OwnPriority
  <2>1. Priority[u] \in Nat /\ Priority[u] <= uxPriority[u]
    BY TasksAssumption DEF ShareInv, OwnPriority
  <2>2. CASE u = t
    BY <1>7, <1>8, <2>1, <2>2
  <2>3. CASE u # t
    BY <1>6, <1>8, <2>1, <2>3 DEF ShareInv, OwnPriority
  <2> QED
    BY <2>2, <2>3
<1>20. Inherits'
  <2> SUFFICES ASSUME NEW n \in Mutexes, xMutexHolder'[n] # NoTask, NEW u \in TasksIn(waiting'[n])
               PROVE  uxPriority'[u] <= uxPriority'[xMutexHolder'[n]]
    BY DEF Inherits, TasksIn
  <2>1. n # m /\ xMutexHolder'[n] = xMutexHolder[n] /\ xMutexHolder[n] \in Tasks
    BY <1>3, <1>5
  <2>2. u \in TasksIn(waiting[n]) /\ uxPriority'[u] = uxPriority[u]
    BY <1>16, <1>17
  <2>3. uxPriority[u] <= uxPriority[xMutexHolder[n]]
    BY <1>5, <2>1, <2>2 DEF ShareInv, Inherits
  <2>4. ASSUME xMutexHolder[n] = t, Len(held[t]) = 1 PROVE FALSE
    <3>1. PICK i \in 1..1 : held[t][i] = n
      BY <1>5, <2>1, <2>4 DEF ShareInv, Holding
    <3>2. i = 1
      OBVIOUS
    <3> QED
      BY <1>1, <2>1, <2>4, <3>1, <3>2
  <2>5. uxPriority'[xMutexHolder[n]] = uxPriority[xMutexHolder[n]]
    BY <1>8, <2>1, <2>4
  <2> QED
    BY <2>1, <2>2, <2>3, <2>5
<1>21. Heirs'
  <2> SUFFICES ASSUME NEW n \in Mutexes, xMutexHolder'[n] = NoTask, waiting'[n] # <<>>
               PROVE  \E u \in Tasks : Heir(n, u)'
    BY DEF Heirs
  <2>1. CASE n = m
    <3>1. PICK w \in W : \A u \in TasksIn(waiting'[m]) : uxPriority[u] <= uxPriority[w]
      BY <1>9, <2>1
    <3>2. w \in Tasks /\ w # t /\ pc'[w] = "take" /\ want'[w] = m
      BY <1>4, <1>9, <1>11
    <3>3. \A u \in TasksIn(waiting'[m]) : uxPriority'[u] = uxPriority[u]
      BY <1>4, <1>16, <1>17
    <3>4. uxPriority'[w] = uxPriority[w]
      BY <1>8, <3>2
    <3>5. \A u \in TasksIn(waiting'[m]) : uxPriority'[u] <= uxPriority'[w]
      BY <3>1, <3>3, <3>4
    <3> QED
      BY <2>1, <3>2, <3>5 DEF Heir, TasksIn
  <2>2. CASE n # m
    <3>1. xMutexHolder[n] = NoTask /\ waiting'[n] = waiting[n]
      BY <1>5, <1>9, <2>2
    <3>2. PICK u \in Tasks : Heir(n, u)
      BY <3>1 DEF ShareInv, Heirs
    <3>3. u # t /\ pc'[u] = "take" /\ want'[u] = n
      BY <1>4, <1>9, <3>2 DEF Heir
    <3>4. \A v \in TasksIn(waiting'[n]) : uxPriority'[v] <= uxPriority'[u]
      BY <1>8, <1>17, <3>1, <3>2, <3>3 DEF Heir
    <3> QED
      BY <3>3, <3>4 DEF Heir, TasksIn
  <2> QED
    BY <2>1, <2>2
<1> QED
  BY <1>13, <1>14, <1>15, <1>18, <1>19, <1>20, <1>21 DEF ShareInv

\* The time of a call is up.
LEMMA TimeElapsesShare ==
    ASSUME ShareInv, NEW t \in Tasks, TimeElapses(t)
    PROVE  ShareInv'
<1> DEFINE m == want[t]
<1>1. Busy(t) /\ UNCHANGED <<uxPriority, xMutexHolder, held, want>>
  BY DEF TimeElapses, Busy, Wanting
<1>2. /\ pc \in [Tasks -> Places] /\ uxPriority \in [Tasks -> Nat]
      /\ waiting \in [Mutexes -> Seq(Tasks)]
      /\ want \in [Tasks -> Mutexes \cup {NoMutex}]
  BY DEF ShareInv, MutexTypes
<1>3. m \in Mutexes
  BY <1>1, WantedFacts DEF ShareInv
<1>4. CASE pc[t] # "waiting"
  <2>1. waiting' = waiting /\ pc' = pc
    BY <1>4 DEF TimeElapses
  <2> QED
    BY <1>1, <2>1 DEF ShareInv, MutexTypes, Nesting, Holding, Listed, OwnPriority, Inherits,
         Heirs, Heir, Busy, HoldsOfNest, NextOfNest, Begins, Once, InOrder, TasksIn
<1>5. CASE pc[t] = "waiting"
  <2>1. PICK list \in Seq(Tasks) : list = waiting[m]
    BY <1>2, <1>3
  <2>2. t \in TasksIn(list) /\ Once(list) /\ InOrder(list, uxPriority)
    BY <1>3, <1>5, <2>1 DEF ShareInv, Listed
  <2>3. PICK rest : rest = Without(list, t)
    OBVIOUS
  <2>4. /\ rest \in Seq(Tasks) /\ TasksIn(rest) = TasksIn(list) \ {t}
        /\ InOrder(rest, uxPriority) /\ Once(rest)
    BY <1>2, <2>2, <2>3, WithoutFacts
  <2>5. waiting' = [waiting EXCEPT ![m] = rest] /\ pc' = [pc EXCEPT ![t] = "take"]
    BY <1>5, <2>1, <2>3 DEF TimeElapses, Go
  <2>6. /\ waiting'[m] = rest /\ pc'[t] = "take"
        /\ \A n \in Mutexes : n # m => waiting'[n] = waiting[n]
        /\ \A u \in Tasks : u # t => pc'[u] = pc[u]
        /\ waiting' \in [Mutexes -> Seq(Tasks)] /\ pc' \in [Tasks -> Places]
    BY <1>2, <1>3, <2>4, <2>5 DEF Places
  <2>7. MutexTypes'
    BY <1>1, <2>6 DEF ShareInv, MutexTypes
  <2>8. \A u \in Tasks : pc'[u] \in Wanting <=> pc[u] \in Wanting
    BY <1>5, <2>6 DEF Wanting
  <2>9. Nesting'
    BY <1>1, <2>8 DEF ShareInv, Nesting, Busy, HoldsOfNest, NextOfNest, Begins
  <2>10. Holding'
    BY <1>1 DEF ShareInv, Holding, Once
  <2>11. \A n \in Mutexes : TasksIn(waiting'[n]) = TasksIn(waiting[n]) \ {t}
    <3>1. ASSUME NEW n \in Mutexes, n # m, t \in TasksIn(waiting[n]) PROVE FALSE
      BY <3>1, ListedFacts DEF ShareInv
    <3> QED
      BY <2>1, <2>4, <2>6, <3>1
  <2>12. Listed'
    <3>1. ASSUME NEW n \in Mutexes PROVE Once(waiting'[n]) /\ InOrder(waiting'[n], uxPriority)
      BY <2>4, <2>6 DEF ShareInv, Listed
    <3>2. ASSUME NEW n \in Mutexes, NEW u \in TasksIn(waiting'[n])
          PROVE  pc'[u] = "waiting" /\ want[u] = n
      <4>1. u \in TasksIn(waiting[n]) /\ u # t
        BY <2>11
      <4> QED
        BY <2>6, <4>1, ListedFacts DEF ShareInv
    <3>3. ASSUME NEW u \in Tasks, pc'[u] = "waiting" PROVE u \in TasksIn(waiting'[want[u]])
      <4>1. u # t /\ pc[u] = "waiting"
        BY <2>6, <3>3
      <4>2. Busy(u) /\ u \in TasksIn(waiting[want[u]])
        BY <4>1 DEF ShareInv, Listed, Busy, Wanting
      <4>3. want[u] \in Mutexes
        BY <4>2, WantedFacts DEF ShareInv
      <4> QED
        BY <2>11, <4>1, <4>2, <4>3
    <3> QED
      BY <1>1, <3>1, <3>2, <3>3 DEF Listed, Once, InOrder, TasksIn
  <2>13. OwnPriority'
    BY <1>1 DEF ShareInv, OwnPriority
  <2>14. Inherits'
    BY <1>1, <2>11 DEF ShareInv, Inherits, TasksIn
  <2>15. Heirs'
    <3> SUFFICES ASSUME NEW n \in Mutexes, xMutexHolder[n] = NoTask, waiting'[n] # <<>>
                 PROVE  \E u \in Tasks : Heir(n, u)'
      BY <1>1 DEF Heirs
    <3>1. waiting[n] # <<>>
      BY <1>3, <2>1, <2>2, <2>6 DEF TasksIn
    <3>2. PICK u \in Tasks : Heir(n, u)
      BY <3>1 DEF ShareInv, Heirs
    <3>3. pc'[u] = "take" /\ want'[u] = n
      BY <1>1, <2>6, <3>2 DEF Heir
    <3>4. \A v \in TasksIn(waiting'[n]) : uxPriority'[v] <= uxPriority'[u]
      BY <1>1, <2>11, <3>2 DEF Heir
    <3> QED
      BY <3>3, <3>4 DEF Heir, TasksIn
  <2> QED
    BY <2>7, <2>9, <2>10, <2>12, <2>13, <2>14, <2>15 DEF ShareInv
<1> QED
  BY <1>4, <1>5

LEMMA ShareInitially ==
    ASSUME pc = Idle, MutexStart
    PROVE  ShareInv
<1>1. /\ pc = [t \in Tasks |-> "idle"] /\ uxPriority = Priority /\ Priority \in [Tasks -> Nat]
      /\ xMutexHolder = [m \in Mutexes |-> NoTask] /\ waiting = [m \in Mutexes |-> <<>>]
      /\ held = [t \in Tasks |-> <<>>] /\ want = [t \in Tasks |-> NoMutex]
  BY TasksAssumption DEF Idle, MutexStart, NoMutexUsed
<1>2. MutexTypes
  BY <1>1 DEF MutexTypes, Places
<1>3. Nesting
  BY <1>1 DEF Nesting, Busy, Wanting
<1>4. Holding
  BY <1>1 DEF Holding, Once
<1>5. Listed
  BY <1>1 DEF Listed, Once, InOrder, TasksIn
<1>6. OwnPriority
  BY <1>1 DEF OwnPriority
<1>7. Inherits /\ Heirs
  BY <1>1 DEF Inherits, Heirs
<1> QED
  BY <1>2, <1>3, <1>4, <1>5, <1>6, <1>7 DEF ShareInv

LEMMA ShareUntouched ==
    ASSUME ShareInv, UNCHANGED <<pc, uxPriority, xMutexHolder, waiting, held, want>>
    PROVE  ShareInv'
<1>1. MutexTypes' /\ Nesting'
  BY DEF ShareInv, MutexTypes, Nesting, Busy, HoldsOfNest, NextOfNest, Begins
<1>2. Holding' /\ Listed'
  BY DEF ShareInv, Holding, Listed, Once, InOrder, TasksIn
<1>3. OwnPriority' /\ Inherits' /\ Heirs'
  BY DEF ShareInv, OwnPriority, Inherits, Heirs, Heir, TasksIn
<1> QED
  BY <1>1, <1>2, <1>3 DEF ShareInv

LEMMA ShareStep ==
    ASSUME OuterUncontended, ShareInv, [TimedNext]_timedVars
    PROVE  ShareInv'
<1>1. CASE UNCHANGED timedVars
  BY <1>1, ShareUntouched DEF timedVars, mutexVars
<1>2. CASE TimedNext
  <2>1. PICK t \in Tasks :
            \/ Running(t) /\ \/ LockFor(t) \/ TakeAtOnce(t) \/ TakeInTime(t) \/ BlockFor(t)
                             \/ TimeIsOver(t) \/ LookOnceMore(t) \/ TakeBack(t)
                             \/ (Give(t) \/ Sleep(t)) /\ UNCHANGED waitVars
            \/ WakeUp(t) /\ UNCHANGED waitVars
            \/ TimeElapses(t)
    BY <1>2 DEF TimedNext
  <2>2. CASE LockFor(t)
    BY <2>2, LockShare DEF LockFor
  <2>3. CASE TakeAtOnce(t) \/ TimeIsOver(t) \/ LookOnceMore(t)
    BY <2>3, CallStepShare
  <2>4. CASE Running(t) /\ TakeInTime(t)
    BY <2>4, CallStepShare, TakeShare DEF TakeInTime
  <2>5. CASE BlockFor(t)
    BY <2>5, CallStepShare, BlockShare DEF BlockFor
  <2>6. CASE TakeBack(t)
    BY <2>6, TakeBackShare
  <2>7. CASE Give(t) /\ UNCHANGED waitVars
    BY <2>7, GiveShare
  <2>8. CASE (Sleep(t) \/ WakeUp(t)) /\ UNCHANGED waitVars
    BY <2>8, SleepShare DEF Sleep, WakeUp, Go
  <2>9. CASE TimeElapses(t)
    BY <2>9, TimeElapsesShare
  <2> QED
    BY <2>1, <2>2, <2>3, <2>4, <2>5, <2>6, <2>7, <2>8, <2>9
<1> QED
  BY <1>1, <1>2

\* The invariant holds: what priority inheritance rests on, xTaskPriorityInherit and
\* xTaskPriorityDisinherit with the lists they leave.
THEOREM SharedByPriority ==
    ASSUME OuterUncontended
    PROVE  TimedSpec => []ShareInv
<1>1. TimedInit => ShareInv
  BY ShareInitially DEF TimedInit
<1>2. ShareInv /\ [TimedNext]_timedVars => ShareInv'
  BY ShareStep
<1> QED
  BY <1>1, <1>2, PTL DEF TimedSpec

LEMMA SharedHolders ==
    ShareInv => HolderInherits
<1> SUFFICES ASSUME ShareInv PROVE HolderInherits
  OBVIOUS
<1>1. ASSUME NEW m \in Mutexes, xMutexHolder[m] # NoTask, NEW i \in 1..Len(waiting[m])
      PROVE  uxPriority[waiting[m][i]] <= uxPriority[xMutexHolder[m]]
  BY <1>1 DEF ShareInv, Inherits, TasksIn
<1> QED
  BY <1>1 DEF HolderInherits, ShareInv, OwnPriority

\* No priority inversion: whoever holds a mutex (Fmutex, queue.c) has at least the
\* priority of everybody who waits for it, with every nest, priority and timeout.
THEOREM HoldersInherit ==
    ASSUME OuterUncontended
    PROVE  TimedSpec => []HolderInherits
  BY SharedHolders, SharedByPriority, PTL

-------------------------------------------------------------------------------
\* What is lent.

\* A task that nests nothing holds one mutex, and has not begun to take another.
LEMMA HoldsOne ==
    ASSUME MutexTypes, Nesting, NEW t \in Tasks, NestsNothing(t)
    PROVE  Len(held[t]) = 1
<1>1. PICK nest \in Nests[t] : Len(held[t]) <= Len(nest) /\ Begins(nest, t)
  BY DEF Nesting, HoldsOfNest, NestsNothing
<1>2. PICK mine \in Seq(Mutexes) : mine = held[t] /\ mine # <<>>
  BY DEF MutexTypes, NestsNothing
<1>3. nest \in Seq(Mutexes)
  BY MutexAssumption
<1>4. Len(mine) \in Nat /\ Len(mine) >= 1 /\ Len(nest) \in Nat /\ 1 \in 1..Len(mine)
  BY <1>2, <1>3
<1>5. mine[1] = nest[1] /\ nest # <<>>
  BY <1>1, <1>2, <1>3, <1>4 DEF Begins
<1>6. Head(nest) = Head(mine)
  BY <1>2, <1>3, <1>5
<1>7. Len(nest) <= 1
  BY <1>2, <1>6 DEF NestsNothing
<1>8. Len(mine) <= 1
  BY <1>1, <1>2, <1>7
<1>9. Len(mine) = 1
  <2>1. PICK n \in Nat : n = Len(mine)
    BY <1>4
  <2>2. n >= 1 /\ n <= 1
    BY <1>4, <1>8, <2>1
  <2> QED
    BY <2>1, <2>2
<1> QED
  BY <1>2, <1>9

\* Steps that change nobody's priority and give and take nothing.
LEMMA LentKept ==
    ASSUME ShareInv, LentInv, NEW t \in Tasks,
           UNCHANGED <<uxPriority, xMutexHolder, held>>,
           \A u \in Tasks : u # t =>
               /\ pc'[u] = pc[u] /\ want'[u] = want[u]
               /\ xTicksToWait'[u] = xTicksToWait[u]
               /\ xInheritanceOccurred'[u] = xInheritanceOccurred[u],
           pc'[t] # "waiting",
           \A x \in Tasks : NestsNothing(x) /\ Priority[x] < uxPriority[x] /\ Owes(t, x) => Owes(t, x)'
    PROVE  LentInv'
<1>1. \A x \in Tasks : NestsNothing(x)' <=> NestsNothing(x)
  BY DEF NestsNothing
<1>2. Lent'
  <2> SUFFICES ASSUME NEW x \in Tasks, NestsNothing(x), uxPriority[x] # Priority[x]
               PROVE  \E u \in Tasks : Owes(u, x)'
    BY <1>1 DEF Lent
  <2>1. PICK u \in Tasks : Owes(u, x)
    BY DEF LentInv, Lent
  <2>2. Priority[x] \in Nat /\ uxPriority[x] \in Nat /\ Priority[x] <= uxPriority[x]
    BY TasksAssumption DEF ShareInv, MutexTypes, OwnPriority
  <2>3. CASE u = t
    BY <2>1, <2>2, <2>3
  <2>4. CASE u # t
    BY <2>1, <2>4 DEF Owes, Busy
  <2> QED
    BY <2>3, <2>4
<1>3. Noted'
  BY <1>1 DEF LentInv, Noted
<1> QED
  BY <1>2, <1>3 DEF LentInv

LEMMA CallStepLent ==
    ASSUME ShareInv, TicksTyped, LentInv, NEW t \in Tasks,
           \/ LockFor(t) \/ TakeAtOnce(t) \/ TimeIsOver(t) \/ LookOnceMore(t)
           \/ TakeInTime(t) /\ ~Free(t)
           \/ (BlockFor(t) \/ TakeBack(t)) /\ Free(t)
           \/ (Sleep(t) \/ WakeUp(t)) /\ UNCHANGED waitVars
    PROVE  LentInv'
<1>1. /\ pc \in [Tasks -> Places] /\ want \in [Tasks -> Mutexes \cup {NoMutex}]
      /\ xTicksToWait \in [Tasks -> {"none", "finite", "forever", "elapsed"}]
      /\ xInheritanceOccurred \in [Tasks -> BOOLEAN]
  BY DEF ShareInv, MutexTypes, TicksTyped
<1>2. UNCHANGED <<uxPriority, xMutexHolder, held>>
  BY DEF LockFor, Lock, TakeAtOnce, TimeIsOver, LookOnceMore, TakeInTime, SemaphoreTake, BlockFor,
         BlockOnMutex, TakeBack, Sleep, WakeUp, Free, mutexVars
<1>3. \A u \in Tasks : u # t => pc'[u] = pc[u] /\ want'[u] = want[u]
  BY <1>1 DEF LockFor, Lock, TakeAtOnce, TimeIsOver, LookOnceMore, TakeInTime, SemaphoreTake,
         BlockFor, BlockOnMutex, TakeBack, Sleep, WakeUp, Free, Fail, Go, mutexVars
<1>4. \A u \in Tasks : u # t => /\ xTicksToWait'[u] = xTicksToWait[u]
                                /\ xInheritanceOccurred'[u] = xInheritanceOccurred[u]
  BY <1>1 DEF LockFor, TakeAtOnce, TimeIsOver, LookOnceMore, TakeInTime, BlockFor, TakeBack,
         Ticks, waitVars
<1>5. pc'[t] # "waiting"
  BY <1>1 DEF LockFor, Lock, TakeAtOnce, TimeIsOver, LookOnceMore, TakeInTime, SemaphoreTake,
         BlockFor, BlockOnMutex, TakeBack, Sleep, WakeUp, Free, Fail, Go
<1>6. ASSUME NEW x \in Tasks, Owes(t, x) PROVE Owes(t, x)'
  <2>1. Busy(t) /\ pc[t] \in Wanting /\ xMutexHolder[want[t]] = x /\ ~Free(t)
    BY <1>6, TasksAssumption DEF Owes, Busy, Free
  <2>2. ~LockFor(t) /\ ~Sleep(t) /\ ~WakeUp(t)
    BY <2>1 DEF LockFor, Lock, Sleep, WakeUp, Wanting
  <2>3. ~TakeAtOnce(t)
    BY <1>6 DEF TakeAtOnce, Owes
  <2>4. \/ TimeIsOver(t) \/ LookOnceMore(t) \/ TakeInTime(t)
    BY <2>1, <2>2, <2>3
  <2>5. /\ want'[t] = want[t] /\ xInheritanceOccurred[t] /\ xInheritanceOccurred'[t]
        /\ pc'[t] \in {"over", "disinherit", "block"}
    <3>1. CASE TimeIsOver(t)
      BY <1>1, <1>6, <3>1 DEF TimeIsOver, Owes, Go, mutexVars
    <3>2. CASE LookOnceMore(t)
      BY <1>1, <1>6, <2>1, <3>2 DEF LookOnceMore, Owes, Go, waitVars
    <3>3. CASE TakeInTime(t)
      BY <1>1, <1>6, <2>1, <3>3 DEF TakeInTime, SemaphoreTake, Owes, Free, Go, waitVars
    <3> QED
      BY <2>4, <3>1, <3>2, <3>3
  <2> QED
    BY <1>2, <1>6, <2>5 DEF Owes, Busy, Wanting
<1> QED
  BY <1>2, <1>3, <1>4, <1>5, <1>6, LentKept

LEMMA TimeElapsesLent ==
    ASSUME ShareInv, TicksTyped, LentInv, NEW t \in Tasks, TimeElapses(t)
    PROVE  LentInv'
<1>1. /\ pc \in [Tasks -> Places]
      /\ xTicksToWait \in [Tasks -> {"none", "finite", "forever", "elapsed"}]
  BY DEF ShareInv, MutexTypes, TicksTyped
<1>2. /\ UNCHANGED <<uxPriority, xMutexHolder, held, want, xInheritanceOccurred>>
      /\ xTicksToWait' = [xTicksToWait EXCEPT ![t] = "elapsed"]
      /\ pc' = [pc EXCEPT ![t] = IF pc[t] = "waiting" THEN "take" ELSE pc[t]]
  BY <1>1 DEF TimeElapses, Ticks, Go
<1>3. /\ xTicksToWait'[t] = "elapsed" /\ pc'[t] # "waiting"
      /\ pc'[t] \in Wanting <=> pc[t] \in Wanting
      /\ \A u \in Tasks : u # t => pc'[u] = pc[u] /\ xTicksToWait'[u] = xTicksToWait[u]
  BY <1>1, <1>2 DEF Wanting
<1>4. ASSUME NEW x \in Tasks, NestsNothing(x), Priority[x] < uxPriority[x], Owes(t, x)
      PROVE  Owes(t, x)'
  <2>1. pc[t] = "waiting" => xInheritanceOccurred[t]
    <3>1. /\ Priority[x] \in Nat /\ uxPriority[x] \in Nat /\ uxPriority[t] \in Nat
          /\ uxPriority[x] <= uxPriority[t]
      BY <1>4, TasksAssumption DEF ShareInv, MutexTypes, Owes
    <3>2. Priority[x] < uxPriority[t]
      BY <1>4, <3>1
    <3> QED
      BY <1>4, <3>2 DEF LentInv, Noted, Owes
  <2>2. xInheritanceOccurred[t]
    BY <1>4, <2>1 DEF Owes
  <2> QED
    BY <1>2, <1>3, <1>4, <2>2 DEF Owes, Busy
<1> QED
  BY <1>2, <1>3, <1>4, LentKept

\* A task that nests nothing with the mutex it takes, held none before.
LEMMA TakenFirst ==
    ASSUME MutexTypes, Nesting, NEW t \in Tasks, Busy(t), NEW m \in Mutexes,
           held' = [held EXCEPT ![t] = Append(held[t], m)]
    PROVE  NestsNothing(t)' => held[t] = <<>>
<1> SUFFICES ASSUME NestsNothing(t)', held[t] # <<>> PROVE FALSE
  OBVIOUS
<1>1. PICK mine \in Seq(Mutexes) : mine = held[t]
  BY DEF MutexTypes
<1>2. PICK nest \in Nests[t] : Len(mine) < Len(nest) /\ Begins(nest, t)
  BY <1>1 DEF Nesting, NextOfNest
<1>3. nest \in Seq(Mutexes)
  BY MutexAssumption
<1>4. 1 \in 1..Len(mine) /\ Len(mine) \in Nat /\ Len(nest) \in Nat /\ nest # <<>>
  BY <1>1, <1>2, <1>3
<1>5. Head(nest) = mine[1]
  BY <1>1, <1>2, <1>3, <1>4 DEF Begins
<1>6. Head(Append(mine, m)) = mine[1]
  BY <1>4
<1>7. held'[t] = Append(mine, m)
  BY <1>1 DEF MutexTypes
<1>8. Len(nest) <= 1
  BY <1>5, <1>6, <1>7 DEF NestsNothing
<1> QED
  BY <1>2, <1>4, <1>8

LEMMA TakeLent ==
    ASSUME ShareInv, LentInv, NEW t \in Tasks, Running(t), TakeInTime(t), Free(t)
    PROVE  LentInv'
<1> DEFINE m == want[t]
<1>1. pc[t] = "take" /\ Busy(t) /\ xMutexHolder[m] = NoTask
  BY DEF TakeInTime, Free, Busy, Wanting
<1>2. m \in Mutexes
  BY <1>1, WantedFacts DEF ShareInv
<1>3. /\ xMutexHolder' = [xMutexHolder EXCEPT ![m] = t]
      /\ held' = [held EXCEPT ![t] = Append(held[t], m)]
      /\ want' = [want EXCEPT ![t] = NoMutex] /\ pc' = [pc EXCEPT ![t] = "idle"]
      /\ UNCHANGED <<uxPriority, xTicksToWait, xInheritanceOccurred>>
  BY DEF TakeInTime, SemaphoreTake, Free, Go, waitVars
<1>4. /\ pc \in [Tasks -> Places] /\ xMutexHolder \in [Mutexes -> Tasks \cup {NoTask}]
      /\ held \in [Tasks -> Seq(Mutexes)] /\ want \in [Tasks -> Mutexes \cup {NoMutex}]
  BY DEF ShareInv, MutexTypes
<1>5. /\ pc'[t] = "idle" /\ xMutexHolder'[m] = t
      /\ \A u \in Tasks : u # t => pc'[u] = pc[u] /\ want'[u] = want[u] /\ held'[u] = held[u]
      /\ \A n \in Mutexes : n # m => xMutexHolder'[n] = xMutexHolder[n]
  BY <1>2, <1>3, <1>4
<1>6. \A x \in Tasks : x # t => (NestsNothing(x)' <=> NestsNothing(x))
  BY <1>5 DEF NestsNothing
<1>7. NestsNothing(t)' => held[t] = <<>>
  BY <1>1, <1>2, <1>3, TakenFirst DEF ShareInv
\* Who wants a mutex that is held wants another one.
<1>8. ASSUME NEW u \in Tasks, NEW x \in Tasks, Busy(u), xMutexHolder[want[u]] = x
      PROVE  u # t /\ want'[u] = want[u] /\ pc'[u] = pc[u] /\ xMutexHolder'[want[u]] = x
  <2>1. want[u] # m /\ want[u] \in Mutexes
    BY <1>1, <1>8, WantedFacts, TasksAssumption DEF ShareInv
  <2> QED
    BY <1>5, <1>8, <2>1
<1>9. Lent'
  <2> SUFFICES ASSUME NEW x \in Tasks, NestsNothing(x)', uxPriority[x] # Priority[x]
               PROVE  \E u \in Tasks : Owes(u, x)'
    BY <1>3 DEF Lent
  <2>1. x # t
    BY <1>7 DEF ShareInv, OwnPriority
  <2>2. PICK u \in Tasks : Owes(u, x)
    BY <1>6, <2>1 DEF LentInv, Lent
  <2>3. Busy(u) /\ xMutexHolder[want[u]] = x
    BY <2>2 DEF Owes
  <2>4. want'[u] = want[u] /\ pc'[u] = pc[u] /\ xMutexHolder'[want[u]] = x
    BY <1>8, <2>3
  <2> QED
    BY <1>3, <2>2, <2>4 DEF Owes, Busy
<1>10. Noted'
  <2> SUFFICES ASSUME NEW u \in Tasks, NEW x \in Tasks, pc'[u] = "waiting",
                      xMutexHolder'[want'[u]] = x, NestsNothing(x)', Priority[x] < uxPriority[u]
               PROVE  xInheritanceOccurred[u]
    BY <1>3 DEF Noted
  <2>1. u # t /\ pc[u] = "waiting" /\ want'[u] = want[u] /\ Busy(u)
    BY <1>5 DEF Busy, Wanting
  <2>2. want[u] \in Mutexes
    BY <2>1, WantedFacts DEF ShareInv
  <2>3. CASE want[u] # m
    <3>1. xMutexHolder[want[u]] = x
      BY <1>5, <2>1, <2>2, <2>3
    <3>2. x # t
      <4>1. ASSUME x = t PROVE FALSE
        <5>1. held[t] # <<>>
          BY <2>2, <3>1, <4>1, TasksAssumption DEF ShareInv, Holding
        <5> QED
          BY <1>7, <4>1, <5>1
      <4> QED
        BY <4>1
    <3> QED
      BY <1>6, <2>1, <3>1, <3>2 DEF LentInv, Noted
  <2>4. CASE want[u] = m
    \* The task that takes it has its own priority, which is at least that of u.
    <3>1. x = t /\ held[t] = <<>>
      BY <1>5, <1>7, <2>1, <2>4
    <3>2. uxPriority[t] = Priority[t]
      BY <3>1 DEF ShareInv, OwnPriority
    <3>3. u \in TasksIn(waiting[m])
      BY <2>1, <2>4 DEF ShareInv, Listed
    <3>4. Inherits'
      BY TakeShare DEF ShareInv, TakeInTime
    <3>5. waiting' = waiting
      BY DEF TakeInTime, SemaphoreTake
    <3>6. xMutexHolder'[m] # NoTask
      BY <1>5, TasksAssumption
    <3>7. uxPriority[u] <= uxPriority[t]
      BY <1>2, <1>3, <1>5, <3>3, <3>4, <3>5, <3>6 DEF Inherits, TasksIn
    <3>8. uxPriority[u] \in Nat /\ uxPriority[t] \in Nat
      BY DEF ShareInv, MutexTypes
    <3> QED
      BY <3>1, <3>2, <3>7, <3>8
  <2> QED
    BY <2>3, <2>4
<1> QED
  BY <1>9, <1>10 DEF LentInv

LEMMA BlockLent ==
    ASSUME OuterUncontended, ShareInv, TicksTyped, LentInv, NEW t \in Tasks, BlockFor(t), ~Free(t)
    PROVE  LentInv'
<1> DEFINE m == want[t]
           h == xMutexHolder[m]
<1>1. pc[t] = "block" /\ Busy(t) /\ h # NoTask
  BY DEF BlockFor, Free, Busy, Wanting
<1>2. m \in Mutexes /\ h \in Tasks /\ (Busy(h) => h = t)
  BY <1>1, HolderWantsNothing DEF ShareInv
<1>3. /\ uxPriority' = PriorityInherit(h, t) /\ pc' = [pc EXCEPT ![t] = "waiting"]
      /\ UNCHANGED <<xMutexHolder, held, want, xTicksToWait>>
  BY DEF BlockFor, BlockOnMutex, Free, Go
<1>4. /\ pc \in [Tasks -> Places] /\ uxPriority \in [Tasks -> Nat] /\ Priority \in [Tasks -> Nat]
      /\ xInheritanceOccurred \in [Tasks -> BOOLEAN]
  BY TasksAssumption DEF ShareInv, MutexTypes, TicksTyped
<1>5. pc'[t] = "waiting" /\ \A u \in Tasks : u # t => pc'[u] = pc[u]
  BY <1>3, <1>4
<1>6. \A u \in Tasks : u # t => xInheritanceOccurred'[u] = xInheritanceOccurred[u]
  BY <1>4 DEF BlockFor, Free
<1>7. Priority[h] < uxPriority[t] => xInheritanceOccurred'[t]
  BY <1>4 DEF BlockFor, Free
\* Either the holder gets the priority of the task, or nothing changes.
<1>8. \/ /\ uxPriority[h] < uxPriority[t] /\ uxPriority'[h] = uxPriority[t] /\ h # t
         /\ \A u \in Tasks : u # h => uxPriority'[u] = uxPriority[u]
      \/ uxPriority[t] <= uxPriority[h] /\ uxPriority' = uxPriority
  <2>1. CASE uxPriority[h] < uxPriority[t]
    <3>1. uxPriority' = [uxPriority EXCEPT ![h] = uxPriority[t]]
      BY <1>3, <2>1 DEF PriorityInherit
    <3>2. h # t
      BY <1>4, <2>1
    <3> QED
      BY <1>2, <1>4, <2>1, <3>1, <3>2
  <2>2. CASE ~(uxPriority[h] < uxPriority[t])
    <3>1. uxPriority' = uxPriority
      BY <1>3, <2>2 DEF PriorityInherit
    <3> QED
      BY <1>2, <1>4, <2>2, <3>1
  <2> QED
    BY <2>1, <2>2
<1>9. \A x \in Tasks : NestsNothing(x)' <=> NestsNothing(x)
  BY <1>3 DEF NestsNothing
<1>10. \A u \in Tasks : Busy(u) => uxPriority'[u] = uxPriority[u]
  BY <1>2, <1>8
<1>11. \A u \in Tasks : pc'[u] \in Wanting <=> pc[u] \in Wanting
  BY <1>1, <1>5 DEF Wanting
<1>12. Lent'
  <2> SUFFICES ASSUME NEW x \in Tasks, NestsNothing(x), uxPriority'[x] # Priority[x]
               PROVE  \E u \in Tasks : Owes(u, x)'
    BY <1>9 DEF Lent
  <2>1. CASE uxPriority'[x] # uxPriority[x]
    <3>1. x = h /\ h # t /\ uxPriority'[h] = uxPriority[t] /\ uxPriority'[t] = uxPriority[t]
      BY <1>1, <1>8, <1>10, <2>1
    <3>2. Owes(t, x)'
      BY <1>1, <1>3, <1>4, <1>5, <1>11, <3>1 DEF Owes, Busy
    <3> QED
      BY <3>2
  <2>2. CASE uxPriority'[x] = uxPriority[x]
    <3>1. PICK u \in Tasks : Owes(u, x)
      BY <2>2 DEF LentInv, Lent
    <3>2. uxPriority'[u] = uxPriority[u]
      BY <1>10, <3>1 DEF Owes
    <3>3. CASE u = t
      BY <1>3, <1>5, <1>11, <2>2, <3>1, <3>2, <3>3 DEF Owes, Busy
    <3>4. CASE u # t
      BY <1>3, <1>5, <1>6, <1>11, <2>2, <3>1, <3>2, <3>4 DEF Owes, Busy
    <3> QED
      BY <3>3, <3>4
  <2> QED
    BY <2>1, <2>2
<1>13. Noted'
  <2> SUFFICES ASSUME NEW u \in Tasks, NEW x \in Tasks, pc'[u] = "waiting",
                      xMutexHolder[want[u]] = x, NestsNothing(x), Priority[x] < uxPriority'[u]
               PROVE  xInheritanceOccurred'[u]
    BY <1>3, <1>9 DEF Noted
  <2>1. Busy(u) /\ uxPriority'[u] = uxPriority[u]
    BY <1>10, <1>11 DEF Busy, Wanting
  <2>2. CASE u = t
    BY <1>7, <2>1, <2>2
  <2>3. CASE u # t
    BY <1>5, <1>6, <2>1, <2>3 DEF LentInv, Noted
  <2> QED
    BY <2>2, <2>3
<1> QED
  BY <1>12, <1>13 DEF LentInv

LEMMA TakeBackLent ==
    ASSUME OuterUncontended, ShareInv, LentInv, NEW t \in Tasks, TakeBack(t), ~Free(t)
    PROVE  LentInv'
<1> DEFINE m == want[t]
           h == xMutexHolder[m]
<1>1. /\ pc[t] = "disinherit" /\ Busy(t)
      /\ pc' = [pc EXCEPT ![t] = "idle"] /\ want' = [want EXCEPT ![t] = NoMutex]
      /\ UNCHANGED <<xMutexHolder, waiting, held, xTicksToWait, xInheritanceOccurred>>
  BY DEF TakeBack, Busy, Wanting, Fail, Go, waitVars
<1>2. /\ m \in Mutexes /\ h \in Tasks /\ (Busy(h) => h = t)
      /\ \A u \in Tasks \ {h} : uxPriority'[u] = uxPriority[u]
      /\ Len(held[h]) = 1 =>
            /\ waiting[m] = <<>> => uxPriority'[h] = Priority[h]
            /\ waiting[m] # <<>> => \/ uxPriority'[h] = Priority[h]
                                    \/ uxPriority'[h] = uxPriority[Head(waiting[m])]
  BY TakeBackFacts
<1>3. /\ pc \in [Tasks -> Places] /\ want \in [Tasks -> Mutexes \cup {NoMutex}]
      /\ waiting \in [Mutexes -> Seq(Tasks)] /\ uxPriority \in [Tasks -> Nat]
  BY DEF ShareInv, MutexTypes
<1>4. pc'[t] = "idle" /\ \A u \in Tasks : u # t => pc'[u] = pc[u] /\ want'[u] = want[u]
  BY <1>1, <1>3
<1>5. \A x \in Tasks : NestsNothing(x)' <=> NestsNothing(x)
  BY <1>1 DEF NestsNothing
<1>6. \A u \in Tasks : Busy(u) /\ u # t => u # h /\ uxPriority'[u] = uxPriority[u]
  BY <1>2
<1>7. Lent'
  <2> SUFFICES ASSUME NEW x \in Tasks, NestsNothing(x), uxPriority'[x] # Priority[x]
               PROVE  \E u \in Tasks : Owes(u, x)'
    BY <1>5 DEF Lent
  <2>1. CASE x = h
    <3>1. Len(held[h]) = 1
      BY <2>1, HoldsOne DEF ShareInv
    <3>2. waiting[m] # <<>> /\ uxPriority'[h] = uxPriority[Head(waiting[m])]
      BY <1>2, <2>1, <3>1
    <3>3. PICK list \in Seq(Tasks) : list = waiting[m]
      BY <1>2, <1>3
    <3>4. PICK u : u = Head(list) /\ u \in TasksIn(list)
      BY <3>2, <3>3 DEF TasksIn
    <3>5. u \in Tasks /\ pc[u] = "waiting" /\ want[u] = m /\ Busy(u)
      BY <1>2, <3>3, <3>4, ListedFacts DEF ShareInv
    <3>6. u # t /\ uxPriority'[u] = uxPriority[u] /\ uxPriority[u] \in Nat
      BY <1>1, <1>3, <1>6, <3>5
    <3>7. uxPriority'[h] <= uxPriority'[u]
      BY <3>2, <3>3, <3>4, <3>6
    <3>8. Owes(u, x)'
      BY <1>1, <1>4, <2>1, <3>5, <3>6, <3>7 DEF Owes, Busy
    <3> QED
      BY <3>5, <3>8
  <2>2. CASE x # h
    <3>1. uxPriority'[x] = uxPriority[x]
      BY <1>2, <2>2
    <3>2. PICK u \in Tasks : Owes(u, x)
      BY <3>1 DEF LentInv, Lent
    <3>3. Busy(u) /\ u # t
      BY <2>2, <3>2 DEF Owes
    <3>4. uxPriority'[u] = uxPriority[u] /\ pc'[u] = pc[u] /\ want'[u] = want[u]
      BY <1>4, <1>6, <3>3
    <3> QED
      BY <1>1, <3>1, <3>2, <3>4 DEF Owes, Busy
  <2> QED
    BY <2>1, <2>2
<1>8. Noted'
  <2> SUFFICES ASSUME NEW u \in Tasks, NEW x \in Tasks, pc'[u] = "waiting",
                      xMutexHolder[want'[u]] = x, NestsNothing(x), Priority[x] < uxPriority'[u]
               PROVE  xInheritanceOccurred[u]
    BY <1>1, <1>5 DEF Noted
  <2>1. u # t /\ pc[u] = "waiting" /\ want'[u] = want[u] /\ Busy(u)
    BY <1>4 DEF Busy, Wanting
  <2>2. uxPriority'[u] = uxPriority[u]
    BY <1>6, <2>1
  <2> QED
    BY <2>1, <2>2 DEF LentInv, Noted
<1> QED
  BY <1>7, <1>8 DEF LentInv

\* Who gives a mutex that nests nothing, holds none.
LEMMA GivenAway ==
    ASSUME ShareInv, NEW t \in Tasks, NEW m, GiveEffect(t, m)
    PROVE  ~NestsNothing(t)'
<1> SUFFICES ASSUME NestsNothing(t)' PROVE FALSE
  OBVIOUS
<1>1. held \in [Tasks -> Seq(Mutexes)]
  BY DEF ShareInv, MutexTypes
<1>2. PICK old \in Seq(Mutexes), new \in Seq(Mutexes) : old = held[t] /\ new = held'[t]
  BY <1>1 DEF GiveEffect
<1>3. /\ old # <<>> /\ new # <<>> /\ Len(new) = Len(old) - 1
      /\ \A i \in 1..(Len(old) - 1) : new[i] = old[i]
  BY <1>2 DEF GiveEffect, NestsNothing
<1>4. Len(new) \in Nat /\ Len(old) \in Nat /\ 1 \in 1..(Len(old) - 1)
  BY <1>2, <1>3
<1>5. Head(new) = Head(old)
  BY <1>2, <1>3, <1>4
<1>6. NestsNothing(t)
  BY <1>2, <1>3, <1>5 DEF NestsNothing
<1>7. Len(old) = 1
  BY <1>2, <1>6, HoldsOne DEF ShareInv
<1> QED
  BY <1>4, <1>7

\* Who wants a mutex of another task goes on as before.
LEMMA WantedElsewhere ==
    ASSUME ShareInv, NEW t \in Tasks, NEW m, GiveEffect(t, m),
           NEW u \in Tasks, NEW x \in Tasks, x # t, Busy(u),
           xMutexHolder[want[u]] = x \/ xMutexHolder'[want[u]] = x
    PROVE  /\ u # t /\ pc'[u] = pc[u] /\ uxPriority'[u] = uxPriority[u]
           /\ xMutexHolder[want[u]] = x /\ xMutexHolder'[want[u]] = x
<1>1. PICK W \in SUBSET TasksIn(waiting[m]) : WakesHeir(m, W)
  BY GiveWakes
<1>2. /\ m \in Mutexes /\ xMutexHolder[m] = t /\ ~Busy(t)
      /\ xMutexHolder \in [Mutexes -> Tasks \cup {NoTask}] /\ uxPriority \in [Tasks -> Nat]
  BY DEF GiveEffect, ShareInv, MutexTypes
<1>3. /\ xMutexHolder'[m] = NoTask
      /\ \A n \in Mutexes : n # m => xMutexHolder'[n] = xMutexHolder[n]
  BY <1>2 DEF GiveEffect
<1>4. uxPriority' = [uxPriority EXCEPT ![t] = uxPriority'[t]]
  BY DEF GiveEffect
<1>5. want[u] \in Mutexes
  BY WantedFacts DEF ShareInv
<1>6. want[u] # m
  BY <1>2, <1>3, TasksAssumption
<1>7. u # t /\ u \notin W
  BY <1>1, <1>2, <1>6, ListedFacts DEF ShareInv
<1>8. pc'[u] = pc[u]
  BY <1>1, <1>7 DEF WakesHeir
<1>9. uxPriority'[u] = uxPriority[u]
  BY <1>2, <1>4, <1>7
<1> QED
  BY <1>3, <1>5, <1>6, <1>7, <1>8, <1>9

LEMMA GiveLent ==
    ASSUME ShareInv, LentInv, NEW t \in Tasks, Give(t), UNCHANGED waitVars
    PROVE  LentInv'
<1>1. PICK m : m = held[t][Len(held[t])] /\ GiveEffect(t, m)
  BY GiveFacts
<1>2. PICK W \in SUBSET TasksIn(waiting[m]) : WakesHeir(m, W)
  BY <1>1, GiveWakes
<1>3. /\ pc \in [Tasks -> Places] /\ uxPriority \in [Tasks -> Nat]
      /\ xMutexHolder \in [Mutexes -> Tasks \cup {NoTask}] /\ held \in [Tasks -> Seq(Mutexes)]
  BY DEF ShareInv, MutexTypes
<1>4. /\ m \in Mutexes /\ xMutexHolder[m] = t /\ pc[t] = "idle" /\ ~Busy(t)
      /\ UNCHANGED <<want, xTicksToWait, xInheritanceOccurred>>
  BY <1>1 DEF GiveEffect, waitVars
<1>5. /\ xMutexHolder'[m] = NoTask
      /\ \A n \in Mutexes : n # m => xMutexHolder'[n] = xMutexHolder[n]
  BY <1>1, <1>3, <1>4 DEF GiveEffect
<1>6. \A u \in Tasks : u # t => held'[u] = held[u] /\ uxPriority'[u] = uxPriority[u]
  BY <1>1, <1>3 DEF GiveEffect
<1>7. /\ \A u \in W : u \in Tasks /\ want[u] = m /\ Busy(u)
      /\ \A u \in Tasks : pc'[u] = IF u \in W THEN "take" ELSE pc[u]
  BY <1>2, <1>4, ListedFacts DEF ShareInv, WakesHeir
<1>8. ~NestsNothing(t)'
  BY <1>1, GivenAway
<1>9. \A x \in Tasks : x # t => (NestsNothing(x)' <=> NestsNothing(x))
  BY <1>6 DEF NestsNothing
<1>10. ASSUME NEW u \in Tasks, NEW x \in Tasks, x # t, pc[u] \in Wanting,
              xMutexHolder[want[u]] = x \/ xMutexHolder'[want[u]] = x
       PROVE  /\ u # t /\ pc'[u] = pc[u] /\ uxPriority'[u] = uxPriority[u]
              /\ xMutexHolder[want[u]] = x /\ xMutexHolder'[want[u]] = x
  BY <1>1, <1>10, WantedElsewhere DEF Busy
<1>11. Lent'
  <2> SUFFICES ASSUME NEW x \in Tasks, NestsNothing(x)', uxPriority'[x] # Priority[x]
               PROVE  \E u \in Tasks : Owes(u, x)'
    BY DEF Lent
  <2>1. x # t /\ NestsNothing(x) /\ uxPriority'[x] = uxPriority[x]
    BY <1>6, <1>8, <1>9
  <2>2. PICK u \in Tasks : Owes(u, x)
    BY <2>1 DEF LentInv, Lent
  <2>3. pc'[u] = pc[u] /\ uxPriority'[u] = uxPriority[u] /\ xMutexHolder'[want[u]] = x
    BY <1>10, <2>1, <2>2 DEF Owes, Busy
  <2> QED
    BY <1>4, <2>1, <2>2, <2>3 DEF Owes, Busy
<1>12. Noted'
  <2> SUFFICES ASSUME NEW u \in Tasks, NEW x \in Tasks, pc'[u] = "waiting",
                      xMutexHolder'[want[u]] = x, NestsNothing(x)', Priority[x] < uxPriority'[u]
               PROVE  xInheritanceOccurred[u]
    BY <1>4 DEF Noted
  <2>1. x # t /\ NestsNothing(x)
    BY <1>8, <1>9
  <2>2. pc[u] = "waiting" /\ pc[u] \in Wanting
    BY <1>7 DEF Wanting
  <2>3. uxPriority'[u] = uxPriority[u] /\ xMutexHolder[want[u]] = x
    BY <1>10, <2>1, <2>2
  <2> QED
    BY <2>1, <2>2, <2>3 DEF LentInv, Noted
<1> QED
  BY <1>11, <1>12 DEF LentInv

LEMMA TicksStep ==
    ASSUME TicksTyped, [TimedNext]_timedVars
    PROVE  TicksTyped'
<1>1. CASE UNCHANGED waitVars
  BY <1>1 DEF TicksTyped, waitVars
<1>2. CASE \E t \in Tasks : LockFor(t)
  <2>1. PICK t \in Tasks : LockFor(t)
    BY <1>2
  <2>2. PICK n \in BlockTimes[t] : xTicksToWait' = [xTicksToWait EXCEPT ![t] = n]
    BY <2>1 DEF LockFor, Ticks
  <2>3. n \in {"none", "finite", "forever", "elapsed"}
    BY BlockTimesAssumption
  <2> QED
    BY <2>1, <2>2, <2>3 DEF LockFor, TicksTyped
<1>3. CASE \E t \in Tasks : BlockFor(t) \/ TimeIsOver(t) \/ TimeElapses(t)
  <2>1. PICK t \in Tasks : BlockFor(t) \/ TimeIsOver(t) \/ TimeElapses(t)
    BY <1>3
  <2>2. xTicksToWait' \in [Tasks -> {"none", "finite", "forever", "elapsed"}]
    BY <2>1 DEF BlockFor, TimeIsOver, TimeElapses, Ticks, TicksTyped
  <2>3. xInheritanceOccurred' = xInheritanceOccurred
           \/ \E b \in BOOLEAN : xInheritanceOccurred' = [xInheritanceOccurred EXCEPT ![t] = b]
    BY <2>1 DEF BlockFor, TimeIsOver, TimeElapses, Free
  <2> QED
    BY <2>2, <2>3 DEF TicksTyped
<1> QED
  BY <1>1, <1>2, <1>3 DEF TimedNext, timedVars, waitVars, TakeAtOnce, TakeInTime, LookOnceMore,
                          TakeBack

LEMMA LentStep ==
    ASSUME OuterUncontended, ShareInv, TicksTyped, LentInv, [TimedNext]_timedVars
    PROVE  LentInv'
<1>1. CASE UNCHANGED timedVars
  <2>1. /\ UNCHANGED <<pc, uxPriority, xMutexHolder, held, want>>
        /\ UNCHANGED <<xTicksToWait, xInheritanceOccurred>>
    BY <1>1 DEF timedVars, mutexVars, waitVars
  <2> QED
    BY <2>1 DEF LentInv, Lent, Noted, NestsNothing, Owes, Busy
<1>2. CASE TimedNext
  <2>1. PICK t \in Tasks :
            \/ Running(t) /\ \/ LockFor(t) \/ TakeAtOnce(t) \/ TakeInTime(t) \/ BlockFor(t)
                             \/ TimeIsOver(t) \/ LookOnceMore(t) \/ TakeBack(t)
                             \/ (Give(t) \/ Sleep(t)) /\ UNCHANGED waitVars
            \/ WakeUp(t) /\ UNCHANGED waitVars
            \/ TimeElapses(t)
    BY <1>2 DEF TimedNext
  <2>2. CASE LockFor(t) \/ TakeAtOnce(t) \/ TimeIsOver(t) \/ LookOnceMore(t)
    BY <2>2, CallStepLent
  <2>3. CASE Running(t) /\ TakeInTime(t)
    BY <2>3, CallStepLent, TakeLent
  <2>4. CASE BlockFor(t)
    BY <2>4, CallStepLent, BlockLent
  <2>5. CASE TakeBack(t)
    BY <2>5, CallStepLent, TakeBackLent
  <2>6. CASE Give(t) /\ UNCHANGED waitVars
    BY <2>6, GiveLent
  <2>7. CASE (Sleep(t) \/ WakeUp(t)) /\ UNCHANGED waitVars
    BY <2>7, CallStepLent
  <2>8. CASE TimeElapses(t)
    BY <2>8, TimeElapsesLent
  <2> QED
    BY <2>1, <2>2, <2>3, <2>4, <2>5, <2>6, <2>7, <2>8
<1> QED
  BY <1>1, <1>2

\* A lent priority is given back (vTaskPriorityDisinheritAfterTimeout): who holds one
\* mutex by itself has its own, or that of somebody who waits or will take it back.
THEOREM LentIsGivenBack ==
    ASSUME OuterUncontended
    PROVE  TimedSpec => []PriorityIsLent
<1>1. TimedInit => TicksTyped /\ LentInv
  BY DEF TimedInit, WaitStart, MutexStart, NoMutexUsed, Idle, TicksTyped, LentInv, Lent, Noted
<1>2. ShareInv /\ TicksTyped /\ LentInv /\ [TimedNext]_timedVars => TicksTyped' /\ LentInv'
  BY TicksStep, LentStep
<1>3. ASSUME ShareInv, LentInv PROVE PriorityIsLent
  <2> SUFFICES ASSUME NEW t \in Tasks, NestsNothing(t), uxPriority[t] # Priority[t]
               PROVE  \E u \in Tasks : Lends(u, t)
    BY DEF PriorityIsLent
  <2>1. PICK u \in Tasks : Owes(u, t)
    BY <1>3 DEF LentInv, Lent
  <2>2. want[u] # NoMutex
    BY <1>3, <2>1, WantedFacts DEF Owes, ShareInv
  <2>3. Lends(u, t)
    BY <2>1, <2>2 DEF Lends, Owes
  <2> QED
    BY <2>3
<1> QED
  BY <1>1, <1>2, <1>3, SharedByPriority, PTL DEF TimedSpec

-------------------------------------------------------------------------------
\* The lists of list.c, the rings of the ready tasks.

WellMade(l) == l.index <= Len(l.items) /\ Once(l.items)

\* How long it takes the cursor to get to the item i,
Rank(l, i) == IF i > l.index THEN i - l.index ELSE i + Len(l.items) - l.index

\* and that it gets to x before it gets to y.
Before(l, x, y) ==
    \E i, j \in 1..Len(l.items) : l.items[i] = x /\ l.items[j] = y /\ Rank(l, i) < Rank(l, j)

Rings == [items : Seq(Tasks), index : Nat]

\* A list that t was put into at place k.
LEMMA GrownFacts ==
    ASSUME NEW list \in Seq(Tasks), NEW t \in Tasks, Once(list), t \notin TasksIn(list),
           NEW k \in 1..(Len(list) + 1), NEW new \in Seq(Tasks), Len(new) = Len(list) + 1,
           \A i \in 1..Len(list) : i < k => new[i] = list[i],
           new[k] = t,
           \A i \in 1..Len(list) : i >= k => new[i + 1] = list[i]
    PROVE  Once(new) /\ TasksIn(new) = TasksIn(list) \cup {t}
<1>1. Len(list) \in Nat
  OBVIOUS
<1>2. ASSUME NEW i \in 1..Len(new), i # k
      PROVE  \E j \in 1..Len(list) : new[i] = list[j] /\ i = IF j < k THEN j ELSE j + 1
  <2>1. CASE i < k
    <3>1. i \in 1..Len(list)
      BY <1>1, <2>1
    <3> QED
      BY <2>1, <3>1
  <2>2. CASE i > k
    <3>1. PICK j : j = i - 1
      OBVIOUS
    <3>2. j \in 1..Len(list) /\ j >= k /\ i = j + 1
      BY <1>1, <2>2, <3>1
    <3> QED
      BY <3>2
  <2> QED
    BY <1>1, <1>2, <2>1, <2>2
<1>3. \A j \in 1..Len(list) : list[j] # t
  BY DEF TasksIn
<1>4. Once(new)
  <2> SUFFICES ASSUME NEW i \in 1..Len(new), NEW j \in 1..Len(new), new[i] = new[j]
               PROVE  i = j
    BY DEF Once
  <2>1. CASE i = k
    BY <1>2, <1>3, <2>1
  <2>2. CASE j = k
    BY <1>2, <1>3, <2>2
  <2>3. CASE i # k /\ j # k
    <3>1. PICK a \in 1..Len(list) : new[i] = list[a] /\ i = IF a < k THEN a ELSE a + 1
      BY <1>2, <2>3
    <3>2. PICK b \in 1..Len(list) : new[j] = list[b] /\ j = IF b < k THEN b ELSE b + 1
      BY <1>2, <2>3
    <3>3. a = b
      BY <3>1, <3>2 DEF Once
    <3> QED
      BY <3>1, <3>2, <3>3
  <2> QED
    BY <2>1, <2>2, <2>3
<1>5. ASSUME NEW u \in TasksIn(new) PROVE u \in TasksIn(list) \cup {t}
  <2>1. PICK i \in 1..Len(new) : u = new[i]
    BY <1>5 DEF TasksIn
  <2> QED
    BY <1>2, <2>1 DEF TasksIn
<1>6. ASSUME NEW u \in TasksIn(list) PROVE u \in TasksIn(new)
  <2>1. PICK i \in 1..Len(list) : u = list[i]
    BY <1>6 DEF TasksIn
  <2>2. CASE i < k
    <3>1. i \in 1..Len(new) /\ new[i] = u
      BY <1>1, <2>1, <2>2
    <3> QED
      BY <3>1 DEF TasksIn
  <2>3. CASE ~(i < k)
    <3>1. i + 1 \in 1..Len(new) /\ new[i + 1] = u
      BY <1>1, <2>1, <2>3
    <3> QED
      BY <3>1 DEF TasksIn
  <2> QED
    BY <2>2, <2>3
<1>7. t \in TasksIn(new)
  <2>1. k \in 1..Len(new)
    BY <1>1
  <2> QED
    BY <2>1 DEF TasksIn
<1> QED
  BY <1>4, <1>5, <1>6, <1>7

\* vListInsertEnd: the others keep their turns.
LEMMA InsertEndFacts ==
    ASSUME NEW l \in Rings, WellMade(l), NEW t \in Tasks, t \notin TasksIn(l.items),
           NEW new, new = ListInsertEnd(l, t)
    PROVE  /\ new \in Rings /\ WellMade(new)
           /\ TasksIn(new.items) = TasksIn(l.items) \cup {t}
           /\ \A x, y : Before(l, x, y) => Before(new, x, y)
<1>1. PICK list \in Seq(Tasks), c \in Nat : list = l.items /\ c = l.index
  BY DEF Rings
<1>2. PICK n \in Nat : n = Len(list)
  OBVIOUS
<1>3. c <= n /\ Once(list)
  BY <1>1, <1>2 DEF WellMade
<1>4. PICK k \in 1..(n + 1) : k = IF c = 0 THEN n + 1 ELSE c
  BY <1>3
<1>5. PICK longer, d : longer = new.items /\ d = new.index
  OBVIOUS
<1>6. /\ new \in Rings /\ longer \in Seq(Tasks) /\ Len(longer) = n + 1
      /\ \A i \in 1..n : i < k => longer[i] = list[i]
      /\ longer[k] = t
      /\ \A i \in 1..n : i >= k => longer[i + 1] = list[i]
      /\ d \in Nat /\ d = IF c = 0 THEN 0 ELSE c + 1
  <2>1. CASE c = 0
    <3>1. new = [items |-> Append(list, t), index |-> 0]
      BY <1>1, <2>1 DEF ListInsertEnd, Rings
    <3>2. longer = Append(list, t) /\ d = 0
      BY <1>5, <3>1
    <3>3. /\ longer \in Seq(Tasks) /\ Len(longer) = n + 1 /\ longer[n + 1] = t
          /\ \A i \in 1..n : longer[i] = list[i]
      BY <1>2, <3>2
    <3>4. new \in Rings
      BY <3>1, <3>2, <3>3 DEF Rings
    <3> QED
      BY <1>4, <2>1, <3>2, <3>3, <3>4
  <2>2. CASE c # 0
    <3>1. PICK front : front = SubSeq(list, 1, c - 1)
      OBVIOUS
    <3>2. PICK back : back = SubSeq(list, c, n)
      OBVIOUS
    <3>3. c \in 1..n /\ c - 1 \in 0..n
      BY <1>3, <2>2
    <3>4. front \in Seq(Tasks) /\ Len(front) = c - 1 /\ \A i \in 1..(c - 1) : front[i] = list[i]
      <4>1. \A i \in 1..(c - 1) : list[i] \in Tasks
        BY <1>2, <3>3
      <4> QED
        BY <1>2, <3>1, <3>3, <4>1
    <3>5. /\ back \in Seq(Tasks) /\ Len(back) = n - c + 1
          /\ \A i \in 1..(n - c + 1) : back[i] = list[i + c - 1]
      <4>1. \A i \in c..n : list[i] \in Tasks
        BY <1>2, <3>3
      <4> QED
        BY <1>2, <3>2, <3>3, <4>1
    <3>6. PICK one : one = <<t>> /\ one \in Seq(Tasks) /\ Len(one) = 1 /\ one[1] = t
      <4>1. PICK one : one = <<t>>
        OBVIOUS
      <4>2. one \in Seq(Tasks) /\ Len(one) = 1 /\ one[1] = t
        BY <4>1
      <4> QED
        BY <4>1, <4>2
    <3>7. PICK part : part = front \o one
      OBVIOUS
    <3>8. part \in Seq(Tasks) /\ Len(part) = c
      BY <3>3, <3>4, <3>6, <3>7
    <3>9. part[c] = t /\ \A i \in 1..(c - 1) : part[i] = list[i]
      BY <3>3, <3>4, <3>6, <3>7
    <3>10. new = [items |-> part \o back, index |-> c + 1]
      BY <1>1, <1>2, <2>2, <3>1, <3>2, <3>6, <3>7 DEF ListInsertEnd, InsertAt
    <3>11. longer = part \o back /\ d = c + 1
      BY <1>5, <3>10
    <3>12. longer \in Seq(Tasks) /\ Len(longer) = n + 1
      <4>1. PICK p \in Seq(Tasks), b \in Seq(Tasks) : p = part /\ b = back
        BY <3>5, <3>8
      <4>2. (p \o b) \in Seq(Tasks) /\ Len(p \o b) = Len(p) + Len(b)
        BY ONLY p \in Seq(Tasks), b \in Seq(Tasks)
      <4>3. longer \in Seq(Tasks) /\ Len(longer) = Len(part) + Len(back)
        BY <3>11, <4>1, <4>2
      <4> QED
        BY <3>3, <3>5, <3>8, <4>3
    <3>13. ASSUME NEW i \in 1..c PROVE longer[i] = part[i]
      <4>1. i \in 1..(Len(part) + Len(back)) /\ i <= Len(part)
        BY <3>3, <3>5, <3>8
      <4> QED
        BY <3>5, <3>8, <3>11, <4>1
    <3>14. ASSUME NEW i \in 1..(n - c + 1) PROVE longer[c + i] = back[i]
      <4>1. PICK j : j = c + i
        OBVIOUS
      <4>2. j \in 1..(Len(part) + Len(back)) /\ j > Len(part) /\ j - Len(part) = i
        BY <3>3, <3>5, <3>8, <4>1
      <4>3. longer[j] = back[j - Len(part)]
        BY <3>5, <3>8, <3>11, <4>2
      <4> QED
        BY <4>1, <4>2, <4>3
    <3>15. \A i \in 1..n : i < c => longer[i] = list[i]
      BY <3>3, <3>9, <3>13
    <3>16. longer[c] = t
      BY <3>3, <3>9, <3>13
    <3>17. ASSUME NEW i \in 1..n, i >= c PROVE longer[i + 1] = list[i]
      <4>1. PICK j \in 1..(n - c + 1) : j = i + 1 - c
        BY <3>3, <3>17
      <4>2. longer[c + j] = back[j] /\ back[j] = list[j + c - 1]
        BY <3>5, <3>14
      <4>3. c + j = i + 1 /\ j + c - 1 = i
        BY <4>1
      <4> QED
        BY <4>2, <4>3
    <3>18. new \in Rings
      BY <3>10, <3>11, <3>12 DEF Rings
    <3>19. k = c /\ c + 1 \in Nat
      BY <1>4, <2>2
    <3> QED
      BY <2>2, <3>11, <3>12, <3>15, <3>16, <3>17, <3>18, <3>19
  <2> QED
    BY <2>1, <2>2
<1>7. Once(longer) /\ TasksIn(longer) = TasksIn(list) \cup {t} /\ d <= n + 1
  <2>1. t \notin TasksIn(list) /\ k \in 1..(Len(list) + 1) /\ Len(longer) = Len(list) + 1
    BY <1>1, <1>2, <1>6
  <2>2. /\ \A i \in 1..Len(list) : i < k => longer[i] = list[i]
        /\ \A i \in 1..Len(list) : i >= k => longer[i + 1] = list[i]
    BY <1>2, <1>6
  <2>3. Once(longer) /\ TasksIn(longer) = TasksIn(list) \cup {t}
    BY <1>3, <1>6, <2>1, <2>2, GrownFacts
  <2> QED
    BY <1>3, <1>6, <2>3
<1>8. ASSUME NEW x, NEW y, Before(l, x, y) PROVE Before(new, x, y)
  <2>1. PICK i \in 1..n, j \in 1..n : list[i] = x /\ list[j] = y /\ Rank(l, i) < Rank(l, j)
    BY <1>1, <1>2, <1>8 DEF Before
  <2>2. PICK a \in 1..(n + 1) : a = IF i < k THEN i ELSE i + 1
    OBVIOUS
  <2>3. PICK b \in 1..(n + 1) : b = IF j < k THEN j ELSE j + 1
    OBVIOUS
  <2>4. longer[a] = x /\ longer[b] = y
    BY <1>6, <2>1, <2>2, <2>3
  <2>5. (IF i > c THEN i - c ELSE i + n - c) < (IF j > c THEN j - c ELSE j + n - c)
    BY <1>1, <1>2, <2>1 DEF Rank
  <2>6. (IF a > d THEN a - d ELSE a + (n + 1) - d) < (IF b > d THEN b - d ELSE b + (n + 1) - d)
    <3>1. (c = 0 /\ d = 0 /\ k = n + 1) \/ (c # 0 /\ d = c + 1 /\ k = c)
      <4>1. d = IF c = 0 THEN 0 ELSE c + 1
        BY <1>6
      <4> QED
        BY <1>4, <4>1
    <3>2. c \in Nat /\ n \in Nat /\ d \in Nat /\ k \in 1..(n + 1) /\ c <= n
      BY <1>3, <1>6
    <3> QED
      BY ONLY <2>2, <2>3, <2>5, <3>1, <3>2, i \in 1..n, j \in 1..n
  <2>7. Rank(new, a) < Rank(new, b)
    BY <1>5, <1>6, <2>6 DEF Rank
  <2> QED
    BY <1>5, <1>6, <2>4, <2>7 DEF Before
<1> QED
  BY <1>1, <1>5, <1>6, <1>7, <1>8 DEF WellMade

\* uxListRemove
LEMMA RemoveFacts ==
    ASSUME NEW l \in Rings, WellMade(l), NEW t \in TasksIn(l.items),
           NEW new, new = ListRemove(l, t)
    PROVE  /\ new \in Rings /\ WellMade(new)
           /\ TasksIn(new.items) = TasksIn(l.items) \ {t}
           /\ \A x, y : Before(l, x, y) /\ x # t /\ y # t => Before(new, x, y)
<1>1. PICK list \in Seq(Tasks), c \in Nat : list = l.items /\ c = l.index
  BY DEF Rings
<1>2. PICK n \in Nat : n = Len(list)
  OBVIOUS
<1>3. c <= n /\ Once(list) /\ t \in TasksIn(list)
  BY <1>1, <1>2 DEF WellMade
<1>4. PICK k : k = CHOOSE i \in 1..n : list[i] = t
  OBVIOUS
<1>5. k \in 1..n /\ list[k] = t
  BY <1>2, <1>3, <1>4 DEF TasksIn
<1>6. PICK rest, d : rest = new.items /\ d = new.index
  OBVIOUS
<1>7. rest = Without(list, t) /\ d = IF Contains(SubSeq(list, 1, c), t) THEN c - 1 ELSE c
  BY <1>1, <1>6 DEF ListRemove
<1>8. rest = [i \in 1..(n - 1) |-> IF i < k THEN list[i] ELSE list[i + 1]]
  BY <1>2, <1>3, <1>4, <1>7 DEF Without
<1>9. rest \in Seq(Tasks) /\ Len(rest) = n - 1 /\ TasksIn(rest) = TasksIn(list) \ {t} /\ Once(rest)
  BY <1>2, <1>3, <1>7, TasksAssumption, WithoutFacts
<1>10. Contains(SubSeq(list, 1, c), t) <=> k <= c
  <2>1. PICK front : front = SubSeq(list, 1, c)
    OBVIOUS
  <2>2. \A i \in 1..c : list[i] \in Tasks
    BY <1>2, <1>3
  <2>3. Len(front) = c /\ \A i \in 1..c : front[i] = list[i]
    BY <1>2, <1>3, <2>1, <2>2
  <2>4. ASSUME k <= c PROVE Contains(front, t)
    <3>1. k \in 1..Len(front) /\ front[k] = t
      BY <1>5, <2>3, <2>4
    <3> QED
      BY <3>1 DEF Contains
  <2>5. ASSUME Contains(front, t) PROVE k <= c
    <3>1. PICK i \in 1..c : front[i] = t
      BY <2>3, <2>5 DEF Contains
    <3>2. i \in 1..n /\ list[i] = list[k]
      BY <1>3, <1>5, <2>3, <3>1
    <3>3. i = k
      BY <1>2, <1>3, <1>5, <3>2 DEF Once
    <3> QED
      BY <3>1, <3>3
  <2> QED
    BY <2>1, <2>4, <2>5
<1>11. (k <= c /\ d = c - 1) \/ (k > c /\ d = c)
  BY <1>5, <1>7, <1>10
<1>12. d \in Nat /\ d <= n - 1
  BY <1>3, <1>5, <1>11
<1>13. new \in Rings
  <2>1. new = [items |-> rest, index |-> d]
    BY <1>6 DEF ListRemove
  <2> QED
    BY <1>9, <1>12, <2>1 DEF Rings
<1>14. ASSUME NEW x, NEW y, Before(l, x, y), x # t, y # t PROVE Before(new, x, y)
  <2>1. PICK i \in 1..n, j \in 1..n : list[i] = x /\ list[j] = y /\ Rank(l, i) < Rank(l, j)
    BY <1>1, <1>2, <1>14 DEF Before
  <2>2. i # k /\ j # k
    BY <1>5, <1>14, <2>1
  <2>3. PICK a \in 1..(n - 1) : a = IF i < k THEN i ELSE i - 1
    BY <1>5, <2>2
  <2>4. PICK b \in 1..(n - 1) : b = IF j < k THEN j ELSE j - 1
    BY <1>5, <2>2
  <2>5. rest[a] = x
    BY <1>5, <1>8, <2>1, <2>2, <2>3
  <2>6. rest[b] = y
    BY <1>5, <1>8, <2>1, <2>2, <2>4
  <2>7. (IF i > c THEN i - c ELSE i + n - c) < (IF j > c THEN j - c ELSE j + n - c)
    BY <1>1, <1>2, <2>1 DEF Rank
  <2>8. (IF a > d THEN a - d ELSE a + (n - 1) - d) < (IF b > d THEN b - d ELSE b + (n - 1) - d)
    BY ONLY <1>3, <1>5, <1>11, <2>2, <2>3, <2>4, <2>7, c \in Nat, n \in Nat,
            i \in 1..n, j \in 1..n
  <2>9. Rank(new, a) < Rank(new, b)
    BY <1>6, <1>9, <2>8 DEF Rank
  <2> QED
    BY <1>6, <1>9, <2>5, <2>6, <2>9 DEF Before
<1> QED
  BY <1>1, <1>6, <1>9, <1>12, <1>13, <1>14 DEF WellMade

\* listGET_OWNER_OF_NEXT_ENTRY: whoever the cursor gets to goes behind all others.
LEMMA NextEntryFacts ==
    ASSUME NEW l \in Rings, WellMade(l), l.items # <<>>, NEW new, new = NextEntry(l)
    PROVE  LET t == l.items[new.index]
           IN  /\ new \in Rings /\ WellMade(new) /\ new.items = l.items
               /\ t \in TasksIn(l.items)
               /\ \A x : ~Before(l, x, t)
               /\ \A x, y : Before(l, x, y) /\ x # t => Before(new, x, y)
               /\ \A x \in TasksIn(l.items) : x # t => Before(new, x, t)
<1>1. PICK list \in Seq(Tasks), c \in Nat : list = l.items /\ c = l.index
  BY DEF Rings
<1>2. PICK n \in Nat : n = Len(list)
  OBVIOUS
<1>3. c <= n /\ Once(list) /\ n # 0
  BY <1>1, <1>2 DEF WellMade
<1>4. PICK k \in 1..n : k = IF c = n THEN 1 ELSE c + 1
  BY <1>3
<1>5. new.items = list /\ new.index = k /\ new \in Rings
  BY <1>1, <1>2, <1>4 DEF NextEntry, Rings
<1>6. PICK t : t = list[k]
  OBVIOUS
<1>7. \A i \in 1..n : list[i] = t => i = k
  BY <1>2, <1>3, <1>6 DEF Once
<1>8. ASSUME NEW x, Before(l, x, t) PROVE FALSE
  <2>1. PICK i \in 1..n, j \in 1..n : list[j] = t /\ Rank(l, i) < Rank(l, j)
    BY <1>1, <1>2, <1>8 DEF Before
  <2>2. j = k
    BY <1>7, <2>1
  <2>3. (IF i > c THEN i - c ELSE i + n - c) < (IF k > c THEN k - c ELSE k + n - c)
    BY <1>1, <1>2, <2>1, <2>2 DEF Rank
  <2> QED
    BY ONLY <1>3, <1>4, <2>3, c \in Nat, n \in Nat, i \in 1..n
<1>9. ASSUME NEW i \in 1..n, NEW j \in 1..n, Rank(l, i) < Rank(l, j), i # k
      PROVE  Rank(new, i) < Rank(new, j)
  <2>1. (IF i > c THEN i - c ELSE i + n - c) < (IF j > c THEN j - c ELSE j + n - c)
    BY <1>1, <1>2, <1>9 DEF Rank
  <2>2. (IF i > k THEN i - k ELSE i + n - k) < (IF j > k THEN j - k ELSE j + n - k)
    BY ONLY <1>3, <1>4, <1>9, <2>1, c \in Nat, n \in Nat, i \in 1..n, j \in 1..n
  <2> QED
    BY <1>2, <1>5, <2>2 DEF Rank
<1>10. ASSUME NEW i \in 1..n, i # k PROVE Rank(new, i) < Rank(new, k)
  <2>1. (IF i > k THEN i - k ELSE i + n - k) < (IF k > k THEN k - k ELSE k + n - k)
    BY ONLY <1>4, <1>10, n \in Nat, i \in 1..n, k \in 1..n
  <2> QED
    BY <1>2, <1>5, <2>1 DEF Rank
<1>11. ASSUME NEW x, NEW y, Before(l, x, y), x # t PROVE Before(new, x, y)
  <2>1. PICK i \in 1..n, j \in 1..n : list[i] = x /\ list[j] = y /\ Rank(l, i) < Rank(l, j)
    BY <1>1, <1>2, <1>11 DEF Before
  <2>2. i # k
    BY <1>6, <1>11, <2>1
  <2>3. Rank(new, i) < Rank(new, j)
    BY <1>9, <2>1, <2>2
  <2> QED
    BY <1>2, <1>5, <2>1, <2>3 DEF Before
<1>12. ASSUME NEW x \in TasksIn(list), x # t PROVE Before(new, x, t)
  <2>1. PICK i \in 1..n : list[i] = x
    BY <1>2, <1>12 DEF TasksIn
  <2>2. Rank(new, i) < Rank(new, k)
    BY <1>6, <1>10, <1>12, <2>1
  <2> QED
    BY <1>2, <1>5, <1>6, <2>1, <2>2 DEF Before
<1>13. t \in TasksIn(list)
  BY <1>2, <1>6 DEF TasksIn
<1>14. WellMade(new)
  BY <1>2, <1>3, <1>5 DEF WellMade
<1> QED
  BY <1>1, <1>5, <1>6, <1>8, <1>11, <1>12, <1>13, <1>14

-------------------------------------------------------------------------------
\* The ready lists.

\* The tasks of S are in the lists of their priorities, no list that has a task is
\* above the top, and who was selected while another one was in its list, is behind it.
ReadyLists(r, prio, S) ==
    /\ r \in [lists : [Priorities -> Rings], top : Nat, passed : [Tasks -> SUBSET Tasks]]
    /\ \A p \in Priorities :
          /\ WellMade(r.lists[p])
          /\ TasksIn(r.lists[p].items) = { t \in S : prio[t] = p }
          /\ r.lists[p].items # <<>> => p <= r.top
    /\ \A t, u \in Tasks : u \in r.passed[t] => \E p \in Priorities : Before(r.lists[p], t, u)

\* There is a task in the top list.
TopFilled(r) == r.top \in Priorities /\ r.lists[r.top].items # <<>>
StaysFilled(r, new) == TopFilled(r) \/ r.top = 0 => TopFilled(new)
FillsTop(r, tasks, new) == TopFilled(r) \/ (r.top = 0 /\ tasks # <<>>) => TopFilled(new)

\* The priorities of the tasks that are not ready do not matter.
LEMMA SameReadyLists ==
    ASSUME NEW r, NEW S, NEW prio, NEW other, ReadyLists(r, prio, S),
           \A t \in S : other[t] = prio[t]
    PROVE  ReadyLists(r, other, S)
<1>1. \A p \in Priorities : { t \in S : prio[t] = p } = { t \in S : other[t] = p }
  OBVIOUS
<1> QED
  BY <1>1 DEF ReadyLists

LEMMA BothListed ==
    ASSUME NEW l, NEW x, NEW y, Before(l, x, y)
    PROVE  x \in TasksIn(l.items) /\ y \in TasksIn(l.items)
  BY DEF Before, TasksIn

\* prvAddTaskToReadyList
LEMMA AddedFacts ==
    ASSUME NEW r, NEW S \in SUBSET Tasks, NEW prio, ReadyLists(r, prio, S),
           NEW t \in Tasks, t \notin S, prio[t] \in Priorities,
           NEW new, new = Added(r, t, prio[t])
    PROVE  ReadyLists(new, prio, S \cup {t}) /\ StaysFilled(r, new)
<1>1. PICK p \in Priorities : p = prio[t] /\ p \in Nat
  BY TasksAssumption DEF Priorities
<1>2. PICK l : l = r.lists[p]
  OBVIOUS
<1>3. /\ l \in Rings /\ WellMade(l) /\ r.lists \in [Priorities -> Rings] /\ r.top \in Nat
      /\ r.passed \in [Tasks -> SUBSET Tasks]
      /\ r \in [lists : [Priorities -> Rings], top : Nat, passed : [Tasks -> SUBSET Tasks]]
  BY <1>2 DEF ReadyLists
<1>4. t \notin TasksIn(l.items)
  BY <1>2 DEF ReadyLists
<1>5. PICK m : m = ListInsertEnd(l, t)
  OBVIOUS
<1>6. /\ m \in Rings /\ WellMade(m) /\ TasksIn(m.items) = TasksIn(l.items) \cup {t}
      /\ \A x, y : Before(l, x, y) => Before(m, x, y)
  BY <1>3, <1>4, <1>5, InsertEndFacts
<1>7. PICK top \in Nat : top = IF p > r.top THEN p ELSE r.top
  BY <1>1, <1>3
<1>8. new = [r EXCEPT !.lists = [r.lists EXCEPT ![p] = m], !.top = top]
  BY <1>1, <1>2, <1>3, <1>5, <1>7 DEF Added, ReadyLists
<1>9. /\ new.lists = [r.lists EXCEPT ![p] = m] /\ new.top = top /\ new.passed = r.passed
      /\ new \in [lists : [Priorities -> Rings], top : Nat, passed : [Tasks -> SUBSET Tasks]]
  <2>1. PICK lists : lists = [r.lists EXCEPT ![p] = m] /\ lists \in [Priorities -> Rings]
    <3>1. r.lists \in [Priorities -> Rings] /\ m \in Rings
      BY <1>3, <1>6
    <3>2. PICK old : old = r.lists /\ old \in [Priorities -> Rings]
      BY <3>1
    <3>3. [old EXCEPT ![p] = m] \in [Priorities -> Rings]
      BY <3>1, <3>2
    <3> QED
      BY <3>2, <3>3
  <2>2. new = [r EXCEPT !.lists = lists, !.top = top]
    BY <1>8, <2>1
  <2>3. new = [lists |-> lists, top |-> top, passed |-> r.passed]
    BY <1>3, <2>2
  <2> QED
    BY <1>3, <2>1, <2>3
<1>10. new.lists[p] = m /\ \A q \in Priorities : q # p => new.lists[q] = r.lists[q]
  BY <1>3, <1>9
<1>11. m.items # <<>>
  BY <1>6 DEF TasksIn
<1>12. p <= top /\ r.top <= top
  BY <1>1, <1>3, <1>7
<1>13. ASSUME NEW q \in Priorities
       PROVE  /\ WellMade(new.lists[q])
              /\ TasksIn(new.lists[q].items) = { u \in S \cup {t} : prio[u] = q }
              /\ new.lists[q].items # <<>> => q <= new.top
  <2>1. CASE q = p
    BY <1>1, <1>2, <1>6, <1>9, <1>10, <1>12, <2>1 DEF ReadyLists
  <2>2. CASE q # p
    <3>1. /\ WellMade(r.lists[q]) /\ TasksIn(r.lists[q].items) = { u \in S : prio[u] = q }
          /\ r.lists[q].items # <<>> => q <= r.top
      BY DEF ReadyLists
    <3>2. q \in Nat
      BY TasksAssumption DEF Priorities
    <3> QED
      BY <1>1, <1>3, <1>9, <1>10, <1>12, <2>2, <3>1, <3>2
  <2> QED
    BY <2>1, <2>2
<1>14. ASSUME NEW x \in Tasks, NEW y \in new.passed[x]
       PROVE  \E q \in Priorities : Before(new.lists[q], x, y)
  <2>1. PICK q \in Priorities : Before(r.lists[q], x, y)
    BY <1>3, <1>9, <1>14 DEF ReadyLists
  <2>2. Before(new.lists[q], x, y)
    BY <1>2, <1>6, <1>10, <2>1
  <2> QED
    BY <2>2
<1>15. ReadyLists(new, prio, S \cup {t})
  BY <1>9, <1>13, <1>14 DEF ReadyLists
<1>16. ASSUME TopFilled(r) \/ r.top = 0 PROVE TopFilled(new)
  <2>1. CASE p >= r.top
    <3>1. top = p
      BY <1>1, <1>3, <1>7, <2>1
    <3> QED
      BY <1>9, <1>10, <1>11, <3>1 DEF TopFilled
  <2>2. CASE p < r.top
    <3>1. top = r.top /\ r.top # p /\ r.top # 0
      BY <1>1, <1>3, <1>7, <2>2
    <3> QED
      BY <1>9, <1>10, <1>16, <3>1 DEF TopFilled
  <2> QED
    BY <1>1, <1>3, <2>1, <2>2
<1> QED
  BY <1>15, <1>16 DEF StaysFilled

\* A task leaves its list.
LEMMA RemovedFacts ==
    ASSUME NEW r, NEW S \in SUBSET Tasks, NEW prio, ReadyLists(r, prio, S),
           NEW t \in S, prio[t] \in Priorities, NEW new, new = Removed(r, t, prio[t])
    PROVE  ReadyLists(new, prio, S \ {t})
<1>1. PICK p \in Priorities : p = prio[t]
  OBVIOUS
<1>2. PICK l : l = r.lists[p]
  OBVIOUS
<1>3. /\ l \in Rings /\ WellMade(l) /\ r.lists \in [Priorities -> Rings] /\ r.top \in Nat
      /\ r.passed \in [Tasks -> SUBSET Tasks]
      /\ r \in [lists : [Priorities -> Rings], top : Nat, passed : [Tasks -> SUBSET Tasks]]
  BY <1>2 DEF ReadyLists
<1>4. t \in TasksIn(l.items)
  BY <1>1, <1>2 DEF ReadyLists
<1>5. PICK m : m = ListRemove(l, t)
  OBVIOUS
<1>6. /\ m \in Rings /\ WellMade(m) /\ TasksIn(m.items) = TasksIn(l.items) \ {t}
      /\ \A x, y : Before(l, x, y) /\ x # t /\ y # t => Before(m, x, y)
  BY <1>3, <1>4, <1>5, RemoveFacts
<1>7. PICK passed : passed = [u \in Tasks |-> IF u = t THEN {} ELSE r.passed[u] \ {t}]
  OBVIOUS
<1>8. new = [r EXCEPT !.lists = [r.lists EXCEPT ![p] = m], !.passed = passed]
  BY <1>1, <1>2, <1>3, <1>5, <1>7 DEF Removed, ReadyLists
<1>9. passed \in [Tasks -> SUBSET Tasks]
  BY <1>3, <1>7
<1>10. /\ new.lists = [r.lists EXCEPT ![p] = m] /\ new.top = r.top /\ new.passed = passed
       /\ new \in [lists : [Priorities -> Rings], top : Nat, passed : [Tasks -> SUBSET Tasks]]
  <2>1. PICK lists : lists = [r.lists EXCEPT ![p] = m] /\ lists \in [Priorities -> Rings]
    <3>1. r.lists \in [Priorities -> Rings] /\ m \in Rings
      BY <1>3, <1>6
    <3>2. PICK old : old = r.lists /\ old \in [Priorities -> Rings]
      BY <3>1
    <3>3. [old EXCEPT ![p] = m] \in [Priorities -> Rings]
      BY <3>1, <3>2
    <3> QED
      BY <3>2, <3>3
  <2>2. new = [r EXCEPT !.lists = lists, !.passed = passed]
    BY <1>8, <2>1
  <2>3. new = [lists |-> lists, top |-> r.top, passed |-> passed]
    BY <1>3, <2>2
  <2> QED
    BY <1>3, <1>9, <2>1, <2>3
<1>11. new.lists[p] = m /\ \A q \in Priorities : q # p => new.lists[q] = r.lists[q]
  BY <1>3, <1>10
<1>12. m.items # <<>> => l.items # <<>>
  <2>1. ASSUME l.items = <<>> PROVE FALSE
    BY <1>4, <2>1 DEF TasksIn
  <2> QED
    BY <2>1
<1>13. ASSUME NEW q \in Priorities
       PROVE  /\ WellMade(new.lists[q])
              /\ TasksIn(new.lists[q].items) = { u \in S \ {t} : prio[u] = q }
              /\ new.lists[q].items # <<>> => q <= new.top
  <2>1. /\ WellMade(r.lists[q]) /\ TasksIn(r.lists[q].items) = { u \in S : prio[u] = q }
        /\ r.lists[q].items # <<>> => q <= r.top
    BY DEF ReadyLists
  <2>2. CASE q = p
    BY <1>1, <1>2, <1>6, <1>10, <1>11, <1>12, <2>1, <2>2
  <2>3. CASE q # p
    BY <1>1, <1>10, <1>11, <2>1, <2>3
  <2> QED
    BY <2>2, <2>3
<1>14. ASSUME NEW x \in Tasks, NEW y \in new.passed[x]
       PROVE  \E q \in Priorities : Before(new.lists[q], x, y)
  <2>1. x # t /\ y # t /\ y \in r.passed[x] /\ y \in Tasks
    BY <1>3, <1>7, <1>10, <1>14
  <2>2. PICK q \in Priorities : Before(r.lists[q], x, y)
    BY <2>1 DEF ReadyLists
  <2>3. Before(new.lists[q], x, y)
    BY <1>2, <1>6, <1>11, <2>1, <2>2
  <2> QED
    BY <2>3
<1> QED
  BY <1>10, <1>13, <1>14 DEF ReadyLists

\* A ready task gets another priority.
LEMMA MovedFacts ==
    ASSUME NEW r, NEW S \in SUBSET Tasks, NEW prio, NEW other, ReadyLists(r, prio, S),
           NEW t \in S, prio[t] \in Priorities, other[t] \in Priorities,
           \A u \in S : u # t => other[u] = prio[u],
           NEW new, new = Moved(r, t, prio[t], other[t])
    PROVE  ReadyLists(new, other, S)
<1>1. PICK rest : rest = Removed(r, t, prio[t])
  OBVIOUS
<1>2. ReadyLists(rest, prio, S \ {t})
  BY <1>1, RemovedFacts
<1>3. ReadyLists(rest, other, S \ {t})
  BY <1>2, SameReadyLists
<1>4. new = Added(rest, t, other[t])
  BY <1>1 DEF Moved
<1>5. ReadyLists(new, other, (S \ {t}) \cup {t})
  BY <1>3, <1>4, AddedFacts
<1>6. (S \ {t}) \cup {t} = S
  OBVIOUS
<1> QED
  BY <1>5, <1>6

\* What AllAdded goes through.
IsAdding(run, r, tasks, prio, n) ==
    run = [i \in 0..n |-> IF i = 0 THEN r ELSE Added(run[i - 1], tasks[i], prio[tasks[i]])]

LEMMA AddingExists ==
    ASSUME NEW r, NEW tasks, NEW prio, NEW n \in Nat
    PROVE  \E run : IsAdding(run, r, tasks, prio, n)
<1> DEFINE Then(q, i) == Added(q, tasks[i], prio[tasks[i]])
           S == { m \in Nat : ~\E run : IsAdding(run, r, tasks, prio, m) }
<1> SUFFICES ASSUME S # {} PROVE FALSE
  OBVIOUS
<1>1. PICK m \in S : \A k \in S : m <= k
  <2> HIDE DEF S
  <2>1. S \subseteq Nat
    BY DEF S
  <2> QED
    BY <2>1, LeastNatural
<1>2. m \in Nat /\ ~\E run : IsAdding(run, r, tasks, prio, m)
  OBVIOUS
<1>3. m # 0
  <2>1. IsAdding([i \in 0..0 |-> r], r, tasks, prio, 0)
    BY DEF IsAdding
  <2> QED
    BY <1>2, <2>1
<1>4. m - 1 \in Nat /\ m - 1 \notin S
  BY <1>1, <1>2, <1>3
<1>5. PICK run : IsAdding(run, r, tasks, prio, m - 1)
  BY <1>4
<1> HIDE DEF Then
<1>6. PICK more : more = [i \in 0..m |-> IF i = m THEN Then(run[m - 1], m) ELSE run[i]]
  OBVIOUS
<1>7. ASSUME NEW i \in 0..m
      PROVE  more[i] = IF i = 0 THEN r ELSE Then(more[i - 1], i)
  <2>1. CASE i = m
    <3>1. more[i - 1] = run[m - 1]
      BY <1>2, <1>3, <1>6, <2>1
    <3> QED
      BY <1>3, <1>6, <2>1, <3>1
  <2>2. CASE i # m
    <3>1. i \in 0..(m - 1) /\ more[i] = run[i] /\ (i # 0 => more[i - 1] = run[i - 1])
      BY <1>2, <1>6, <2>2
    <3>2. run[i] = IF i = 0 THEN r ELSE Then(run[i - 1], i)
      BY <1>5, <3>1 DEF IsAdding, Then
    <3> QED
      BY <3>1, <3>2
  <2> QED
    BY <2>1, <2>2
<1>8. IsAdding(more, r, tasks, prio, m)
  <2>1. more = [i \in 0..m |-> more[i]]
    BY <1>6
  <2>2. more = [i \in 0..m |-> IF i = 0 THEN r ELSE Then(more[i - 1], i)]
    BY <1>7, <2>1
  <2> QED
    BY <2>2 DEF IsAdding, Then
<1> QED
  BY <1>2, <1>8

\* Several tasks become ready.
LEMMA AllAddedFacts ==
    ASSUME NEW r, NEW S \in SUBSET Tasks, NEW prio, ReadyLists(r, prio, S),
           NEW tasks \in Seq(Tasks), Once(tasks), TasksIn(tasks) \cap S = {},
           NEW given, \A t \in TasksIn(tasks) : given[t] = prio[t] /\ prio[t] \in Priorities,
           NEW new, new = AllAdded(r, tasks, given)
    PROVE  /\ ReadyLists(new, prio, S \cup TasksIn(tasks))
           /\ FillsTop(r, tasks, new)
<1>1. PICK n \in Nat : n = Len(tasks)
  OBVIOUS
<1>2. PICK run : IsAdding(run, r, tasks, given, n) /\ new = run[n]
  <2> DEFINE chosen == CHOOSE run : IsAdding(run, r, tasks, given, n)
  <2>1. IsAdding(chosen, r, tasks, given, n)
    BY AddingExists
  <2>2. new = chosen[n]
    BY <1>1 DEF AllAdded, IsAdding
  <2> QED
    BY <2>1, <2>2
<1> DEFINE UpTo(i) == { tasks[j] : j \in 1..i }
           Good(i) == /\ ReadyLists(run[i], prio, S \cup UpTo(i))
                      /\ TopFilled(r) \/ (r.top = 0 /\ i # 0) => TopFilled(run[i])
                      /\ i = 0 => run[i] = r
           Bad == { i \in 0..n : ~Good(i) }
<1>3. ASSUME NEW i \in 0..n PROVE Good(i)
  <2> HIDE DEF Good
  <2> SUFFICES ASSUME Bad # {} PROVE FALSE
    OBVIOUS
  <2>1. PICK k \in Bad : \A j \in Bad : k <= j
    <3> HIDE DEF Bad
    <3>1. Bad \subseteq Nat
      BY DEF Bad
    <3> QED
      BY <3>1, LeastNatural
  <2>2. k \in 0..n /\ ~Good(k)
    OBVIOUS
  <2>3. run[k] = IF k = 0 THEN r ELSE Added(run[k - 1], tasks[k], given[tasks[k]])
    BY <1>2, <2>2 DEF IsAdding
  <2>4. CASE k = 0
    <3>1. run[k] = r /\ S \cup UpTo(k) = S
      BY <2>3, <2>4
    <3>2. Good(k)
      BY <2>4, <3>1 DEF Good
    <3> QED
      BY <2>2, <3>2
  <2>5. CASE k # 0
    <3>1. k - 1 \in 0..n /\ k - 1 \notin Bad /\ k \in 1..n
      BY <2>1, <2>2, <2>5
    <3>2. Good(k - 1)
      BY <3>1
    <3>3. PICK t \in Tasks : t = tasks[k]
      BY <1>1, <3>1
    <3>4. t \in TasksIn(tasks)
      BY <1>1, <3>1, <3>3 DEF TasksIn
    <3>5. t \notin S \cup UpTo(k - 1)
      <4>1. ASSUME NEW j \in 1..(k - 1) PROVE tasks[j] # t
        <5>1. j \in 1..n /\ j # k
          BY <3>1
        <5> QED
          BY <1>1, <3>1, <3>3, <5>1 DEF Once
      <4> QED
        BY <3>4, <4>1
    <3>6. UpTo(k) = UpTo(k - 1) \cup {t}
      BY <3>1, <3>3
    <3>7. UpTo(k - 1) \subseteq Tasks
      BY <1>1, <3>1
    <3>8. PICK q, T : q = run[k - 1] /\ T = S \cup UpTo(k - 1) /\ T \in SUBSET Tasks
      <4>1. S \cup UpTo(k - 1) \in SUBSET Tasks
        BY <3>7
      <4> HIDE DEF UpTo
      <4> QED
        BY <4>1
    <3>9. ReadyLists(q, prio, T) /\ t \notin T /\ prio[t] \in Priorities
      BY <3>2, <3>4, <3>5, <3>8 DEF Good
    <3>10. run[k] = Added(q, t, prio[t])
      BY <2>3, <2>5, <3>3, <3>4, <3>8
    <3>11. PICK more : more = Added(q, t, prio[t]) /\ more = run[k]
      BY <3>10
    <3>12. ReadyLists(more, prio, T \cup {t}) /\ StaysFilled(q, more)
      <4> HIDE DEF UpTo, Good, Bad
      <4>1. /\ T \in SUBSET Tasks /\ ReadyLists(q, prio, T) /\ t \in Tasks /\ t \notin T
            /\ prio[t] \in Priorities /\ more = Added(q, t, prio[t])
        BY <3>8, <3>9, <3>11
      <4> QED
        BY ONLY <4>1, AddedFacts, Zenon
    <3>13. T \cup {t} = S \cup UpTo(k)
      BY <3>6, <3>8
    <3>14. TopFilled(r) \/ r.top = 0 => TopFilled(q) \/ q.top = 0
      BY <3>2, <3>8 DEF Good
    <3>15. Good(k)
      BY <2>5, <3>11, <3>12, <3>13, <3>14 DEF Good, StaysFilled
    <3> QED
      BY <2>2, <3>15
  <2> QED
    BY <2>4, <2>5
<1>4. Good(n)
  <2>1. n \in 0..n
    BY <1>1
  <2> HIDE DEF Good
  <2> QED
    BY <1>3, <2>1
<1>5. UpTo(n) = TasksIn(tasks) /\ (tasks # <<>> => n # 0)
  BY <1>1 DEF TasksIn
<1> QED
  BY <1>2, <1>4, <1>5 DEF FillsTop

-------------------------------------------------------------------------------
\* The scheduler: the invariant.

ReadyTasks == { t \in Tasks : Ready(t) }
Arranged == ReadyLists(ready, uxPriority, ReadyTasks)
Ranked == \A t \in Tasks : uxPriority[t] \in Priorities

Placed ==
    /\ suspended \in Tasks \cup {NoTask} /\ pxCurrentTCB \in Tasks
    /\ suspended # NoTask => suspended = pxCurrentTCB
    /\ pc[IdleTask] = "idle"

Pending ==
    /\ xPendingReadyList \in Seq(Tasks) /\ Once(xPendingReadyList)
    /\ \A t \in TasksIn(xPendingReadyList) : pc[t] = "asleep"
    /\ suspended = NoTask => xPendingReadyList = <<>>

\* While a task has the scheduler suspended, nobody above it becomes ready, but waits
\* among the pending tasks.
Obeyed ==
    /\ suspended # NoTask \/ ~pendSV =>
          \A t \in Tasks : Ready(t) => uxPriority[t] <= uxPriority[pxCurrentTCB]
    /\ suspended = NoTask /\ ~pendSV => Ready(pxCurrentTCB)

\* What is lent to a task that holds one mutex by itself, is lent by who waits for it.
Lender(u, t) ==
    pc[u] = "waiting" /\ xMutexHolder[want[u]] = t /\ uxPriority[t] <= uxPriority[u]
Borrowed == \A t \in Tasks : NestsNothing(t) =>
    uxPriority[t] = Priority[t] \/ \E u \in Tasks : Lender(u, t)

LoanInv == ShareInv /\ Ranked /\ Borrowed
SchedInv == LoanInv /\ Arranged /\ Placed /\ Pending /\ Obeyed

-------------------------------------------------------------------------------
\* The priorities in every step.

\* Steps after which the loans are the same.
LEMMA BorrowedKept ==
    ASSUME Borrowed,
           \A x \in Tasks : NestsNothing(x)' =>
               \/ uxPriority'[x] = Priority[x]
               \/ \E u \in Tasks : Lender(u, x)'
               \/ /\ NestsNothing(x) /\ uxPriority'[x] = uxPriority[x]
                  /\ \A u \in Tasks : Lender(u, x) => Lender(u, x)'
    PROVE  Borrowed'
<1> SUFFICES ASSUME NEW x \in Tasks, NestsNothing(x)', uxPriority'[x] # Priority[x]
             PROVE  \E u \in Tasks : Lender(u, x)'
  BY DEF Borrowed
<1> QED
  BY DEF Borrowed

\* Tasks go to sleep or wake up.
LEMMA SleepersLoans ==
    ASSUME LoanInv, UNCHANGED mutexVars, pc' \in [Tasks -> Places],
           \A t \in Tasks : \/ pc'[t] = pc[t]
                            \/ pc[t] \in {"idle", "sleep", "asleep"} /\ pc'[t] \in {"idle", "sleep", "asleep"}
    PROVE  LoanInv'
<1>1. UNCHANGED <<uxPriority, xMutexHolder, waiting, held, want>>
  BY DEF mutexVars
<1>2. \A t \in Tasks : /\ Busy(t)' <=> Busy(t)
                       /\ \A p \in Wanting : pc'[t] = p <=> pc[t] = p
  BY DEF Busy, Wanting
<1>3. MutexTypes'
  BY <1>1 DEF LoanInv, ShareInv, MutexTypes
<1>4. Nesting'
  BY <1>1, <1>2 DEF LoanInv, ShareInv, Nesting, HoldsOfNest, NextOfNest, Begins
<1>5. Holding' /\ OwnPriority' /\ Inherits'
  BY <1>1 DEF LoanInv, ShareInv, Holding, Once, OwnPriority, Inherits, TasksIn
<1>6. Listed'
  <2>1. \A m \in Mutexes : Once(waiting'[m]) /\ InOrder(waiting'[m], uxPriority')
    BY <1>1 DEF LoanInv, ShareInv, Listed
  <2>2. ASSUME NEW m \in Mutexes, NEW u \in TasksIn(waiting[m]) PROVE pc'[u] = "waiting" /\ want'[u] = m
    BY <1>1, <1>2, ListedFacts DEF LoanInv, ShareInv, Wanting
  <2>3. ASSUME NEW u \in Tasks, pc'[u] = "waiting" PROVE u \in TasksIn(waiting[want[u]])
    BY <1>2, <2>3 DEF LoanInv, ShareInv, Listed, Wanting
  <2> QED
    BY <1>1, <2>1, <2>2, <2>3 DEF Listed
<1>7. Heirs'
  <2> SUFFICES ASSUME NEW m \in Mutexes, xMutexHolder[m] = NoTask, waiting[m] # <<>>
               PROVE  \E u \in Tasks : Heir(m, u)'
    BY <1>1 DEF Heirs
  <2>1. PICK u \in Tasks : Heir(m, u)
    BY DEF LoanInv, ShareInv, Heirs
  <2>2. Heir(m, u)'
    BY <1>1, <1>2, <2>1 DEF Heir, TasksIn, Wanting
  <2> QED
    BY <2>2
<1>8. Ranked'
  BY <1>1 DEF LoanInv, Ranked
<1>9. Borrowed'
  <2>1. \A x, u \in Tasks : Lender(u, x) => Lender(u, x)'
    BY <1>1, <1>2 DEF Lender, Wanting
  <2>2. \A x \in Tasks : NestsNothing(x)' => NestsNothing(x)
    BY <1>1 DEF NestsNothing
  <2> QED
    BY <1>1, <2>1, <2>2, BorrowedKept DEF LoanInv
<1> QED
  BY <1>3, <1>4, <1>5, <1>6, <1>7, <1>8, <1>9 DEF LoanInv, ShareInv

\* A task goes on in its call.
LEMMA CallersLoans ==
    ASSUME LoanInv, ShareInv', NEW t \in Tasks, pc[t] # "waiting",
           \A u \in Tasks : u # t => pc'[u] = pc[u] /\ want'[u] = want[u],
           UNCHANGED <<uxPriority, xMutexHolder, waiting, held>>
    PROVE  LoanInv'
<1>1. Ranked'
  BY DEF LoanInv, Ranked
<1>2. \A x, u \in Tasks : Lender(u, x) => Lender(u, x)'
  BY DEF Lender
<1>3. \A x \in Tasks : NestsNothing(x)' => NestsNothing(x)
  BY DEF NestsNothing
<1>4. Borrowed'
  BY <1>2, <1>3, BorrowedKept DEF LoanInv
<1> QED
  BY <1>1, <1>4 DEF LoanInv

\* A mutex that is taken was not lent for.
LEMMA TakersLoans ==
    ASSUME LoanInv, NEW t \in Tasks, Running(t), SemaphoreTake(t), Free(t)
    PROVE  LoanInv'
<1>1. PICK m \in Mutexes : m = want[t] /\ pc[t] = "take" /\ Busy(t) /\ xMutexHolder[m] = NoTask
  <2>1. pc[t] = "take" /\ Busy(t) /\ xMutexHolder[want[t]] = NoTask
    BY DEF SemaphoreTake, Free, Busy, Wanting
  <2> QED
    BY <2>1, WantedFacts DEF LoanInv, ShareInv
<1>2. /\ xMutexHolder' = [xMutexHolder EXCEPT ![m] = t]
      /\ held' = [held EXCEPT ![t] = Append(held[t], m)]
      /\ want' = [want EXCEPT ![t] = NoMutex] /\ pc' = [pc EXCEPT ![t] = "idle"]
      /\ UNCHANGED uxPriority
  BY <1>1 DEF SemaphoreTake, Go
<1>3. /\ pc \in [Tasks -> Places] /\ xMutexHolder \in [Mutexes -> Tasks \cup {NoTask}]
      /\ held \in [Tasks -> Seq(Mutexes)] /\ want \in [Tasks -> Mutexes \cup {NoMutex}]
  BY DEF LoanInv, ShareInv, MutexTypes
<1>4. NestsNothing(t)' => held[t] = <<>>
  BY <1>1, <1>2, <1>3, TakenFirst DEF LoanInv, ShareInv
<1>5. ASSUME NEW x \in Tasks, NestsNothing(x)', uxPriority'[x] # Priority[x]
      PROVE  NestsNothing(x) /\ \A u \in Tasks : Lender(u, x) => Lender(u, x)'
  <2>1. x # t
    BY <1>2, <1>4, <1>5 DEF LoanInv, ShareInv, OwnPriority
  <2>2. NestsNothing(x)
    BY <1>2, <1>3, <1>5, <2>1 DEF NestsNothing
  <2>3. ASSUME NEW u \in Tasks, Lender(u, x) PROVE Lender(u, x)'
    <3>1. u # t /\ want[u] # m
      BY <1>1, <2>3, TasksAssumption DEF Lender
    <3>2. pc'[u] = "waiting" /\ want'[u] = want[u]
      BY <1>2, <1>3, <2>3, <3>1 DEF Lender
    <3>3. want[u] \in Mutexes
      BY <2>3, WantedFacts DEF LoanInv, ShareInv, Lender, Busy, Wanting
    <3>4. xMutexHolder'[want[u]] = x
      BY <1>2, <1>3, <2>3, <3>1, <3>3 DEF Lender
    <3> QED
      BY <1>2, <2>3, <3>2, <3>4 DEF Lender
  <2> QED
    BY <2>2, <2>3
<1>6. Borrowed'
  BY <1>2, <1>5, BorrowedKept DEF LoanInv
<1>7. ShareInv' /\ Ranked'
  BY <1>2, TakeShare DEF LoanInv, Ranked
<1> QED
  BY <1>6, <1>7 DEF LoanInv

\* Who begins to wait lends the holder its priority, if that is higher.
LEMMA WaitersLoans ==
    ASSUME OuterUncontended, LoanInv, NEW t \in Tasks, BlockOnMutex(t), ~Free(t)
    PROVE  LoanInv'
<1>1. PICK m \in Mutexes, h \in Tasks :
          /\ m = want[t] /\ h = xMutexHolder[m] /\ (Busy(h) => h = t)
          /\ pc[t] = "block" /\ Busy(t)
  <2>1. pc[t] = "block" /\ Busy(t) /\ xMutexHolder[want[t]] # NoTask
    BY DEF BlockOnMutex, Free, Busy, Wanting
  <2> QED
    BY <2>1, HolderWantsNothing DEF LoanInv, ShareInv
<1>2. /\ uxPriority' = PriorityInherit(h, t) /\ pc' = [pc EXCEPT ![t] = "waiting"]
      /\ UNCHANGED <<xMutexHolder, held, want>>
  BY <1>1, TasksAssumption DEF BlockOnMutex, Free, Go
<1>3. pc \in [Tasks -> Places] /\ uxPriority \in [Tasks -> Nat]
  BY DEF LoanInv, ShareInv, MutexTypes
<1>4. /\ \A u \in Tasks : u # h => uxPriority'[u] = uxPriority[u]
      /\ uxPriority'[h] = IF uxPriority[h] < uxPriority[t] THEN uxPriority[t] ELSE uxPriority[h]
      /\ uxPriority' \in [Tasks -> Nat]
  BY <1>2, <1>3 DEF PriorityInherit
<1>5. Ranked'
  BY <1>4 DEF LoanInv, Ranked
<1>6. \A x \in Tasks : NestsNothing(x)' => NestsNothing(x)
  BY <1>2 DEF NestsNothing
<1>7. ASSUME NEW u \in Tasks, NEW x \in Tasks, Lender(u, x), uxPriority'[x] = uxPriority[x]
      PROVE  Lender(u, x)'
  <2>1. u # t /\ u # h
    BY <1>1, <1>7 DEF Lender, Busy, Wanting
  <2> QED
    BY <1>2, <1>3, <1>4, <1>7, <2>1 DEF Lender
<1>8. ASSUME uxPriority[h] < uxPriority[t] PROVE Lender(t, h)'
  <2>1. h # t
    BY <1>3, <1>8
  <2> QED
    BY <1>1, <1>2, <1>3, <1>4, <1>8, <2>1 DEF Lender
<1>9. ASSUME NEW x \in Tasks
      PROVE  uxPriority'[x] = uxPriority[x] \/ Lender(t, x)'
  BY <1>4, <1>8
<1>10. Borrowed'
  BY <1>6, <1>7, <1>9, BorrowedKept DEF LoanInv
<1> QED
  BY <1>5, <1>10, BlockShare DEF LoanInv

\* Who gives its mutex has nothing borrowed any more.
LEMMA GiversLoans ==
    ASSUME LoanInv, NEW t \in Tasks, Give(t)
    PROVE  LoanInv'
<1>1. PICK m : m = held[t][Len(held[t])] /\ GiveEffect(t, m)
  BY GiveFacts DEF LoanInv
<1>2. /\ uxPriority \in [Tasks -> Nat] /\ held \in [Tasks -> Seq(Mutexes)]
      /\ uxPriority'[t] \in {Priority[t], uxPriority[t]} /\ UNCHANGED want
      /\ uxPriority' = [uxPriority EXCEPT ![t] = uxPriority'[t]]
      /\ held' = [held EXCEPT ![t] = held'[t]]
  BY <1>1 DEF LoanInv, ShareInv, MutexTypes, GiveEffect
<1>3. \A u \in Tasks : u # t => held'[u] = held[u] /\ uxPriority'[u] = uxPriority[u]
  BY <1>2
<1>4. Ranked'
  BY <1>2, <1>3 DEF LoanInv, Ranked, Priorities
<1>5. ASSUME NEW x \in Tasks, NestsNothing(x)'
      PROVE  NestsNothing(x) /\ uxPriority'[x] = uxPriority[x] /\ x # t
  <2>1. x # t
    BY <1>1, <1>5, GivenAway DEF LoanInv
  <2> QED
    BY <1>3, <1>5, <2>1 DEF NestsNothing
<1>6. ASSUME NEW x \in Tasks, x # t, NEW u \in Tasks, Lender(u, x), uxPriority'[x] = uxPriority[x]
      PROVE  Lender(u, x)'
  <2>1. Busy(u) /\ xMutexHolder[want[u]] = x
    BY <1>6 DEF Lender, Busy, Wanting
  <2>2. pc'[u] = pc[u] /\ uxPriority'[u] = uxPriority[u] /\ xMutexHolder'[want[u]] = x
    BY <1>1, <1>6, <2>1, WantedElsewhere DEF LoanInv
  <2> QED
    BY <1>2, <1>6, <2>2 DEF Lender
<1>7. Borrowed'
  BY <1>5, <1>6, BorrowedKept DEF LoanInv
<1> QED
  BY <1>4, <1>7, GiveShare DEF LoanInv

-------------------------------------------------------------------------------
\* The scheduler in every step.

\* The ready lists after a step that leaves them alone.
LEMMA ArrangedKept ==
    ASSUME Arranged, UNCHANGED <<ready, uxPriority>>, \A t \in Tasks : Ready(t)' <=> Ready(t)
    PROVE  Arranged'
<1>1. ReadyTasks' = ReadyTasks
  BY DEF ReadyTasks
<1> QED
  BY <1>1 DEF Arranged

\* The idle task uses no mutex.
LEMMA IdleTaskIsFree ==
    ASSUME SchedulerParameters, ShareInv
    PROVE  IdleTask \in Tasks /\ ~Busy(IdleTask) /\ held[IdleTask] = <<>>
  BY DEF SchedulerParameters, ShareInv, Nesting, NextOfNest, HoldsOfNest

LEMMA UseMutexOrder ==
    ASSUME SchedulerParameters, SchedInv, NEW t \in Tasks, UseMutex(t)
    PROVE  SchedInv'
<1>1. /\ pxCurrentTCB = t /\ ~pendSV /\ suspended = NoTask
      /\ UNCHANGED <<ready, pxCurrentTCB, xYieldPending, pendSV, pended>>
      /\ UNCHANGED <<suspended, xPendingReadyList, uxPriority, waiting>>
  BY DEF UseMutex, Unsuspended, Current, switchVars, Lock, SemaphoreTake
<1>2. Running(t)
  BY <1>1 DEF SchedInv, Obeyed, Running
<1>3. pc \in [Tasks -> Places] /\ want \in [Tasks -> Mutexes \cup {NoMutex}]
  BY DEF SchedInv, LoanInv, ShareInv, MutexTypes
<1>4. /\ pc[t] \in {"idle", "take"} /\ pc'[t] \in {"idle", "take", "block"}
      /\ \A u \in Tasks : u # t => pc'[u] = pc[u] /\ want'[u] = want[u]
  BY <1>3 DEF UseMutex, Lock, SemaphoreTake, Go
<1>5. t # IdleTask
  <2>1. CASE Lock(t)
    BY <2>1 DEF Lock, SchedulerParameters
  <2>2. CASE SemaphoreTake(t)
    BY <2>2, IdleTaskIsFree DEF SemaphoreTake, SchedInv, LoanInv, Busy, Wanting
  <2> QED
    BY <2>1, <2>2 DEF UseMutex
<1>6. LoanInv'
  <2>1. CASE Lock(t)
    <3>1. ShareInv' /\ UNCHANGED <<xMutexHolder, waiting, held>>
      BY <2>1, LockShare DEF Lock, SchedInv, LoanInv
    <3> QED
      BY <1>1, <1>4, <3>1, CallersLoans DEF SchedInv
  <2>2. CASE SemaphoreTake(t) /\ Free(t)
    BY <1>2, <2>2, TakersLoans DEF SchedInv
  <2>3. CASE SemaphoreTake(t) /\ ~Free(t)
    <3>1. /\ pc[t] = "take" /\ pc' = [pc EXCEPT ![t] = "block"]
          /\ UNCHANGED <<xMutexHolder, held, want>> /\ xMutexHolder[want[t]] # NoTask
      BY <2>3 DEF SemaphoreTake, Free, Go
    <3>2. want' = [want EXCEPT ![t] = want[t]] /\ want[t] \in Mutexes \cup {NoMutex}
      BY <1>3, <3>1
    <3>3. NextOfNest(t, want[t])
      BY <3>1 DEF SchedInv, LoanInv, ShareInv, Nesting, Busy, Wanting
    <3>4. ShareInv'
      BY <1>1, <3>1, <3>2, <3>3, MovesShare DEF SchedInv, LoanInv, Places, Wanting
    <3> QED
      BY <1>1, <1>4, <3>1, <3>4, CallersLoans DEF SchedInv
  <2> QED
    BY <2>1, <2>2, <2>3 DEF UseMutex
<1>7. \A u \in Tasks : Ready(u)' <=> Ready(u)
  BY <1>4 DEF Ready
<1>8. Arranged'
  BY <1>1, <1>7, ArrangedKept DEF SchedInv
<1>9. Placed'
  BY <1>1, <1>4, <1>5 DEF SchedInv, Placed, SchedulerParameters
<1>10. Pending'
  BY <1>1 DEF SchedInv, Pending, TasksIn
<1>11. Obeyed'
  BY <1>1, <1>7 DEF SchedInv, Obeyed, Placed
<1> QED
  BY <1>6, <1>8, <1>9, <1>10, <1>11 DEF SchedInv

LEMMA SuspendOrder ==
    ASSUME SchedulerParameters, SchedInv, NEW t \in Tasks, SuspendToBlock(t)
    PROVE  SchedInv'
<1>1. /\ pxCurrentTCB = t /\ ~pendSV /\ suspended = NoTask /\ t # IdleTask /\ suspended' = t
      /\ UNCHANGED <<ready, pxCurrentTCB, xYieldPending, pendSV, pended>>
      /\ UNCHANGED <<xPendingReadyList, uxPriority>> /\ UNCHANGED mutexVars
  BY DEF SuspendToBlock, Unsuspended, Current, switchVars, mutexVars
<1>2. pc \in [Tasks -> Places]
  BY DEF SchedInv, LoanInv, ShareInv, MutexTypes
<1>3. /\ \A u \in Tasks : u # t => pc'[u] = pc[u]
      /\ pc'[t] = pc[t] \/ (pc[t] = "idle" /\ pc'[t] = "sleep")
      /\ pc' \in [Tasks -> Places]
  <2>1. CASE UNCHANGED pc
    BY <1>2, <2>1
  <2>2. CASE pc[t] = "idle" /\ Go(t, "sleep")
    BY <1>2, <2>2 DEF Go, Places
  <2> QED
    BY <2>1, <2>2 DEF SuspendToBlock
<1>4. LoanInv'
  BY <1>1, <1>3, SleepersLoans DEF SchedInv
<1>5. \A u \in Tasks : Ready(u)' <=> Ready(u)
  BY <1>3 DEF Ready
<1>6. Arranged'
  BY <1>1, <1>5, ArrangedKept DEF SchedInv
<1>7. Placed'
  BY <1>1, <1>3 DEF SchedInv, Placed, SchedulerParameters
<1>8. Pending'
  BY <1>1 DEF SchedInv, Pending, TasksIn
<1>9. Obeyed'
  BY <1>1, <1>5, TasksAssumption DEF SchedInv, Obeyed
<1> QED
  BY <1>4, <1>6, <1>7, <1>8, <1>9 DEF SchedInv

\* Giving a mutex: the giver goes to the list of its priority, the first waiter gets ready.
LEMMA GiveArranges ==
    ASSUME LoanInv, Arranged, NEW t \in Tasks, NEW m, GiveEffect(t, m), Ranked',
           ready' = AllAdded(IF uxPriority'[t] = uxPriority[t] THEN ready
                             ELSE Moved(ready, t, uxPriority[t], uxPriority'[t]),
                             First(waiting[m]), uxPriority)
    PROVE  Arranged'
<1>1. PICK prio, other, r, new :
          prio = uxPriority /\ other = uxPriority' /\ r = ready /\ new = ready'
  OBVIOUS
<1>2. PICK S \in SUBSET Tasks : S = ReadyTasks /\ ReadyLists(r, prio, S)
  <2>1. ReadyTasks \in SUBSET Tasks
    BY DEF ReadyTasks
  <2> QED
    BY <1>1, <2>1 DEF Arranged
<1>3. /\ m \in Mutexes /\ pc[t] = "idle" /\ pc \in [Tasks -> Places] /\ prio \in [Tasks -> Nat]
      /\ other = [prio EXCEPT ![t] = other[t]]
  BY <1>1 DEF GiveEffect, LoanInv, ShareInv, MutexTypes
<1>4. /\ t \in S /\ \A u \in Tasks : u # t => other[u] = prio[u]
      /\ \A u \in Tasks : prio[u] \in Priorities /\ other[u] \in Priorities
  BY <1>1, <1>2, <1>3 DEF ReadyTasks, Ready, LoanInv, Ranked
<1>5. PICK own : /\ own = IF other[t] = prio[t] THEN r ELSE Moved(r, t, prio[t], other[t])
                 /\ new = AllAdded(own, First(waiting[m]), prio)
  BY <1>1
<1>6. ReadyLists(own, other, S)
  <2>1. CASE other[t] = prio[t]
    <3>1. own = r /\ \A u \in S : other[u] = prio[u]
      BY <1>4, <1>5, <2>1
    <3> QED
      BY <1>2, <3>1, SameReadyLists
  <2>2. CASE other[t] # prio[t]
    <3>1. own = Moved(r, t, prio[t], other[t])
      BY <1>5, <2>2
    <3> QED
      BY <1>2, <1>4, <3>1, MovedFacts
  <2> QED
    BY <2>1, <2>2
<1>7. PICK list \in Seq(Tasks) : list = waiting[m]
  BY <1>3 DEF LoanInv, ShareInv, MutexTypes
<1>8. PICK tasks \in Seq(Tasks) :
          /\ tasks = First(list) /\ Once(tasks)
          /\ \A u \in TasksIn(tasks) : u \in Tasks /\ pc[u] = "waiting" /\ u # t
          /\ \A u \in Tasks : pc'[u] = IF u \in TasksIn(tasks) THEN "take" ELSE pc[u]
  <2>1. CASE list = <<>>
    <3>1. First(list) = <<>> /\ TasksIn(<<>>) = {} /\ pc' = pc
      BY <1>7, <2>1 DEF First, TasksIn, GiveEffect
    <3>2. <<>> \in Seq(Tasks) /\ Once(<<>>)
      BY DEF Once
    <3> QED
      BY <3>1, <3>2
  <2>2. CASE list # <<>>
    <3>1. PICK w \in Tasks : w = Head(list)
      BY <2>2
    <3>2. w \in TasksIn(list)
      BY <2>2, <3>1 DEF TasksIn
    <3>3. pc[w] = "waiting" /\ w # t
      BY <1>3, <1>7, <3>2, ListedFacts DEF LoanInv, ShareInv
    <3>4. First(list) = <<w>> /\ pc' = [pc EXCEPT ![w] = "take"]
      BY <1>7, <2>2, <3>1 DEF First, GiveEffect
    <3>5. <<w>> \in Seq(Tasks) /\ Once(<<w>>) /\ TasksIn(<<w>>) = {w}
      BY DEF Once, TasksIn
    <3>6. \A u \in Tasks : pc'[u] = IF u = w THEN "take" ELSE pc[u]
      BY <1>3, <3>4
    <3> QED
      BY <3>3, <3>4, <3>5, <3>6
  <2> QED
    BY <2>1, <2>2
<1>9. TasksIn(tasks) \cap S = {}
  BY <1>2, <1>8 DEF ReadyTasks, Ready
<1>10. \A u \in TasksIn(tasks) : prio[u] = other[u] /\ other[u] \in Priorities
  BY <1>4, <1>8
<1>11. ReadyLists(new, other, S \cup TasksIn(tasks))
  <2>1. new = AllAdded(own, tasks, prio)
    BY <1>5, <1>7, <1>8
  <2> QED
    BY <1>6, <1>8, <1>9, <1>10, <2>1, AllAddedFacts
<1>12. ReadyTasks' = S \cup TasksIn(tasks)
  BY <1>2, <1>8 DEF ReadyTasks, Ready
<1> QED
  BY <1>1, <1>11, <1>12 DEF Arranged

\* A mutex that somebody else waits for is the last of its nest.
LEMMA ContendedInnermost ==
    ASSUME OuterUncontended, MutexTypes, Nesting, NEW t \in Tasks, NEW m \in Mutexes,
           Len(held[t]) = 1, held[t][1] = m, NEW w \in Tasks, w # t, Busy(w), want[w] = m
    PROVE  NestsNothing(t)
<1>1. PICK mine \in Seq(Mutexes) : mine = held[t] /\ Len(mine) = 1 /\ mine[1] = m
  BY DEF MutexTypes
<1>2. mine # <<>> /\ Head(mine) = m
  BY <1>1
<1>3. ASSUME NEW nest \in Nests[t], Head(nest) = m, ~(Len(nest) <= 1) PROVE FALSE
  <2>1. nest \in Seq(Mutexes)
    BY MutexAssumption
  <2>2. Len(nest) \in Nat /\ 1 \in 1..(Len(nest) - 1) /\ nest[1] = m
    BY <1>3, <2>1
  <2>3. PICK other \in Nests[w] : Len(held[w]) < Len(other) /\ m = other[Len(held[w]) + 1]
    BY DEF Nesting, NextOfNest
  <2>4. other \in Seq(Mutexes) /\ held[w] \in Seq(Mutexes)
    BY MutexAssumption DEF MutexTypes
  <2>5. Len(held[w]) + 1 \in 1..Len(other)
    BY <2>3, <2>4
  <2> QED
    BY <2>2, <2>3, <2>5 DEF OuterUncontended
<1> QED
  BY <1>1, <1>2, <1>3 DEF NestsNothing

\* Unless giving the mutex is urgent, nobody gets ready above the giver.
LEMMA GiveObeyed ==
    ASSUME OuterUncontended, LoanInv, NEW t \in Tasks, NEW m, GiveEffect(t, m),
           m = held[t][Len(held[t])], Running(t), ~Urgent(t, waiting[m])
    PROVE  \A u \in Tasks : Ready(u)' => uxPriority'[u] <= uxPriority'[t]
<1>1. /\ m \in Mutexes /\ uxPriority \in [Tasks -> Nat] /\ pc \in [Tasks -> Places]
      /\ uxPriority' = [uxPriority EXCEPT ![t] = uxPriority'[t]]
      /\ uxPriority'[t] = IF Len(held[t]) = 1 THEN Priority[t] ELSE uxPriority[t]
  BY DEF GiveEffect, LoanInv, ShareInv, MutexTypes
<1>2. PICK a \in Nat, b \in Nat : a = uxPriority[t] /\ b = uxPriority'[t] /\ b <= a
  <2>1. uxPriority[t] \in Nat /\ Priority[t] \in Nat /\ Priority[t] <= uxPriority[t]
    BY <1>1, TasksAssumption DEF LoanInv, ShareInv, OwnPriority
  <2>2. uxPriority'[t] \in Nat /\ uxPriority'[t] <= uxPriority[t]
    BY <1>1, <2>1
  <2> QED
    BY <2>1, <2>2
<1>3. \A u \in Tasks : u # t => uxPriority'[u] = uxPriority[u]
  BY <1>1
<1>4. PICK list \in Seq(Tasks) : list = waiting[m]
  BY <1>1 DEF LoanInv, ShareInv, MutexTypes
<1>5. CASE list = <<>>
  <2>1. a = b /\ pc' = pc
    BY <1>2, <1>4, <1>5 DEF Urgent, GiveEffect
  <2> QED
    BY <1>2, <1>3, <2>1 DEF Running, Ready
<1>6. CASE list # <<>>
  <2>1. Once(list) /\ InOrder(list, uxPriority)
    BY <1>1, <1>4 DEF LoanInv, ShareInv, Listed
  <2>2. PICK w \in Tasks : w = Head(list) /\ w \in TasksIn(list)
    BY <1>6 DEF TasksIn
  <2>3. pc[w] = "waiting" /\ want[w] = m /\ Busy(w)
    BY <1>1, <1>4, <2>2, ListedFacts DEF LoanInv, ShareInv
  <2>4. w # t
    BY <2>3 DEF GiveEffect
  <2>5. ASSUME NEW u \in TasksIn(list) PROVE uxPriority[u] <= uxPriority[w]
    <3>1. TasksIn(Tail(list)) = TasksIn(list) \ {w}
      BY <1>6, <2>1, <2>2, TailOfList
    <3>2. \A v \in TasksIn(Tail(list)) : uxPriority[v] <= uxPriority[w]
      BY <1>6, <2>1, <2>2, TailOfList
    <3>3. uxPriority[w] \in Nat
      BY <1>1
    <3> QED
      BY <3>1, <3>2, <3>3
  <2>6. uxPriority[w] <= b
    <3>1. ~(uxPriority[w] > uxPriority'[t]) /\ uxPriority[w] \in Nat
      BY <1>1, <1>4, <1>6, <2>2 DEF Urgent
    <3> QED
      BY <1>2, <3>1
  <2>7. a = b
    <3> SUFFICES ASSUME a # b PROVE FALSE
      OBVIOUS
    <3>1. Len(held[t]) = 1 /\ held[t][1] = m /\ uxPriority[t] # Priority[t]
      BY <1>1, <1>2
    <3>2. NestsNothing(t)
      BY <1>1, <2>3, <2>4, <3>1, ContendedInnermost DEF LoanInv, ShareInv
    <3>3. PICK u \in Tasks : Lender(u, t)
      BY <3>1, <3>2 DEF LoanInv, Borrowed
    <3>4. Busy(u) /\ xMutexHolder[want[u]] = t /\ uxPriority[t] <= uxPriority[u] /\ pc[u] = "waiting"
      BY <3>3 DEF Lender, Busy, Wanting
    <3>5. want[u] \in Mutexes
      BY <3>4, WantedFacts DEF LoanInv, ShareInv
    <3>6. PICK i \in 1..Len(held[t]) : held[t][i] = want[u]
      BY <3>4, <3>5, TasksAssumption DEF LoanInv, ShareInv, Holding
    <3>7. want[u] = m
      <4>1. i = 1
        BY <3>1, <3>6
      <4> QED
        BY <3>1, <3>6, <4>1
    <3>8. u \in TasksIn(list)
      BY <1>4, <3>4, <3>7 DEF LoanInv, ShareInv, Listed
    <3>9. uxPriority[u] \in Nat /\ uxPriority[w] \in Nat /\ uxPriority[u] <= uxPriority[w]
      BY <1>1, <2>5, <3>8
    <3> QED
      BY <1>2, <2>6, <3>4, <3>9
  <2>8. \A u \in Tasks : pc'[u] = IF u = w THEN "take" ELSE pc[u]
    <3>1. pc' = [pc EXCEPT ![w] = "take"]
      BY <1>4, <1>6, <2>2 DEF GiveEffect
    <3> QED
      BY <1>1, <3>1
  <2>9. \A u \in Tasks : Ready(u)' => u = w \/ Ready(u)
    BY <2>8 DEF Ready
  <2> QED
    BY <1>2, <1>3, <2>4, <2>6, <2>7, <2>9 DEF Running
<1> QED
  BY <1>5, <1>6

LEMMA GiveOrder ==
    ASSUME OuterUncontended, SchedulerParameters, SchedInv, NEW t \in Tasks, GiveMutex(t)
    PROVE  SchedInv'
<1>1. PICK m : m = held[t][Len(held[t])] /\ GiveEffect(t, m)
  BY GiveFacts DEF GiveMutex, SchedInv, LoanInv
<1>2. /\ pxCurrentTCB = t /\ ~pendSV /\ suspended = NoTask
      /\ UNCHANGED <<pxCurrentTCB, suspended, xPendingReadyList>>
      /\ pendSV' = Urgent(t, waiting[m])
      /\ ready' = AllAdded(IF uxPriority'[t] = uxPriority[t] THEN ready
                             ELSE Moved(ready, t, uxPriority[t], uxPriority'[t]),
                             First(waiting[m]), uxPriority)
  BY <1>1 DEF GiveMutex, Unsuspended, Current, Give, Last
<1>3. Running(t)
  BY <1>2 DEF SchedInv, Obeyed, Running
<1>4. LoanInv'
  BY GiversLoans DEF GiveMutex, SchedInv
<1>5. Arranged'
  BY <1>1, <1>2, <1>4, GiveArranges DEF SchedInv, LoanInv
<1>6. /\ pc[t] = "idle" /\ pc[IdleTask] = "idle" /\ pc \in [Tasks -> Places] /\ m \in Mutexes
  BY <1>1 DEF GiveEffect, SchedInv, LoanInv, ShareInv, MutexTypes, Placed
<1>7. \A u \in Tasks : pc'[u] = pc[u] \/ pc[u] = "waiting"
  <2>1. PICK W \in SUBSET TasksIn(waiting[m]) : WakesHeir(m, W)
    BY <1>1, GiveWakes DEF SchedInv, LoanInv
  <2>2. \A u \in W : pc[u] = "waiting"
    BY <1>6, ListedFacts DEF SchedInv, LoanInv, ShareInv
  <2> QED
    BY <2>1, <2>2 DEF WakesHeir
<1>8. Placed'
  BY <1>2, <1>6, <1>7 DEF SchedInv, Placed, SchedulerParameters
<1>9. Pending'
  BY <1>2 DEF SchedInv, Pending, TasksIn
<1>10. Obeyed'
  <2>1. Ready(t)'
    BY <1>6, <1>7 DEF Ready
  <2>2. ~Urgent(t, waiting[m]) => \A u \in Tasks : Ready(u)' => uxPriority'[u] <= uxPriority'[t]
    BY <1>1, <1>3, GiveObeyed DEF SchedInv
  <2> QED
    BY <1>2, <2>1, <2>2 DEF Obeyed
<1> QED
  BY <1>4, <1>5, <1>8, <1>9, <1>10 DEF SchedInv

\* Waiting for a mutex, or finding that it was given.
LEMMA WaitArranges ==
    ASSUME LoanInv, Arranged, NEW t \in Tasks, NEW h \in Tasks, pc[t] = "block", Ranked',
           uxPriority' = PriorityInherit(h, t), pc' = [pc EXCEPT ![t] = "waiting"],
           ready' = Removed(IF uxPriority' = uxPriority
                               \/ ~Contains(ready.lists[uxPriority[h]].items, h)
                            THEN ready ELSE Moved(ready, h, uxPriority[h], uxPriority'[h]),
                            t, uxPriority[t])
    PROVE  Arranged'
<1>1. PICK prio, other, r, new :
          prio = uxPriority /\ other = uxPriority' /\ r = ready /\ new = ready'
  OBVIOUS
<1>2. PICK S \in SUBSET Tasks : S = ReadyTasks /\ ReadyLists(r, prio, S)
  <2>1. ReadyTasks \in SUBSET Tasks
    BY DEF ReadyTasks
  <2> QED
    BY <1>1, <2>1 DEF Arranged
<1>3. pc \in [Tasks -> Places] /\ prio \in [Tasks -> Nat]
  BY <1>1 DEF LoanInv, ShareInv, MutexTypes
<1>4. other = IF prio[h] < prio[t] THEN [prio EXCEPT ![h] = prio[t]] ELSE prio
  BY <1>1 DEF PriorityInherit
<1>5. /\ \A u \in Tasks : u # h => other[u] = prio[u]
      /\ \A u \in Tasks : prio[u] \in Priorities /\ other[u] \in Priorities
      /\ t \in S
  BY <1>1, <1>2, <1>3, <1>4 DEF ReadyTasks, Ready, LoanInv, Ranked
<1>6. PICK lent : /\ lent = IF other = prio \/ ~Contains(r.lists[prio[h]].items, h)
                            THEN r ELSE Moved(r, h, prio[h], other[h])
                  /\ new = Removed(lent, t, prio[t])
  BY <1>1
<1>7. ReadyLists(lent, other, S)
  <2>1. CASE other = prio
    BY <1>2, <1>6, <2>1
  <2>2. CASE other # prio /\ ~Contains(r.lists[prio[h]].items, h)
    <3>1. h \notin S
      <4>1. TasksIn(r.lists[prio[h]].items) = { u \in S : prio[u] = prio[h] }
        BY <1>2, <1>5 DEF ReadyLists
      <4>2. h \notin TasksIn(r.lists[prio[h]].items)
        BY <2>2 DEF Contains, TasksIn
      <4> QED
        BY <4>1, <4>2
    <3>2. lent = r /\ \A u \in S : other[u] = prio[u]
      BY <1>5, <1>6, <2>2, <3>1
    <3> QED
      BY <1>2, <3>2, SameReadyLists
  <2>3. CASE other # prio /\ Contains(r.lists[prio[h]].items, h)
    <3>1. h \in S
      <4>1. TasksIn(r.lists[prio[h]].items) = { u \in S : prio[u] = prio[h] }
        BY <1>2, <1>5 DEF ReadyLists
      <4>2. h \in TasksIn(r.lists[prio[h]].items)
        BY <2>3 DEF Contains, TasksIn
      <4> QED
        BY <4>1, <4>2
    <3>2. lent = Moved(r, h, prio[h], other[h])
      BY <1>6, <2>3
    <3> QED
      BY <1>2, <1>5, <3>1, <3>2, MovedFacts
  <2> QED
    BY <2>1, <2>2, <2>3
<1>8. prio[t] = other[t]
  BY <1>3, <1>4, <1>5
<1>9. ReadyLists(new, other, S \ {t})
  <2>1. new = Removed(lent, t, other[t])
    BY <1>6, <1>8
  <2> QED
    BY <1>5, <1>7, <2>1, RemovedFacts
<1>10. ReadyTasks' = S \ {t}
  <2>1. \A u \in Tasks : pc'[u] = IF u = t THEN "waiting" ELSE pc[u]
    BY <1>3
  <2> QED
    BY <1>2, <2>1 DEF ReadyTasks, Ready
<1> QED
  BY <1>1, <1>9, <1>10 DEF Arranged

LEMMA WaitOrder ==
    ASSUME OuterUncontended, SchedulerParameters, SchedInv, NEW t \in Tasks, WaitForMutex(t)
    PROVE  SchedInv'
<1>1. /\ pxCurrentTCB = t /\ ~pendSV /\ suspended = t /\ pc[t] = "block"
      /\ UNCHANGED <<pxCurrentTCB, pendSV, suspended, xPendingReadyList>>
      /\ UNCHANGED <<xMutexHolder, held, want>>
  BY DEF WaitForMutex, Current, BlockOnMutex
<1>2. /\ pc \in [Tasks -> Places] /\ want \in [Tasks -> Mutexes \cup {NoMutex}]
      /\ uxPriority \in [Tasks -> Nat]
  BY DEF SchedInv, LoanInv, ShareInv, MutexTypes
<1>3. suspended # NoTask
  BY <1>1, TasksAssumption
<1>4. Pending'
  <2>1. \A u \in TasksIn(xPendingReadyList) : u # t /\ pc[u] = "asleep" /\ u \in Tasks
    BY <1>1 DEF SchedInv, Pending, TasksIn
  <2>2. \A u \in Tasks : u # t => pc'[u] = pc[u]
    BY <1>2 DEF WaitForMutex, BlockOnMutex, Go
  <2>3. \A u \in TasksIn(xPendingReadyList) : pc'[u] = "asleep"
    BY <2>1, <2>2
  <2> QED
    BY <1>1, <1>3, <2>3 DEF SchedInv, Pending, TasksIn
<1>5. Placed'
  <2>1. \A u \in Tasks : u # t => pc'[u] = pc[u]
    BY <1>2 DEF WaitForMutex, BlockOnMutex, Go
  <2> QED
    BY <1>1, <2>1 DEF SchedInv, Placed, SchedulerParameters
<1>6. CASE Free(t)
  <2>1. /\ pc' = [pc EXCEPT ![t] = "take"] /\ UNCHANGED <<uxPriority, waiting>> /\ ready' = ready
    BY <1>6 DEF WaitForMutex, BlockOnMutex, Free, Go
  <2>2. want' = [want EXCEPT ![t] = want[t]] /\ want[t] \in Mutexes \cup {NoMutex}
    BY <1>1, <1>2
  <2>3. NextOfNest(t, want[t])
    BY <1>1 DEF SchedInv, LoanInv, ShareInv, Nesting, Busy, Wanting
  <2>4. ShareInv'
    BY <1>1, <2>1, <2>2, <2>3, MovesShare DEF SchedInv, LoanInv, Places, Wanting
  <2>5. \A u \in Tasks : pc'[u] = IF u = t THEN "take" ELSE pc[u]
    BY <1>2, <2>1
  <2>6. LoanInv'
    BY <1>1, <2>1, <2>4, <2>5, CallersLoans DEF SchedInv
  <2>7. \A u \in Tasks : Ready(u)' <=> Ready(u)
    BY <1>1, <2>5 DEF Ready
  <2>8. Arranged'
    BY <2>1, <2>7, ArrangedKept DEF SchedInv
  <2>9. Obeyed'
    BY <1>1, <1>3, <2>1, <2>7 DEF SchedInv, Obeyed
  <2> QED
    BY <1>4, <1>5, <2>6, <2>8, <2>9 DEF SchedInv
<1>7. CASE ~Free(t)
  <2>1. LoanInv'
    BY <1>7, WaitersLoans DEF WaitForMutex, SchedInv
  <2>2. PICK h \in Tasks : h = xMutexHolder[want[t]] /\ h # NoTask
    <3>1. want[t] \in Mutexes
      BY <1>1, WantedFacts DEF SchedInv, LoanInv, ShareInv, Busy, Wanting
    <3> QED
      BY <1>7, <3>1 DEF SchedInv, LoanInv, ShareInv, MutexTypes, Free
  <2>3. uxPriority' = PriorityInherit(h, t) /\ pc' = [pc EXCEPT ![t] = "waiting"]
    BY <2>2 DEF WaitForMutex, BlockOnMutex, Go
  <2>4. ready' = Removed(IF uxPriority' = uxPriority
                            \/ ~Contains(ready.lists[uxPriority[h]].items, h)
                         THEN ready ELSE Moved(ready, h, uxPriority[h], uxPriority'[h]),
                         t, uxPriority[t])
    BY <2>2 DEF WaitForMutex
  <2>5. Arranged'
    BY <1>1, <2>1, <2>3, <2>4, WaitArranges DEF SchedInv, LoanInv
  <2>6. \A u \in Tasks : pc'[u] = IF u = t THEN "waiting" ELSE pc[u]
    BY <1>2, <2>3
  <2>7. /\ \A u \in Tasks : u # h => uxPriority'[u] = uxPriority[u]
        /\ uxPriority'[h] = IF uxPriority[h] < uxPriority[t] THEN uxPriority[t] ELSE uxPriority[h]
        /\ uxPriority'[t] = uxPriority[t]
    BY <1>2, <2>3 DEF PriorityInherit
  <2>8. ASSUME NEW u \in Tasks, Ready(u)' PROVE uxPriority'[u] <= uxPriority'[t]
    <3>1. Ready(u)
      BY <2>6, <2>8 DEF Ready
    <3>2. uxPriority[u] <= uxPriority[t] /\ uxPriority[u] \in Nat /\ uxPriority[t] \in Nat
      BY <1>1, <1>2, <3>1 DEF SchedInv, Obeyed
    <3> QED
      BY <2>7, <3>2
  <2>9. Obeyed'
    BY <1>1, <1>3, <2>8 DEF Obeyed
  <2> QED
    BY <1>4, <1>5, <2>1, <2>5, <2>9 DEF SchedInv
<1> QED
  BY <1>6, <1>7

LEMMA FallAsleepOrder ==
    ASSUME SchedulerParameters, SchedInv, NEW t \in Tasks, FallAsleep(t)
    PROVE  SchedInv'
<1>1. /\ pxCurrentTCB = t /\ ~pendSV /\ suspended = t /\ pc[t] = "sleep"
      /\ UNCHANGED <<pxCurrentTCB, pendSV, suspended, xPendingReadyList, uxPriority>>
      /\ UNCHANGED mutexVars
      /\ pc' = [pc EXCEPT ![t] = "asleep"] /\ ready' = Removed(ready, t, uxPriority[t])
  BY DEF FallAsleep, Current, Go, mutexVars
<1>2. pc \in [Tasks -> Places] /\ suspended # NoTask
  BY <1>1, TasksAssumption DEF SchedInv, LoanInv, ShareInv, MutexTypes
<1>3. pc' \in [Tasks -> Places] /\ \A u \in Tasks : pc'[u] = IF u = t THEN "asleep" ELSE pc[u]
  BY <1>1, <1>2 DEF Places
<1>4. LoanInv'
  BY <1>1, <1>3, SleepersLoans DEF SchedInv
<1>5. ReadyTasks' = ReadyTasks \ {t} /\ t \in ReadyTasks /\ ReadyTasks \in SUBSET Tasks
  BY <1>1, <1>3 DEF ReadyTasks, Ready
<1>6. Arranged'
  <2>1. PICK prio, r, new, S :
            /\ prio = uxPriority /\ r = ready /\ new = ready'
            /\ S = ReadyTasks /\ S \in SUBSET Tasks
    BY <1>5
  <2>2. ReadyLists(r, prio, S) /\ t \in S /\ prio[t] \in Priorities
    BY <1>5, <2>1 DEF SchedInv, Arranged, LoanInv, Ranked
  <2>3. ReadyLists(new, prio, S \ {t})
    BY <1>1, <2>1, <2>2, RemovedFacts
  <2> QED
    BY <1>1, <1>5, <2>1, <2>3 DEF Arranged
<1>7. Placed'
  BY <1>1, <1>3 DEF SchedInv, Placed, SchedulerParameters
<1>8. Pending'
  <2>1. \A u \in TasksIn(xPendingReadyList) : u \in Tasks /\ pc'[u] = "asleep"
    BY <1>3 DEF SchedInv, Pending, TasksIn
  <2> QED
    BY <1>1, <1>2, <2>1 DEF SchedInv, Pending, TasksIn
<1>9. Obeyed'
  <2>1. \A u \in Tasks : Ready(u)' => Ready(u)
    BY <1>3 DEF Ready
  <2> QED
    BY <1>1, <1>2, <2>1 DEF SchedInv, Obeyed
<1> QED
  BY <1>4, <1>6, <1>7, <1>8, <1>9 DEF SchedInv

\* Tasks that slept become ready.
LEMMA WakingOrder ==
    ASSUME LoanInv, Arranged, NEW woken \in Seq(Tasks), Once(woken),
           \A u \in TasksIn(woken) : pc[u] = "asleep", UNCHANGED mutexVars,
           ready' = AllAdded(ready, woken, uxPriority),
           pc' = [u \in Tasks |-> IF Contains(woken, u) THEN "idle" ELSE pc[u]]
    PROVE  /\ LoanInv' /\ Arranged' /\ UNCHANGED uxPriority
           /\ \A u \in Tasks : pc'[u] = IF u \in TasksIn(woken) THEN "idle" ELSE pc[u]
           /\ \A u \in Tasks : Ready(u)' <=> (Ready(u) \/ u \in TasksIn(woken))
<1>1. pc \in [Tasks -> Places] /\ UNCHANGED uxPriority
  BY DEF LoanInv, ShareInv, MutexTypes, mutexVars
<1>2. \A u : Contains(woken, u) <=> u \in TasksIn(woken)
  BY DEF Contains, TasksIn
<1>3. \A u \in Tasks : pc'[u] = IF u \in TasksIn(woken) THEN "idle" ELSE pc[u]
  BY <1>2
<1>4. pc' \in [Tasks -> Places]
  <2>1. pc' = [u \in Tasks |-> pc'[u]]
    OBVIOUS
  <2>2. \A u \in Tasks : pc'[u] \in Places
    BY <1>1, <1>3 DEF Places
  <2> QED
    BY <2>1, <2>2
<1>5. LoanInv'
  <2>1. \A u \in Tasks : \/ pc'[u] = pc[u]
                         \/ pc[u] = "asleep" /\ pc'[u] = "idle"
    BY <1>3
  <2> QED
    BY <1>4, <2>1, SleepersLoans
<1>6. \A u \in Tasks : Ready(u)' <=> (Ready(u) \/ u \in TasksIn(woken))
  BY <1>3 DEF Ready
<1>7. TasksIn(woken) \subseteq Tasks /\ TasksIn(woken) \cap ReadyTasks = {}
  BY DEF TasksIn, ReadyTasks, Ready
<1>8. ReadyTasks' = ReadyTasks \cup TasksIn(woken)
  BY <1>6, <1>7 DEF ReadyTasks
<1>9. Arranged'
  <2>1. PICK prio, r, new, S :
            /\ prio = uxPriority /\ r = ready /\ new = ready'
            /\ S = ReadyTasks /\ S \in SUBSET Tasks
    BY DEF ReadyTasks
  <2>2. /\ ReadyLists(r, prio, S) /\ TasksIn(woken) \cap S = {}
        /\ \A u \in TasksIn(woken) : prio[u] = prio[u] /\ prio[u] \in Priorities
    BY <1>7, <2>1 DEF Arranged, LoanInv, Ranked
  <2>3. ReadyLists(new, prio, S \cup TasksIn(woken))
    BY <2>1, <2>2, AllAddedFacts
  <2> QED
    BY <1>1, <1>8, <2>1, <2>3 DEF Arranged
<1> QED
  BY <1>1, <1>3, <1>5, <1>6, <1>9

\* The pending tasks and the one whose delay is over.
LEMMA ResumedFacts ==
    ASSUME Pending, NEW due \in Due
    PROVE  LET woken == xPendingReadyList \o due
           IN  /\ woken \in Seq(Tasks) /\ Once(woken)
               /\ \A u \in TasksIn(woken) : pc[u] = "asleep"
<1>1. PICK woken : woken = xPendingReadyList \o due
  OBVIOUS
<1>2. PICK list \in Seq(Tasks) :
          list = xPendingReadyList /\ Once(list) /\ \A u \in TasksIn(list) : pc[u] = "asleep"
  BY DEF Pending
<1>3. CASE due = <<>>
  <2>1. woken = list
    BY <1>1, <1>2, <1>3
  <2> QED
    BY <1>1, <1>2, <2>1
<1>4. CASE due # <<>>
  <2>1. PICK u \in Tasks : due = <<u>> /\ pc[u] = "asleep" /\ ~Contains(list, u)
    BY <1>2, <1>4 DEF Due
  <2>2. PICK n \in Nat : n = Len(list)
    OBVIOUS
  <2>3. woken = Append(list, u)
    BY <1>1, <1>2, <2>1
  <2>4. /\ woken \in Seq(Tasks) /\ Len(woken) = n + 1 /\ woken[n + 1] = u
        /\ \A i \in 1..n : woken[i] = list[i]
    BY <2>2, <2>3
  <2>5. \A i \in 1..n : list[i] # u
    BY <2>1, <2>2 DEF Contains
  <2>6. \A i \in 1..(n + 1) : i = n + 1 \/ i \in 1..n
    BY <2>2
  <2>7. Once(woken)
    BY <1>2, <2>2, <2>4, <2>5, <2>6 DEF Once
  <2>8. ASSUME NEW v \in TasksIn(woken) PROVE pc[v] = "asleep"
    <3>1. PICK i \in 1..(n + 1) : v = woken[i]
      BY <2>4, <2>8 DEF TasksIn
    <3>2. v = u \/ v \in TasksIn(list)
      BY <2>2, <2>4, <2>6, <3>1 DEF TasksIn
    <3> QED
      BY <1>2, <2>1, <3>2
  <2> QED
    BY <1>1, <2>4, <2>7, <2>8
<1> QED
  BY <1>3, <1>4

\* The processor goes on with a task, if no woken one is above it.
LEMMA WokenObeyed ==
    ASSUME LoanInv, Obeyed, NEW woken \in Seq(Tasks), UNCHANGED <<uxPriority, pxCurrentTCB>>,
           pxCurrentTCB \in Tasks, suspended # NoTask \/ ~pendSV,
           \A i \in 1..Len(woken) : ~Higher(woken[i]),
           \A u \in Tasks : Ready(u)' <=> (Ready(u) \/ u \in TasksIn(woken))
    PROVE  \A u \in Tasks : Ready(u)' => uxPriority'[u] <= uxPriority[pxCurrentTCB]'
<1> SUFFICES ASSUME NEW u \in Tasks, Ready(u)'
             PROVE  uxPriority[u] <= uxPriority[pxCurrentTCB]
  OBVIOUS
<1>1. CASE Ready(u)
  BY <1>1 DEF Obeyed
<1>2. CASE u \in TasksIn(woken)
  <2>1. ~(uxPriority[u] > uxPriority[pxCurrentTCB])
    BY <1>2 DEF TasksIn, Higher
  <2>2. uxPriority[u] \in Nat /\ uxPriority[pxCurrentTCB] \in Nat
    BY DEF LoanInv, ShareInv, MutexTypes
  <2> QED
    BY <2>1, <2>2
<1> QED
  BY <1>1, <1>2

LEMMA ResumeOrder ==
    ASSUME SchedulerParameters, SchedInv, NEW t \in Tasks, ResumeAfter(t)
    PROVE  SchedInv'
<1>1. /\ pxCurrentTCB = t /\ ~pendSV /\ suspended = t /\ pc[t] \in {"waiting", "asleep", "take"}
      /\ suspended' = NoTask /\ xPendingReadyList' = <<>>
      /\ UNCHANGED mutexVars /\ UNCHANGED pxCurrentTCB
  BY DEF ResumeAfter, Current
<1>2. PICK due \in Due :
          LET woken == xPendingReadyList \o due
              r == AllAdded(ready, woken, uxPriority)
          IN  /\ ready' = r
              /\ pc' = [u \in Tasks |-> IF Contains(woken, u) THEN "idle" ELSE pc[u]]
              /\ xYieldPending' = Yields(r, woken, t)
              /\ pendSV' = (xYieldPending' \/ pc[t] # "take")
  BY DEF ResumeAfter, Due
<1>3. PICK woken : woken = xPendingReadyList \o due
  OBVIOUS
<1>4. woken \in Seq(Tasks) /\ Once(woken) /\ \A u \in TasksIn(woken) : pc[u] = "asleep"
  BY <1>3, ResumedFacts DEF SchedInv
<1>5. /\ ready' = AllAdded(ready, woken, uxPriority)
      /\ pc' = [u \in Tasks |-> IF Contains(woken, u) THEN "idle" ELSE pc[u]]
      /\ ~pendSV' => pc[t] = "take" /\ \A i \in 1..Len(woken) : ~Higher(woken[i])
  BY <1>2, <1>3 DEF Yields
<1>6. /\ LoanInv' /\ Arranged' /\ UNCHANGED uxPriority
      /\ \A u \in Tasks : pc'[u] = IF u \in TasksIn(woken) THEN "idle" ELSE pc[u]
      /\ \A u \in Tasks : Ready(u)' <=> (Ready(u) \/ u \in TasksIn(woken))
  BY <1>1, <1>4, <1>5, WakingOrder DEF SchedInv
<1>7. Placed'
  BY <1>1, <1>6 DEF SchedInv, Placed, SchedulerParameters
<1>8. Pending'
  BY <1>1 DEF Pending, Once, TasksIn
<1>9. Obeyed'
  <2>1. suspended # NoTask
    BY <1>1, TasksAssumption
  <2>2. ASSUME ~pendSV' PROVE Ready(t)'
    BY <1>5, <1>6, <2>2 DEF Ready
  <2>3. ~pendSV' => \A u \in Tasks : Ready(u)' => uxPriority'[u] <= uxPriority[pxCurrentTCB]'
    BY <1>1, <1>4, <1>5, <1>6, <2>1, WokenObeyed DEF SchedInv
  <2> QED
    BY <1>1, <2>2, <2>3 DEF Obeyed
<1> QED
  BY <1>6, <1>7, <1>8, <1>9 DEF SchedInv

LEMMA TickOrder ==
    ASSUME SchedulerParameters, SchedInv, TickInterrupt
    PROVE  SchedInv'
<1>1. /\ UNCHANGED mutexVars /\ UNCHANGED uxPriority
      /\ UNCHANGED <<suspended, xPendingReadyList, pxCurrentTCB>>
  BY DEF TickInterrupt, mutexVars
<1>2. CASE suspended # NoTask
  <2>1. UNCHANGED <<ready, pc, pendSV>>
    BY <1>2 DEF TickInterrupt
  <2>2. LoanInv'
    BY <1>1, <2>1, SleepersLoans DEF SchedInv, LoanInv, ShareInv, MutexTypes
  <2>3. \A u \in Tasks : Ready(u)' <=> Ready(u)
    BY <2>1 DEF Ready
  <2>4. Arranged'
    BY <1>1, <2>1, <2>3, ArrangedKept DEF SchedInv
  <2>5. Placed' /\ Pending' /\ Obeyed'
    BY <1>1, <2>1, <2>3 DEF SchedInv, Placed, Pending, Obeyed, TasksIn
  <2> QED
    BY <2>2, <2>4, <2>5 DEF SchedInv
<1>3. CASE suspended = NoTask
  <2>1. PICK due \in Due :
            /\ ready' = AllAdded(ready, due, uxPriority)
            /\ pc' = [u \in Tasks |-> IF Contains(due, u) THEN "idle" ELSE pc[u]]
            /\ ~pendSV' => ~pendSV /\ \A i \in 1..Len(due) : ~Higher(due[i])
    BY <1>3 DEF TickInterrupt
  <2>2. Pending /\ due \in Due /\ due = xPendingReadyList \o due
    <3>1. due = <<>> \/ \E u \in Tasks : due = <<u>>
      BY DEF Due
    <3>2. xPendingReadyList = <<>> /\ <<>> \o due = due
      BY <1>3, <3>1 DEF SchedInv, Pending
    <3> QED
      BY <3>2 DEF SchedInv
  <2>3. due \in Seq(Tasks) /\ Once(due) /\ \A u \in TasksIn(due) : pc[u] = "asleep"
    BY <2>2, ResumedFacts
  <2>4. /\ LoanInv' /\ Arranged'
        /\ \A u \in Tasks : pc'[u] = IF u \in TasksIn(due) THEN "idle" ELSE pc[u]
        /\ \A u \in Tasks : Ready(u)' <=> (Ready(u) \/ u \in TasksIn(due))
    BY <1>1, <2>1, <2>3, WakingOrder DEF SchedInv
  <2>5. Placed'
    BY <1>1, <2>4 DEF SchedInv, Placed, SchedulerParameters
  <2>6. Pending'
    BY <1>1, <1>3 DEF SchedInv, Pending, Once, TasksIn
  <2>7. Obeyed'
    <3>1. ASSUME ~pendSV' PROVE Ready(pxCurrentTCB)'
      BY <1>1, <1>3, <2>1, <2>4, <3>1 DEF SchedInv, Obeyed, Placed
    <3>2. ~pendSV' => \A u \in Tasks : Ready(u)' => uxPriority'[u] <= uxPriority[pxCurrentTCB]'
      BY <1>1, <2>1, <2>3, <2>4, WokenObeyed DEF SchedInv, Placed
    <3> QED
      BY <1>1, <1>3, <3>1, <3>2 DEF Obeyed
  <2> QED
    BY <2>4, <2>5, <2>6, <2>7 DEF SchedInv
<1> QED
  BY <1>2, <1>3

LEMMA EventOrder ==
    ASSUME SchedulerParameters, SchedInv, NEW t \in Tasks, Event(t)
    PROVE  SchedInv'
<1>1. /\ UNCHANGED mutexVars /\ UNCHANGED uxPriority
      /\ UNCHANGED <<suspended, pxCurrentTCB>>
      /\ pc[t] = "asleep" /\ ~Contains(xPendingReadyList, t)
      /\ pendSV' = (pendSV \/ Higher(t))
  BY DEF Event, mutexVars
<1>2. pc \in [Tasks -> Places] /\ uxPriority \in [Tasks -> Nat]
  BY DEF SchedInv, LoanInv, ShareInv, MutexTypes
<1>3. CASE suspended = NoTask
  <2>1. /\ ready' = Added(ready, t, uxPriority[t]) /\ pc' = [pc EXCEPT ![t] = "idle"]
        /\ UNCHANGED xPendingReadyList
    BY <1>3 DEF Event, Go
  <2>2. /\ \A u \in Tasks : pc'[u] = IF u = t THEN "idle" ELSE pc[u]
        /\ pc' \in [Tasks -> Places]
    BY <1>2, <2>1 DEF Places
  <2>3. LoanInv'
    BY <1>1, <2>2, SleepersLoans DEF SchedInv
  <2>4. \A u \in Tasks : Ready(u)' <=> (Ready(u) \/ u = t)
    BY <2>2 DEF Ready
  <2>5. t \notin ReadyTasks /\ ReadyTasks' = ReadyTasks \cup {t}
    BY <1>1, <2>4 DEF ReadyTasks, Ready
  <2>6. Arranged'
    <3>1. PICK prio, r, new, S :
              /\ prio = uxPriority /\ r = ready /\ new = ready'
              /\ S = ReadyTasks /\ S \in SUBSET Tasks
      BY DEF ReadyTasks
    <3>2. ReadyLists(r, prio, S) /\ t \notin S /\ prio[t] \in Priorities
      BY <2>5, <3>1 DEF SchedInv, Arranged, LoanInv, Ranked
    <3>3. ReadyLists(new, prio, S \cup {t})
      BY <2>1, <3>1, <3>2, AddedFacts
    <3> QED
      BY <1>1, <2>5, <3>1, <3>3 DEF Arranged
  <2>7. Placed'
    BY <1>1, <2>2 DEF SchedInv, Placed, SchedulerParameters
  <2>8. Pending'
    BY <1>1, <1>3, <2>1 DEF SchedInv, Pending, Once, TasksIn
  <2>9. Obeyed'
    <3> SUFFICES ASSUME ~pendSV'
                 PROVE  /\ \A u \in Tasks : Ready(u)' => uxPriority[u] <= uxPriority[pxCurrentTCB]
                        /\ Ready(pxCurrentTCB)'
      BY <1>1, <1>3 DEF Obeyed
    <3>1. ~pendSV /\ ~(uxPriority[t] > uxPriority[pxCurrentTCB]) /\ pxCurrentTCB \in Tasks
      BY <1>1 DEF Higher, SchedInv, Placed
    <3>2. uxPriority[t] <= uxPriority[pxCurrentTCB]
      BY <1>2, <3>1
    <3> QED
      BY <1>1, <1>3, <2>4, <3>1, <3>2 DEF SchedInv, Obeyed
  <2> QED
    BY <2>3, <2>6, <2>7, <2>8, <2>9 DEF SchedInv
<1>4. CASE suspended # NoTask
  <2>1. xPendingReadyList' = Append(xPendingReadyList, t) /\ UNCHANGED <<ready, pc>>
    BY <1>4 DEF Event
  <2>2. LoanInv'
    BY <1>1, <1>2, <2>1, SleepersLoans DEF SchedInv
  <2>3. \A u \in Tasks : Ready(u)' <=> Ready(u)
    BY <2>1 DEF Ready
  <2>4. Arranged'
    BY <1>1, <2>1, <2>3, ArrangedKept DEF SchedInv
  <2>5. Placed' /\ Obeyed'
    BY <1>1, <1>4, <2>1, <2>3 DEF SchedInv, Placed, Obeyed
  <2>6. Pending'
    <3>1. /\ (xPendingReadyList \o <<t>>) \in Seq(Tasks) /\ Once(xPendingReadyList \o <<t>>)
          /\ \A u \in TasksIn(xPendingReadyList \o <<t>>) : pc[u] = "asleep"
      <4>1. <<t>> \in Due
        BY <1>1 DEF Due
      <4> QED
        BY <4>1, ResumedFacts DEF SchedInv
    <3>2. xPendingReadyList \o <<t>> = Append(xPendingReadyList, t)
      BY DEF SchedInv, Pending
    <3>3. PICK new : new = Append(xPendingReadyList, t)
      OBVIOUS
    <3>4. new \in Seq(Tasks) /\ Once(new) /\ \A u \in TasksIn(new) : pc[u] = "asleep"
      BY <3>1, <3>2, <3>3
    <3> QED
      BY <1>1, <1>4, <2>1, <3>3, <3>4 DEF Pending
  <2> QED
    BY <2>2, <2>4, <2>5, <2>6 DEF SchedInv
<1> QED
  BY <1>3, <1>4

LEMMA GreatestFacts ==
    ASSUME NEW top \in Nat, NEW Q \in SUBSET Nat, Q # {}, \A q \in Q : q <= top
    PROVE  Max(Q) \in Q /\ \A q \in Q : q <= Max(Q)
<1> DEFINE Below == { n \in Nat : \E q \in Q : n = top - q }
<1>1. Below \in SUBSET Nat /\ Below # {}
  <2>1. PICK q \in Q : q <= top /\ q \in Nat
    OBVIOUS
  <2>2. top - q \in Below
    BY <2>1
  <2> QED
    BY <2>2
<1>2. PICK n \in Below : \A k \in Below : n <= k
  <2> HIDE DEF Below
  <2> QED
    BY <1>1, LeastNatural
<1>3. PICK p \in Q : n = top - p /\ p \in Nat /\ n \in Nat
  OBVIOUS
<1>4. ASSUME NEW q \in Q PROVE p >= q
  <2>1. q \in Nat /\ q <= top
    OBVIOUS
  <2>2. top - q \in Below
    BY <2>1
  <2>3. PICK k \in Nat : k = top - q /\ k \in Below
    BY <2>1, <2>2
  <2>4. n <= k
    BY <1>2, <2>3
  <2> QED
    BY <1>3, <2>1, <2>3, <2>4
<1>5. Max(Q) \in Q /\ \A q \in Q : Max(Q) >= q
  BY <1>4 DEF Max
<1>6. PICK greatest \in Nat : greatest = Max(Q)
  BY <1>5
<1> QED
  BY <1>5, <1>6

\* taskSELECT_HIGHEST_PRIORITY_TASK: the list that is found, and who is next in it.
LEMMA SelectFacts ==
    ASSUME SchedulerParameters, LoanInv, Arranged, Placed, Select
    PROVE  /\ ReadyLists(ready', uxPriority, ReadyTasks)
           /\ pxCurrentTCB' \in ReadyTasks
           /\ \A u \in ReadyTasks : uxPriority[u] <= uxPriority[pxCurrentTCB']
           /\ \A u \in Tasks : pxCurrentTCB' \notin ready.passed[u]
<1>1. PICK prio, r, new, S, t :
          /\ prio = uxPriority /\ r = ready /\ new = ready' /\ S = ReadyTasks
          /\ t = pxCurrentTCB'
  OBVIOUS
<1>2. /\ S \in SUBSET Tasks /\ ReadyLists(r, prio, S) /\ IdleTask \in S
      /\ \A u \in Tasks : prio[u] \in Priorities
  BY <1>1 DEF ReadyTasks, Arranged, LoanInv, Ranked, SchedulerParameters, Placed, Ready
<1>3. Priorities \in SUBSET Nat
  BY TasksAssumption DEF Priorities
<1>4. /\ r \in [lists : [Priorities -> Rings], top : Nat, passed : [Tasks -> SUBSET Tasks]]
      /\ r.lists \in [Priorities -> Rings] /\ r.top \in Nat /\ r.passed \in [Tasks -> SUBSET Tasks]
  BY <1>2 DEF ReadyLists
<1>5. PICK Q \in SUBSET Nat : Q = { q \in Priorities : q <= r.top /\ r.lists[q].items # <<>> }
  BY <1>3
<1>6. ASSUME NEW u \in S PROVE prio[u] \in Q
  <2>1. TasksIn(r.lists[prio[u]].items) = { v \in S : prio[v] = prio[u] }
    BY <1>2 DEF ReadyLists
  <2>2. u \in TasksIn(r.lists[prio[u]].items)
    BY <2>1
  <2>3. r.lists[prio[u]].items # <<>>
    BY <2>2 DEF TasksIn
  <2>4. prio[u] <= r.top
    BY <1>2, <2>3 DEF ReadyLists
  <2> QED
    BY <1>2, <1>5, <2>3, <2>4
<1>7. PICK p \in Q : p = Max(Q) /\ \A q \in Q : q <= p
  <2>1. Q # {} /\ \A q \in Q : q <= r.top
    BY <1>2, <1>5, <1>6
  <2> QED
    BY <1>4, <2>1, GreatestFacts
<1>8. p \in Priorities /\ p \in Nat
  BY <1>5
<1>9. PICK l : l = r.lists[p] /\ l \in Rings /\ WellMade(l) /\ l.items # <<>>
  BY <1>2, <1>4, <1>5, <1>8 DEF ReadyLists
<1>10. PICK list : list = NextEntry(l)
  OBVIOUS
<1>11. PICK passed : passed = [u \in Tasks |->
                        IF u = t THEN {}
                        ELSE IF Contains(list.items, u) THEN r.passed[u] \cup {t}
                        ELSE r.passed[u]]
  OBVIOUS
<1>12. /\ t = l.items[list.index]
       /\ new = [lists |-> [r.lists EXCEPT ![p] = list], top |-> p, passed |-> passed]
  <2>1. list.items = l.items
    BY <1>9, <1>10, NextEntryFacts
  <2>2. t = list.items[list.index]
    BY <1>1, <1>5, <1>7, <1>9, <1>10 DEF Select
  <2>3. new = [lists |-> [r.lists EXCEPT ![p] = list], top |-> p, passed |-> passed]
    BY <1>1, <1>5, <1>7, <1>9, <1>10, <1>11, <2>2 DEF Select
  <2> QED
    BY <2>1, <2>2, <2>3
<1>13. /\ list \in Rings /\ WellMade(list) /\ list.items = l.items
       /\ t \in TasksIn(l.items)
       /\ \A x : ~Before(l, x, t)
       /\ \A x, y : Before(l, x, y) /\ x # t => Before(list, x, y)
       /\ \A x \in TasksIn(l.items) : x # t => Before(list, x, t)
  BY <1>9, <1>10, <1>12, NextEntryFacts
<1>14. TasksIn(l.items) = { u \in S : prio[u] = p }
  BY <1>2, <1>8, <1>9 DEF ReadyLists
<1>15. t \in S /\ prio[t] = p /\ t \in Tasks
  BY <1>2, <1>13, <1>14
<1>16. passed \in [Tasks -> SUBSET Tasks]
  BY <1>4, <1>11, <1>15
<1>17. /\ new.lists = [r.lists EXCEPT ![p] = list] /\ new.top = p /\ new.passed = passed
       /\ new \in [lists : [Priorities -> Rings], top : Nat, passed : [Tasks -> SUBSET Tasks]]
  BY <1>4, <1>8, <1>12, <1>13, <1>16
<1>18. new.lists[p] = list /\ \A q \in Priorities : q # p => new.lists[q] = r.lists[q]
  BY <1>4, <1>8, <1>17
<1>19. ASSUME NEW q \in Priorities
       PROVE  /\ WellMade(new.lists[q])
              /\ TasksIn(new.lists[q].items) = { u \in S : prio[u] = q }
              /\ new.lists[q].items # <<>> => q <= new.top
  <2>1. /\ WellMade(r.lists[q]) /\ TasksIn(r.lists[q].items) = { u \in S : prio[u] = q }
        /\ r.lists[q].items # <<>> => q <= r.top
    BY <1>2 DEF ReadyLists
  <2>2. r.lists[q].items # <<>> => q <= p
    BY <1>5, <1>7, <2>1
  <2>3. CASE q = p
    BY <1>8, <1>13, <1>14, <1>17, <1>18, <2>3
  <2>4. CASE q # p
    BY <1>17, <1>18, <2>1, <2>2, <2>4
  <2> QED
    BY <2>3, <2>4
<1>20. ASSUME NEW u \in Tasks, NEW v \in new.passed[u]
       PROVE  \E q \in Priorities : Before(new.lists[q], u, v)
  <2>1. u # t
    BY <1>11, <1>17, <1>20
  <2>2. CASE v \in r.passed[u]
    <3>1. v \in Tasks
      BY <1>4, <2>2
    <3>2. PICK q \in Priorities : Before(r.lists[q], u, v)
      BY <1>2, <2>2, <3>1 DEF ReadyLists
    <3>3. Before(new.lists[q], u, v)
      BY <1>9, <1>13, <1>18, <2>1, <3>2
    <3> QED
      BY <3>3
  <2>3. CASE v \notin r.passed[u]
    <3>1. v = t /\ Contains(list.items, u)
      BY <1>11, <1>17, <1>20, <2>1, <2>3
    <3>2. u \in TasksIn(l.items)
      BY <1>13, <3>1 DEF Contains, TasksIn
    <3>3. Before(list, u, t)
      BY <1>13, <2>1, <3>2
    <3> QED
      BY <1>8, <1>18, <3>1, <3>3
  <2> QED
    BY <2>2, <2>3
<1>21. ReadyLists(new, prio, S)
  BY <1>17, <1>19, <1>20 DEF ReadyLists
<1>22. \A u \in S : prio[u] <= prio[t]
  BY <1>6, <1>7, <1>15
<1>23. ASSUME NEW u \in Tasks, t \in r.passed[u] PROVE FALSE
  <2>1. PICK q \in Priorities : Before(r.lists[q], u, t)
    BY <1>2, <1>15, <1>23 DEF ReadyLists
  <2>2. t \in TasksIn(r.lists[q].items)
    BY <2>1, BothListed
  <2>3. q = p
    BY <1>2, <1>15, <2>2 DEF ReadyLists
  <2> QED
    BY <1>9, <1>13, <2>1, <2>3
<1> QED
  BY <1>1, <1>15, <1>21, <1>22, <1>23

LEMMA SwitchOrder ==
    ASSUME SchedulerParameters, SchedInv, SwitchContext
    PROVE  SchedInv'
<1>1. /\ UNCHANGED mutexVars /\ UNCHANGED uxPriority
      /\ UNCHANGED <<suspended, xPendingReadyList, pc>>
  BY DEF SwitchContext, mutexVars
<1>2. pc \in [Tasks -> Places] /\ \A u \in Tasks : Ready(u)' <=> Ready(u)
  BY <1>1 DEF SchedInv, LoanInv, ShareInv, MutexTypes, Ready
<1>3. LoanInv'
  BY <1>1, <1>2, SleepersLoans DEF SchedInv
<1>4. Pending'
  BY <1>1 DEF SchedInv, Pending, Once, TasksIn
<1>5. CASE suspended # NoTask
  <2>1. UNCHANGED <<ready, pxCurrentTCB>>
    BY <1>5 DEF SwitchContext
  <2>2. Arranged'
    BY <1>1, <1>2, <2>1, ArrangedKept DEF SchedInv
  <2>3. Placed' /\ Obeyed'
    BY <1>1, <1>2, <1>5, <2>1 DEF SchedInv, Placed, Obeyed
  <2> QED
    BY <1>3, <1>4, <2>2, <2>3 DEF SchedInv
<1>6. CASE suspended = NoTask
  <2>1. /\ ReadyLists(ready', uxPriority, ReadyTasks)
        /\ pxCurrentTCB' \in ReadyTasks
        /\ \A u \in ReadyTasks : uxPriority[u] <= uxPriority[pxCurrentTCB']
    BY <1>6, SelectFacts DEF SwitchContext, SchedInv
  <2>2. ReadyTasks' = ReadyTasks
    BY <1>2 DEF ReadyTasks
  <2>3. Arranged'
    BY <1>1, <2>1, <2>2 DEF Arranged
  <2>4. Placed'
    BY <1>1, <1>6, <2>1 DEF SchedInv, Placed, ReadyTasks
  <2>5. Obeyed'
    BY <1>1, <1>2, <2>1 DEF Obeyed, ReadyTasks
  <2> QED
    BY <1>3, <1>4, <2>3, <2>4, <2>5 DEF SchedInv
<1> QED
  BY <1>5, <1>6

\* vTaskStartScheduler: every task is ready, and a first one of the highest priority runs.
LEMMA SchedInitially ==
    ASSUME SchedulerParameters, SchedulerInit
    PROVE  SchedInv
<1>1. /\ suspended = NoTask /\ xPendingReadyList = <<>> /\ pc = [t \in Tasks |-> "idle"]
      /\ MutexStart /\ uxPriority = Priority
      /\ ready = AllAdded(NothingReady, Created, Priority)
      /\ pxCurrentTCB = Last(ready.lists[ready.top].items)
  BY DEF SchedulerInit, MutexStart, SwitchStart, ReadyStart
<1>2. ShareInv
  BY <1>1, ShareInitially DEF Idle
<1>3. Ranked /\ Borrowed
  BY <1>1 DEF Ranked, Borrowed, Priorities
<1>4. ReadyTasks = Tasks
  BY <1>1 DEF ReadyTasks, Ready
<1>5. ReadyLists(NothingReady, Priority, {})
  <2>1. PICK none : none = [items |-> <<>>, index |-> 0]
    OBVIOUS
  <2>2. none \in Rings /\ WellMade(none) /\ none.items = <<>> /\ TasksIn(none.items) = {}
    BY <2>1 DEF Rings, WellMade, Once, TasksIn
  <2>3. /\ \A p \in Priorities : NothingReady.lists[p] = none
        /\ \A t \in Tasks : NothingReady.passed[t] = {}
    BY <2>1 DEF NothingReady
  <2>4. NothingReady \in [lists : [Priorities -> Rings], top : Nat, passed : [Tasks -> SUBSET Tasks]]
    BY <2>1, <2>2 DEF NothingReady
  <2> QED
    BY <2>2, <2>3, <2>4 DEF ReadyLists
<1>6. PICK r : r = ready
  OBVIOUS
<1>7. /\ ReadyLists(r, Priority, Tasks) /\ TopFilled(r)
  <2>1. PICK empty, none, tasks, prio :
            empty = NothingReady /\ none = {} /\ tasks = Created /\ prio = Priority
    OBVIOUS
  <2>2. /\ tasks \in Seq(Tasks) /\ Once(tasks) /\ TasksIn(tasks) = Tasks
        /\ tasks # <<>> /\ empty.top = 0
    BY <2>1 DEF SchedulerParameters, Once, TasksIn, NothingReady
  <2>3. none \in SUBSET Tasks /\ TasksIn(tasks) \cap none = {} /\ none \cup TasksIn(tasks) = Tasks
    BY <2>1, <2>2
  <2>4. \A t \in TasksIn(tasks) : prio[t] = prio[t] /\ prio[t] \in Priorities
    BY <2>1, <2>2 DEF Priorities
  <2>5. r = AllAdded(empty, tasks, prio) /\ ReadyLists(empty, prio, none)
    BY <1>1, <1>5, <1>6, <2>1
  <2>6. /\ ReadyLists(r, prio, none \cup TasksIn(tasks))
        /\ FillsTop(empty, tasks, r)
    BY <2>2, <2>3, <2>4, <2>5, AllAddedFacts
  <2> QED
    BY <2>1, <2>2, <2>3, <2>6 DEF FillsTop
<1>8. Arranged
  BY <1>1, <1>4, <1>6, <1>7 DEF Arranged
<1>9. PICK list \in Seq(Tasks) : list = r.lists[r.top].items /\ list # <<>> /\ r.top \in Priorities
  BY <1>7 DEF ReadyLists, TopFilled, Rings
<1>10. PICK n \in Nat : n = Len(list) /\ n \in 1..Len(list)
  BY <1>9
<1>11. pxCurrentTCB = list[n]
  BY <1>1, <1>6, <1>9, <1>10 DEF Last
<1>12. pxCurrentTCB \in TasksIn(list) /\ pxCurrentTCB \in Tasks
  BY <1>10, <1>11 DEF TasksIn
<1>13. Priority[pxCurrentTCB] = r.top
  BY <1>7, <1>9, <1>12 DEF ReadyLists
<1>14. ASSUME NEW t \in Tasks PROVE Priority[t] <= r.top
  <2>1. Priority[t] \in Priorities
    BY DEF Priorities
  <2>2. t \in TasksIn(r.lists[Priority[t]].items)
    BY <1>7, <2>1 DEF ReadyLists
  <2>3. r.lists[Priority[t]].items # <<>>
    BY <2>2 DEF TasksIn
  <2> QED
    BY <1>7, <2>1, <2>3 DEF ReadyLists
<1>15. Placed
  BY <1>1, <1>12 DEF Placed, SchedulerParameters
<1>16. Pending
  BY <1>1 DEF Pending, Once, TasksIn
<1>17. Obeyed
  BY <1>1, <1>12, <1>13, <1>14 DEF Obeyed, Ready
<1> QED
  BY <1>2, <1>3, <1>8, <1>15, <1>16, <1>17 DEF SchedInv, LoanInv

LEMMA SchedStep ==
    ASSUME OuterUncontended, SchedulerParameters, SchedInv, [SchedulerNext]_schedulerVars
    PROVE  SchedInv'
<1>1. CASE UNCHANGED schedulerVars
  <2>1. /\ UNCHANGED <<suspended, xPendingReadyList, pc, ready, pxCurrentTCB, pendSV>>
        /\ UNCHANGED mutexVars /\ UNCHANGED uxPriority
    BY <1>1 DEF schedulerVars, switchVars, mutexVars
  <2>2. LoanInv'
    BY <2>1, SleepersLoans DEF SchedInv, LoanInv, ShareInv, MutexTypes
  <2>3. \A u \in Tasks : Ready(u)' <=> Ready(u)
    BY <2>1 DEF Ready
  <2>4. Arranged'
    BY <2>1, <2>3, ArrangedKept DEF SchedInv
  <2>5. Placed' /\ Pending' /\ Obeyed'
    BY <2>1, <2>3 DEF SchedInv, Placed, Pending, Obeyed, TasksIn
  <2> QED
    BY <2>2, <2>4, <2>5 DEF SchedInv
<1>2. CASE SchedulerNext
  <2>1. CASE TickInterrupt
    BY <2>1, TickOrder
  <2>2. CASE SwitchContext
    BY <2>2, SwitchOrder
  <2>3. ASSUME NEW t \in Tasks,
               \/ UseMutex(t) \/ GiveMutex(t) \/ SuspendToBlock(t)
               \/ WaitForMutex(t) \/ FallAsleep(t) \/ ResumeAfter(t) \/ Event(t)
        PROVE  SchedInv'
    BY <2>3, UseMutexOrder, GiveOrder, SuspendOrder, WaitOrder, FallAsleepOrder,
       ResumeOrder, EventOrder
  <2> QED
    BY <1>2, <2>1, <2>2, <2>3 DEF SchedulerNext
<1> QED
  BY <1>1, <1>2

\* The ready lists, the pending tasks and the loans are in order whatever interrupts,
\* ticks, resumptions and changes of priority come together (tasks.c, list.c).
THEOREM SchedulerInOrder ==
    ASSUME OuterUncontended, SchedulerParameters
    PROVE  SchedulerSpec => []SchedInv
<1>1. SchedulerInit => SchedInv
  BY SchedInitially
<1>2. SchedInv /\ [SchedulerNext]_schedulerVars => SchedInv'
  BY SchedStep
<1> QED
  BY <1>1, <1>2, PTL DEF SchedulerSpec

\* No ready task of a higher priority than the running one is left without a switch
\* of context being due (vTaskSwitchContext, xTaskResumeAll, xQueueGenericSend).
THEOREM TheHighestRuns ==
    ASSUME OuterUncontended, SchedulerParameters
    PROVE  SchedulerSpec => []HighestRuns
<1>1. ASSUME SchedInv PROVE HighestRuns
  <2> SUFFICES ASSUME suspended = NoTask, ~pendSV
               PROVE  Ready(pxCurrentTCB) /\ \A t \in Tasks : Ready(t) => ~Higher(t)
    BY DEF HighestRuns
  <2>1. /\ Ready(pxCurrentTCB) /\ pxCurrentTCB \in Tasks
        /\ \A t \in Tasks : Ready(t) => uxPriority[t] <= uxPriority[pxCurrentTCB]
    BY <1>1 DEF SchedInv, Obeyed, Placed
  <2>2. \A t \in Tasks : uxPriority[t] \in Nat
    BY <1>1 DEF SchedInv, LoanInv, ShareInv, MutexTypes
  <2> QED
    BY <2>1, <2>2 DEF Higher
<1> QED
  BY <1>1, SchedulerInOrder, PTL

\* No priority inversion under the scheduler itself, where a step belongs to the task
\* that runs and not by assumption to one of the highest priority.
THEOREM NoInversionUnderScheduler ==
    ASSUME OuterUncontended, SchedulerParameters
    PROVE  SchedulerSpec => []HolderInherits
<1>1. ASSUME SchedInv PROVE HolderInherits
  BY <1>1, SharedHolders DEF SchedInv, LoanInv
<1> QED
  BY <1>1, SchedulerInOrder, PTL

\* Ready tasks of one priority take turns (listGET_OWNER_OF_NEXT_ENTRY): the cursor
\* reaches nobody whom it passed after a task that is still in the list.
THEOREM PeersAlternate ==
    ASSUME OuterUncontended, SchedulerParameters
    PROVE  SchedulerSpec => PeersTakeTurns
<1> DEFINE Turn == pendSV /\ ~pendSV' /\ suspended = NoTask =>
               \A t \in Tasks \ {pxCurrentTCB'} : pxCurrentTCB' \notin ready.passed[t]
<1>1. ASSUME SchedInv, SchedulerNext PROVE Turn
  <2> SUFFICES ASSUME pendSV, ~pendSV', suspended = NoTask
               PROVE  \A t \in Tasks : pxCurrentTCB' \notin ready.passed[t]
    OBVIOUS
  <2>1. SwitchContext
    <3>1. ~TickInterrupt
      BY DEF TickInterrupt
    <3>2. ASSUME NEW t \in Tasks
          PROVE  /\ ~UseMutex(t) /\ ~GiveMutex(t) /\ ~SuspendToBlock(t) /\ ~WaitForMutex(t)
                 /\ ~FallAsleep(t) /\ ~ResumeAfter(t) /\ ~Event(t)
      BY DEF UseMutex, GiveMutex, SuspendToBlock, WaitForMutex, FallAsleep, ResumeAfter,
         Event, Unsuspended, Current
    <3> QED
      BY <1>1, <3>1, <3>2 DEF SchedulerNext
  <2> QED
    BY <1>1, <2>1, SelectFacts DEF SwitchContext, SchedInv
<1>2. ASSUME UNCHANGED schedulerVars PROVE Turn
  BY <1>2 DEF schedulerVars, switchVars
<1>3. SchedInv /\ [SchedulerNext]_schedulerVars => [Turn]_schedulerVars
  BY <1>1, <1>2
<1> QED
  BY <1>3, SchedulerInOrder, PTL DEF SchedulerSpec, PeersTakeTurns
===============================================================================
