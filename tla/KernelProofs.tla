----------------------------- MODULE KernelProofs -----------------------------
(***************************************************************************)
(* Proofs about the kernel: heap_4.c, for every size of the heap,          *)
(* alignment and size of headers, and every sequence of requests; its      *)
(* event groups, for any calls of any tasks; the locks the SDK makes of    *)
(* them; and its stream and message buffers, for every size of ring,       *)
(* message and read.                                                       *)
(***************************************************************************)
EXTENDS Heap, PicoSync, StreamBuffer, SequenceTheorems, FiniteSetTheorems, TLAPS

-------------------------------------------------------------------------------
\* What is true of the sizes S of the blocks and the list L of the free ones.

Nodes(L) == DOMAIN L \ {xStart}

Sizes(S) ==
    \A b \in DOMAIN S : /\ b \in Nat /\ S[b] \in Nat \ {0}
                        /\ pxFirst <= b /\ b + S[b] <= pxEnd

Tiles(S) ==
    /\ pxFirst \in DOMAIN S
    /\ \A b \in DOMAIN S : b + S[b] \in DOMAIN S \cup {pxEnd}
    /\ \A b, c \in DOMAIN S : b < c => b + S[b] <= c

Ordered(L) ==
    \A p \in DOMAIN L : /\ p < L[p] /\ L[p] \in Nodes(L) \cup {pxEnd}
                        /\ \A f \in Nodes(L) : f <= p \/ L[p] <= f

Covers(L) == \A x \in pxFirst..pxEnd : \E p \in DOMAIN L : Precedes(L, p, x)

Apart2(S, L) == \A f \in Nodes(L) : f + S[f] \notin Nodes(L)

\* The state while the block is neither in the list nor allocated.
Loose(S, L, A, block) ==
    /\ Sizes(S) /\ Tiles(S) /\ Ordered(L) /\ Covers(L) /\ Apart2(S, L)
    /\ xStart \in DOMAIN L
    /\ DOMAIN S = Nodes(L) \cup A \cup {block}
    /\ block \notin A /\ block \notin DOMAIN L /\ A \cap Nodes(L) = {}

Sound(S, L, A) ==
    /\ Sizes(S) /\ Tiles(S) /\ Ordered(L) /\ Covers(L) /\ Apart2(S, L)
    /\ xStart \in DOMAIN L
    /\ DOMAIN S = Nodes(L) \cup A /\ A \cap Nodes(L) = {}

-------------------------------------------------------------------------------
\* prvInsertBlockIntoFreeList makes one block of those that touch, and keeps the
\* order of the list.
LEMMA InsertionSound ==
    ASSUME NEW S, NEW L, NEW A, NEW block, NEW before,
           Loose(S, L, A, block), Precedes(L, before, block)
    PROVE  /\ Sound(Insertion(S, L, before, block).sizes,
                    Insertion(S, L, before, block).list, A)
           /\ \A b \in A : Insertion(S, L, before, block).sizes[b] = S[b]
<1> DEFINE after == L[before]
           joinsBefore == before # xStart /\ before + S[before] = block
           joinsAfter == block + S[block] = after /\ after # pxEnd
           whole == IF joinsBefore THEN before ELSE block
           gone == (IF joinsBefore THEN {block} ELSE {}) \cup
                   (IF joinsAfter THEN {after} ELSE {})
           length == S[block] + (IF joinsBefore THEN S[before] ELSE 0)
                              + (IF joinsAfter THEN S[after] ELSE 0)
           S2 == Insertion(S, L, before, block).sizes
           L2 == Insertion(S, L, before, block).list
<1>1. /\ DOMAIN S2 = DOMAIN S \ gone
      /\ \A b \in DOMAIN S \ gone : S2[b] = IF b = whole THEN length ELSE S[b]
  BY DEF Insertion
<1>2. /\ DOMAIN L2 = (DOMAIN L \cup {block}) \ gone
      /\ \A b \in DOMAIN L2 : L2[b] = IF b = whole THEN IF joinsAfter THEN L[after] ELSE after
                                      ELSE IF b = before THEN block ELSE L[b]
  BY DEF Insertion
<1> HIDE DEF S2, L2
<1>n. /\ block \in DOMAIN S /\ block \in Nat /\ S[block] \in Nat \ {0}
      /\ pxEnd \in Nat /\ pxFirst \in Nat /\ xStart \in Int /\ xStart < 0
      /\ xStart \in DOMAIN L /\ before \in DOMAIN L /\ before < block /\ block <= after
      /\ block \notin DOMAIN L /\ block # after /\ block # before
      /\ pxFirst <= block /\ block + S[block] <= pxEnd
  BY RoomAssumption DEF Loose, Sizes, Precedes, xStart, Ordered, Nodes
\* The numbers of the blocks and of the list.
<1>s. \A b \in DOMAIN S : /\ b \in Nat /\ S[b] \in Nat \ {0} /\ b # xStart
                         /\ pxFirst <= b /\ b + S[b] <= pxEnd
                         /\ b + S[b] \in DOMAIN S \cup {pxEnd}
  BY <1>n DEF Loose, Sizes, Tiles
<1>t. \A b, c \in DOMAIN S : b < c => b + S[b] <= c
  BY DEF Loose, Tiles
<1>l. \A p \in DOMAIN L : /\ p < L[p] /\ L[p] \in DOMAIN S \cup {pxEnd}
                         /\ (p = xStart \/ p \in DOMAIN S)
                         /\ (L[p] # pxEnd => L[p] \in DOMAIN L /\ L[p] # xStart)
                         /\ (\A f \in DOMAIN L : f = xStart \/ f <= p \/ L[p] <= f)
  BY DEF Loose, Ordered, Nodes
<1>i. \A p \in DOMAIN L : p \in Int /\ L[p] \in Nat /\ (p # xStart => p \in Nat)
  <2> TAKE p \in DOMAIN L
  <2>1. p = xStart \/ p \in DOMAIN S
    BY <1>l
  <2>2. L[p] \in DOMAIN S \cup {pxEnd}
    BY <1>l
  <2>3. \A b \in DOMAIN S : b \in Nat
    BY <1>s
  <2>4. xStart \in Int /\ pxEnd \in Nat
    BY <1>n
  <2> QED
    BY <2>1, <2>2, <2>3, <2>4
\* Every other block of the list is before both or behind both.
<1>o. \A p \in DOMAIN L : p = before \/ L[p] <= before \/ after <= p
  <2> TAKE p \in DOMAIN L
  <2>1. CASE before = xStart
    BY <1>n, <1>i, <1>l, <2>1
  <2>2. CASE before # xStart /\ p = xStart
    BY <1>n, <1>i, <1>l, <2>2
  <2>3. CASE before # xStart /\ p # xStart
    BY <1>n, <1>i, <1>l, <2>3
  <2> QED
    BY <2>1, <2>2, <2>3
<1>d. /\ DOMAIN S = (DOMAIN L \ {xStart}) \cup A \cup {block}
      /\ block \notin A /\ A \cap (DOMAIN L \ {xStart}) = {}
  BY DEF Loose, Nodes
<1>a. \A f, g \in DOMAIN L : f # xStart /\ g # xStart => f + S[f] # g
  BY DEF Loose, Apart2, Nodes
<1>c. \A x \in pxFirst..pxEnd : \E p \in DOMAIN L : p < x /\ x <= L[p]
  BY DEF Loose, Covers, Precedes
<1>f. pxFirst \in DOMAIN S
  BY DEF Loose, Tiles
<1>1c. CASE ~joinsBefore /\ ~joinsAfter
  <2>1. /\ DOMAIN S2 = DOMAIN S /\ \A b \in DOMAIN S : S2[b] = S[b]
        /\ DOMAIN L2 = DOMAIN L \cup {block}
        /\ L2[block] = after /\ L2[before] = block
        /\ \A b \in DOMAIN L : b # before => L2[b] = L[b]
        /\ before # xStart => before + S[before] # block
        /\ after # pxEnd => block + S[block] # after
    BY <1>1, <1>2, <1>n, <1>s, <1>l, <1>d, <1>1c
  <2>2. Sizes(S2)
    BY <1>n, <1>s, <1>t, <1>l, <2>1 DEF Sizes
  <2>3. Tiles(S2)
    <3>1. pxFirst \in DOMAIN S2
      BY <1>n, <1>s, <1>t, <1>f, <1>l, <2>1
    <3>2. \A b \in DOMAIN S2 : b + S2[b] \in DOMAIN S2 \cup {pxEnd}
      BY <1>n, <1>s, <1>t, <1>l, <2>1
    <3>3. \A b, c \in DOMAIN S2 : b < c => b + S2[b] <= c
      BY <1>n, <1>s, <1>t, <1>l, <2>1
    <3> QED
      BY <3>1, <3>2, <3>3 DEF Tiles
  <2>4. Ordered(L2)
    <3> SUFFICES ASSUME NEW p \in DOMAIN L2
                 PROVE  /\ p < L2[p] /\ L2[p] \in Nodes(L2) \cup {pxEnd}
                        /\ \A f \in Nodes(L2) : f <= p \/ L2[p] <= f
      BY DEF Ordered
    <3>1. p < L2[p]
      BY <1>n, <1>i, <1>l, <2>1
    <3>2. L2[p] \in Nodes(L2) \cup {pxEnd}
      BY <1>n, <1>i, <1>s, <1>l, <1>o, <2>1 DEF Nodes
    <3>3. \A f \in Nodes(L2) : f <= p \/ L2[p] <= f
      BY <1>n, <1>i, <1>l, <1>o, <2>1 DEF Nodes
    <3> QED
      BY <3>1, <3>2, <3>3
  <2>5. Covers(L2)
    <3> SUFFICES ASSUME NEW x \in pxFirst..pxEnd
                 PROVE  \E p \in DOMAIN L2 : p < x /\ x <= L2[p]
      BY DEF Covers, Precedes
    <3>1. PICK p \in DOMAIN L : p < x /\ x <= L[p]
      BY <1>c
    <3> QED
      BY <1>n, <1>i, <1>l, <2>1, <3>1
  <2>6. Apart2(S2, L2)
    <3> SUFFICES ASSUME NEW f \in DOMAIN L2, NEW g \in DOMAIN L2,
                        f # xStart, g # xStart
                 PROVE  f + S2[f] # g
      BY DEF Apart2, Nodes
    <3> QED
      <4>1. CASE f # block /\ g # block
        BY <1>a, <1>l, <2>1, <4>1
      <4>2. CASE f # block /\ g = block
        <5>1. f \in DOMAIN L /\ f \in DOMAIN S /\ f # xStart /\ S2[f] = S[f]
          BY <1>l, <2>1, <4>2
        <5>2. f = before \/ L[f] <= before \/ after <= f
          BY <1>o, <5>1
        <5>3. f < L[f] /\ L[f] \in Nat /\ f \in Nat
          BY <1>i, <1>l, <5>1
        <5>4. CASE f = before
          BY <2>1, <4>2, <5>1, <5>4
        <5>5. CASE f # before /\ L[f] <= before
          <6>1. before # xStart /\ before \in DOMAIN S /\ f < before
            BY <1>n, <1>i, <1>l, <5>1, <5>3, <5>5
          <6>2. f + S[f] <= before
            BY <1>t, <5>1, <6>1
          <6> QED
            BY <1>n, <1>i, <1>s, <4>2, <5>1, <5>3, <6>2
        <5>6. CASE after <= f
          BY <1>n, <1>i, <1>s, <4>2, <5>1, <5>3, <5>6
        <5> QED
          BY <5>2, <5>4, <5>5, <5>6
      <4>3. CASE f = block
        <5>1. S2[f] = S[block]
          BY <1>n, <2>1, <4>3
        <5>2. CASE g = block
          BY <1>n, <4>3, <5>1, <5>2
        <5>3. CASE g # block
          <6>1. g \in DOMAIN L /\ g \in DOMAIN S /\ g \in Nat
            BY <1>i, <1>l, <2>1, <5>3
          <6>2. g = before \/ g < before \/ after <= g
            BY <1>n, <1>i, <1>l, <1>o, <6>1
          <6>3. after <= g => after # pxEnd
            BY <1>n, <1>s, <6>1
          <6>4. after <= g /\ g # after => block + S[block] <= after
            BY <1>n, <1>i, <1>l, <1>t, <6>1, <6>3
          <6> QED
            BY <1>n, <1>i, <2>1, <4>3, <5>1, <6>1, <6>2, <6>3, <6>4
        <5> QED
          BY <5>2, <5>3
      <4> QED
        BY <4>1, <4>2, <4>3
  <2>7. /\ xStart \in DOMAIN L2
        /\ DOMAIN S2 = Nodes(L2) \cup A /\ A \cap Nodes(L2) = {}
    BY <1>n, <1>s, <1>l, <1>d, <2>1 DEF Nodes
  <2>8. \A b \in A : S2[b] = S[b]
    <3> TAKE b \in A
    <3>1. b # block /\ b # before /\ (after # pxEnd => b # after)
      BY <1>n, <1>s, <1>l, <1>d
    <3>2. b \in DOMAIN S
      BY <1>d
    <3> QED
      BY <1>s, <1>l, <2>1, <3>1, <3>2
  <2> QED
    BY <2>2, <2>3, <2>4, <2>5, <2>6, <2>7, <2>8 DEF Sound, S2, L2
<1>2c. CASE joinsBefore /\ ~joinsAfter
  <2>1. /\ DOMAIN S2 = DOMAIN S \ {block}
        /\ S2[before] = S[block] + S[before] /\ before \in DOMAIN S
        /\ \A b \in DOMAIN S : b # before /\ b # block => S2[b] = S[b]
        /\ DOMAIN L2 = DOMAIN L /\ \A b \in DOMAIN L : L2[b] = L[b]
        /\ before # xStart /\ before + S[before] = block
        /\ after # pxEnd => block + S[block] # after
    BY <1>1, <1>2, <1>n, <1>s, <1>l, <1>d, <1>2c
  <2>2. Sizes(S2)
    BY <1>n, <1>s, <1>t, <1>l, <2>1 DEF Sizes
  <2>3. Tiles(S2)
    <3>1. pxFirst \in DOMAIN S2
      BY <1>n, <1>s, <1>t, <1>f, <1>l, <2>1
    <3>2. \A b \in DOMAIN S2 : b + S2[b] \in DOMAIN S2 \cup {pxEnd}
      BY <1>n, <1>s, <1>t, <1>l, <2>1, SMTT(60)
    <3>3. \A b, c \in DOMAIN S2 : b < c => b + S2[b] <= c
      BY <1>n, <1>s, <1>t, <1>l, <2>1, SMTT(60)
    <3> QED
      BY <3>1, <3>2, <3>3 DEF Tiles
  <2>4. Ordered(L2)
    <3> SUFFICES ASSUME NEW p \in DOMAIN L2
                 PROVE  /\ p < L2[p] /\ L2[p] \in Nodes(L2) \cup {pxEnd}
                        /\ \A f \in Nodes(L2) : f <= p \/ L2[p] <= f
      BY DEF Ordered
    <3>1. p < L2[p]
      BY <1>n, <1>i, <1>l, <2>1
    <3>2. L2[p] \in Nodes(L2) \cup {pxEnd}
      BY <1>n, <1>i, <1>s, <1>l, <1>o, <2>1 DEF Nodes
    <3>3. \A f \in Nodes(L2) : f <= p \/ L2[p] <= f
      BY <1>n, <1>i, <1>l, <1>o, <2>1 DEF Nodes
    <3> QED
      BY <3>1, <3>2, <3>3
  <2>5. Covers(L2)
    <3> SUFFICES ASSUME NEW x \in pxFirst..pxEnd
                 PROVE  \E p \in DOMAIN L2 : p < x /\ x <= L2[p]
      BY DEF Covers, Precedes
    <3>1. PICK p \in DOMAIN L : p < x /\ x <= L[p]
      BY <1>c
    <3> QED
      BY <1>n, <1>i, <1>l, <2>1, <3>1
  <2>6. Apart2(S2, L2)
    <3> SUFFICES ASSUME NEW f \in DOMAIN L2, NEW g \in DOMAIN L2,
                        f # xStart, g # xStart
                 PROVE  f + S2[f] # g
      BY DEF Apart2, Nodes
    <3>0. f \in DOMAIN S /\ g \in DOMAIN S /\ f # block /\ g # block
      BY <1>l, <1>n, <2>1
    <3>1. CASE f # before
      BY <1>a, <2>1, <3>0, <3>1
    <3>2. CASE f = before
      <4>1. f + S2[f] = block + S[block]
        BY <1>n, <1>s, <2>1, <3>0, <3>2
      <4>2. CASE g < block
        BY <1>n, <1>s, <3>0, <4>1, <4>2
      <4>3. CASE block < g /\ g # after
        <5>1. after <= g /\ after # pxEnd /\ after \in DOMAIN S
          <6>1. g \in DOMAIN L /\ g \in Nat /\ L[g] \in Nat /\ g < L[g] /\ g < pxEnd
            BY <1>n, <1>s, <1>l, <1>i, <2>1, <3>0
          <6>2. after <= g
            BY <1>n, <1>o, <1>i, <4>3, <6>1
          <6>3. after \in DOMAIN S \cup {pxEnd} /\ after \in Nat
            BY <1>n, <1>l, <1>i
          <6> QED
            BY <1>n, <6>1, <6>2, <6>3
        <5>2. block < after /\ after < g /\ block + S[block] <= after
          BY <1>n, <1>s, <1>t, <3>0, <4>3, <5>1, SMTT(60)
        <5> QED
          BY <1>n, <1>s, <3>0, <4>1, <5>1, <5>2
      <4>4. CASE g = after
        BY <1>n, <1>s, <2>1, <3>0, <4>1, <4>4
      <4> QED
        BY <1>n, <1>s, <3>0, <4>2, <4>3, <4>4
    <3> QED
      BY <3>1, <3>2
  <2>7. /\ xStart \in DOMAIN L2
        /\ DOMAIN S2 = Nodes(L2) \cup A /\ A \cap Nodes(L2) = {}
    BY <1>n, <1>s, <1>l, <1>d, <2>1 DEF Nodes
  <2>8. \A b \in A : S2[b] = S[b]
    <3> TAKE b \in A
    <3>1. b # block /\ b # before /\ (after # pxEnd => b # after)
      BY <1>n, <1>s, <1>l, <1>d
    <3>2. b \in DOMAIN S
      BY <1>d
    <3> QED
      BY <1>s, <1>l, <2>1, <3>1, <3>2
  <2> QED
    BY <2>2, <2>3, <2>4, <2>5, <2>6, <2>7, <2>8 DEF Sound, S2, L2
<1>3c. CASE ~joinsBefore /\ joinsAfter
  <2>1. /\ DOMAIN S2 = DOMAIN S \ {after}
        /\ S2[block] = S[block] + S[after] /\ after \in DOMAIN S /\ after \in DOMAIN L
        /\ \A b \in DOMAIN S : b # block /\ b # after => S2[b] = S[b]
        /\ DOMAIN L2 = (DOMAIN L \cup {block}) \ {after}
        /\ L2[block] = L[after] /\ L2[before] = block
        /\ \A b \in DOMAIN L : b # before /\ b # after => L2[b] = L[b]
        /\ before # xStart => before + S[before] # block
        /\ block + S[block] = after /\ after # xStart
    BY <1>1, <1>2, <1>n, <1>s, <1>l, <1>d, <1>3c
  <2>2. Sizes(S2)
    BY <1>n, <1>s, <1>t, <1>l, <2>1 DEF Sizes
  <2>3. Tiles(S2)
    <3>1. pxFirst \in DOMAIN S2
      BY <1>n, <1>s, <1>t, <1>f, <1>l, <2>1
    <3>2. \A b \in DOMAIN S2 : b + S2[b] \in DOMAIN S2 \cup {pxEnd}
      BY <1>n, <1>s, <1>t, <1>l, <2>1
    <3>3. \A b, c \in DOMAIN S2 : b < c => b + S2[b] <= c
      BY <1>n, <1>s, <1>t, <1>l, <2>1
    <3> QED
      BY <3>1, <3>2, <3>3 DEF Tiles
  <2>4. Ordered(L2)
    <3> SUFFICES ASSUME NEW p \in DOMAIN L2
                 PROVE  /\ p < L2[p] /\ L2[p] \in Nodes(L2) \cup {pxEnd}
                        /\ \A f \in Nodes(L2) : f <= p \/ L2[p] <= f
      BY DEF Ordered
    <3>1. p < L2[p]
      BY <1>n, <1>i, <1>l, <2>1
    <3>2. L2[p] \in Nodes(L2) \cup {pxEnd}
      BY <1>n, <1>i, <1>s, <1>l, <1>o, <2>1 DEF Nodes
    <3>3. \A f \in Nodes(L2) : f <= p \/ L2[p] <= f
      BY <1>n, <1>i, <1>l, <1>o, <2>1 DEF Nodes
    <3> QED
      BY <3>1, <3>2, <3>3
  <2>5. Covers(L2)
    <3> SUFFICES ASSUME NEW x \in pxFirst..pxEnd
                 PROVE  \E p \in DOMAIN L2 : p < x /\ x <= L2[p]
      BY DEF Covers, Precedes
    <3>1. PICK p \in DOMAIN L : p < x /\ x <= L[p]
      BY <1>c
    <3> QED
      BY <1>n, <1>i, <1>l, <2>1, <3>1
  <2>6. Apart2(S2, L2)
    <3> SUFFICES ASSUME NEW f \in DOMAIN L2, NEW g \in DOMAIN L2,
                        f # xStart, g # xStart
                 PROVE  f + S2[f] # g
      BY DEF Apart2, Nodes
    <3> QED
      BY <1>n, <1>i, <1>s, <1>t, <1>l, <1>o, <1>d, <1>a, <2>1
  <2>7. /\ xStart \in DOMAIN L2
        /\ DOMAIN S2 = Nodes(L2) \cup A /\ A \cap Nodes(L2) = {}
    BY <1>n, <1>s, <1>l, <1>d, <2>1 DEF Nodes
  <2>8. \A b \in A : S2[b] = S[b]
    <3> TAKE b \in A
    <3>1. b # block /\ b # before /\ (after # pxEnd => b # after)
      BY <1>n, <1>s, <1>l, <1>d
    <3>2. b \in DOMAIN S
      BY <1>d
    <3> QED
      BY <1>s, <1>l, <2>1, <3>1, <3>2
  <2> QED
    BY <2>2, <2>3, <2>4, <2>5, <2>6, <2>7, <2>8 DEF Sound, S2, L2
<1>4c. CASE joinsBefore /\ joinsAfter
  <2>1. /\ DOMAIN S2 = DOMAIN S \ {block, after}
        /\ S2[before] = S[block] + S[before] + S[after]
        /\ before \in DOMAIN S /\ after \in DOMAIN S /\ after \in DOMAIN L
        /\ \A b \in DOMAIN S : b # before /\ b # block /\ b # after => S2[b] = S[b]
        /\ DOMAIN L2 = DOMAIN L \ {after}
        /\ L2[before] = L[after]
        /\ \A b \in DOMAIN L : b # before /\ b # after => L2[b] = L[b]
        /\ before # xStart /\ before + S[before] = block
        /\ block + S[block] = after /\ after # xStart
    BY <1>1, <1>2, <1>n, <1>s, <1>l, <1>d, <1>4c
  <2>2. Sizes(S2)
    BY <1>n, <1>s, <1>t, <1>l, <2>1 DEF Sizes
  <2>3. Tiles(S2)
    <3>1. pxFirst \in DOMAIN S2
      BY <1>n, <1>s, <1>t, <1>f, <1>l, <2>1
    <3>2. \A b \in DOMAIN S2 : b + S2[b] \in DOMAIN S2 \cup {pxEnd}
      BY <1>n, <1>s, <1>t, <1>l, <2>1, SMTT(60)
    <3>3. \A b, c \in DOMAIN S2 : b < c => b + S2[b] <= c
      BY <1>n, <1>s, <1>t, <1>l, <2>1, SMTT(60)
    <3> QED
      BY <3>1, <3>2, <3>3 DEF Tiles
  <2>4. Ordered(L2)
    <3> SUFFICES ASSUME NEW p \in DOMAIN L2
                 PROVE  /\ p < L2[p] /\ L2[p] \in Nodes(L2) \cup {pxEnd}
                        /\ \A f \in Nodes(L2) : f <= p \/ L2[p] <= f
      BY DEF Ordered
    <3>1. p < L2[p]
      BY <1>n, <1>i, <1>l, <2>1
    <3>2. L2[p] \in Nodes(L2) \cup {pxEnd}
      BY <1>n, <1>i, <1>s, <1>l, <1>o, <2>1 DEF Nodes
    <3>3. \A f \in Nodes(L2) : f <= p \/ L2[p] <= f
      BY <1>n, <1>i, <1>l, <1>o, <2>1 DEF Nodes
    <3> QED
      BY <3>1, <3>2, <3>3
  <2>5. Covers(L2)
    <3> SUFFICES ASSUME NEW x \in pxFirst..pxEnd
                 PROVE  \E p \in DOMAIN L2 : p < x /\ x <= L2[p]
      BY DEF Covers, Precedes
    <3>1. PICK p \in DOMAIN L : p < x /\ x <= L[p]
      BY <1>c
    <3> QED
      BY <1>n, <1>i, <1>l, <2>1, <3>1
  <2>6. Apart2(S2, L2)
    <3> SUFFICES ASSUME NEW f \in DOMAIN L2, NEW g \in DOMAIN L2,
                        f # xStart, g # xStart
                 PROVE  f + S2[f] # g
      BY DEF Apart2, Nodes
    <3> QED
      BY <1>n, <1>i, <1>s, <1>t, <1>l, <1>o, <1>d, <1>a, <2>1
  <2>7. /\ xStart \in DOMAIN L2
        /\ DOMAIN S2 = Nodes(L2) \cup A /\ A \cap Nodes(L2) = {}
    BY <1>n, <1>s, <1>l, <1>d, <2>1 DEF Nodes
  <2>8. \A b \in A : S2[b] = S[b]
    <3> TAKE b \in A
    <3>1. b # block /\ b # before /\ (after # pxEnd => b # after)
      BY <1>n, <1>s, <1>l, <1>d
    <3>2. b \in DOMAIN S
      BY <1>d
    <3> QED
      BY <1>s, <1>l, <2>1, <3>1, <3>2
  <2> QED
    BY <2>2, <2>3, <2>4, <2>5, <2>6, <2>7, <2>8 DEF Sound, S2, L2
<1> QED
  BY <1>1c, <1>2c, <1>3c, <1>4c

\* A block taken out of the list leaves the rest of it in order.
LEMMA UnlinkSound ==
    ASSUME NEW S, NEW L, NEW A, NEW previous \in DOMAIN L, L[previous] # pxEnd,
           Sound(S, L, A)
    PROVE  /\ Sound(S, [b \in DOMAIN L \ {L[previous]} |->
                           IF b = previous THEN L[L[previous]] ELSE L[b]],
                    A \cup {L[previous]})
           /\ L[previous] \in DOMAIN S \ A
<1> DEFINE block == L[previous]
           L1 == [b \in DOMAIN L \ {block} |-> IF b = previous THEN L[block] ELSE L[b]]
<1>n. /\ pxEnd \in Nat /\ xStart \in Int /\ xStart < 0 /\ xStart \in DOMAIN L
      /\ DOMAIN S = (DOMAIN L \ {xStart}) \cup A /\ A \cap (DOMAIN L \ {xStart}) = {}
      /\ \A b \in DOMAIN S : b \in Nat
      /\ \A b \in DOMAIN S : b < pxEnd
  <2>1. \A b \in DOMAIN S : b \in Nat /\ S[b] \in Nat \ {0} /\ b + S[b] <= pxEnd
    BY DEF Sound, Sizes
  <2>2. pxEnd \in Nat /\ xStart \in Int /\ xStart < 0
    BY RoomAssumption DEF xStart
  <2>3. \A b \in DOMAIN S : b < pxEnd
    BY <2>1, <2>2
  <2> QED
    BY <2>1, <2>2, <2>3 DEF Sound, Nodes
<1>l. \A p \in DOMAIN L : /\ p < L[p]
                         /\ (L[p] = pxEnd \/ (L[p] \in DOMAIN L /\ L[p] # xStart))
                         /\ (\A f \in DOMAIN L : f = xStart \/ f <= p \/ L[p] <= f)
  BY DEF Sound, Ordered, Nodes
<1>i. \A p \in DOMAIN L : p \in Int /\ L[p] \in Nat
  BY <1>n, <1>l
<1>b. /\ block \in DOMAIN L /\ block # xStart /\ block # previous
      /\ block \in DOMAIN S \ A /\ previous < block /\ block < L[block]
  BY <1>n, <1>l, <1>i
<1>1. /\ DOMAIN L1 = DOMAIN L \ {block} /\ previous \in DOMAIN L1
      /\ L1[previous] = L[block]
      /\ \A b \in DOMAIN L : b # block /\ b # previous => L1[b] = L[b]
  BY <1>b
<1> HIDE DEF block, L1
<1>e. \A p \in DOMAIN L : p # previous => L[p] # block
  BY <1>n, <1>l, <1>i, <1>b DEF block
<1>2. Ordered(L1)
  <2> SUFFICES ASSUME NEW p \in DOMAIN L1
               PROVE  /\ p < L1[p] /\ L1[p] \in Nodes(L1) \cup {pxEnd}
                      /\ \A f \in Nodes(L1) : f <= p \/ L1[p] <= f
    BY DEF Ordered
  <2>1. CASE p = previous
    <3>1. L1[p] = L[block] /\ p < L[block] /\ L[block] # block
      BY <1>1, <1>b, <1>i, <2>1
    <3>2. L1[p] \in Nodes(L1) \cup {pxEnd}
      BY <1>1, <1>b, <1>l, <3>1 DEF Nodes
    <3>3. \A f \in Nodes(L1) : f <= p \/ L1[p] <= f
      <4> TAKE f \in Nodes(L1)
      <4>1. f \in DOMAIN L /\ f # xStart /\ f # block /\ f \in Int
        BY <1>1, <1>i DEF Nodes
      <4>2. f <= previous \/ block <= f
        BY <1>l, <4>1 DEF block
      <4>3. f <= block \/ L[block] <= f
        BY <1>l, <1>b, <4>1
      <4> QED
        BY <1>b, <1>i, <2>1, <3>1, <4>1, <4>2, <4>3
    <3> QED
      BY <3>1, <3>2, <3>3
  <2>2. CASE p # previous
    <3>1. L1[p] = L[p] /\ p \in DOMAIN L /\ L[p] # block
      BY <1>1, <1>e, <2>2
    <3> QED
      BY <1>1, <1>l, <3>1 DEF Nodes
  <2> QED
    BY <2>1, <2>2
<1>3. Covers(L1)
  <2> SUFFICES ASSUME NEW x \in pxFirst..pxEnd
               PROVE  \E p \in DOMAIN L1 : p < x /\ x <= L1[p]
    BY DEF Covers, Precedes
  <2>1. PICK p \in DOMAIN L : p < x /\ x <= L[p]
    BY DEF Sound, Covers, Precedes
  <2>2. x \in Int
    BY RoomAssumption
  <2>3. CASE p = previous \/ p = block
    <3>1. previous < x /\ x <= L1[previous]
      BY <1>1, <1>b, <1>i, <2>1, <2>2, <2>3 DEF block
    <3> QED
      BY <1>1, <3>1
  <2>4. CASE p # previous /\ p # block
    BY <1>1, <2>1, <2>4
  <2> QED
    BY <2>3, <2>4
<1>4. Apart2(S, L1)
  BY <1>1 DEF Sound, Apart2, Nodes
<1>5. /\ xStart \in DOMAIN L1 /\ DOMAIN S = Nodes(L1) \cup (A \cup {block})
      /\ (A \cup {block}) \cap Nodes(L1) = {}
  BY <1>1, <1>n, <1>b DEF Nodes
<1>6. Sizes(S) /\ Tiles(S)
  BY DEF Sound
<1>7. Sound(S, L1, A \cup {block})
  BY <1>2, <1>3, <1>4, <1>5, <1>6 DEF Sound
<1> QED
  BY <1>7, <1>b DEF L1, block

\* What is split off an allocated block is a block of its own.
LEMMA SplitLoose ==
    ASSUME NEW S, NEW L, NEW A, NEW block \in A, NEW size \in Nat \ {0}, size < S[block],
           Sound(S, L, A)
    PROVE  Loose([b \in DOMAIN S \cup {block + size} |->
                    IF b = block THEN size
                    ELSE IF b = block + size THEN S[block] - size ELSE S[b]],
                 L, A, block + size)
<1> DEFINE rest == block + size
           S1 == [b \in DOMAIN S \cup {rest} |->
                    IF b = block THEN size ELSE IF b = rest THEN S[block] - size ELSE S[b]]
<1>s. \A b \in DOMAIN S : /\ b \in Nat /\ S[b] \in Nat \ {0}
                         /\ pxFirst <= b /\ b + S[b] <= pxEnd
  BY DEF Sound, Sizes
<1>t. \A b, c \in DOMAIN S : b < c => b + S[b] <= c
  BY DEF Sound, Tiles
<1>e. \A b \in DOMAIN S : b + S[b] \in DOMAIN S \cup {pxEnd}
  BY DEF Sound, Tiles
<1>n. /\ pxEnd \in Nat /\ pxFirst \in Nat /\ xStart < 0 /\ xStart \in Int
      /\ DOMAIN S = (DOMAIN L \ {xStart}) \cup A /\ A \cap (DOMAIN L \ {xStart}) = {}
      /\ block \in DOMAIN S
  BY RoomAssumption DEF Sound, Nodes, xStart
<1>1. /\ rest \in Nat /\ block < rest /\ rest < block + S[block] /\ rest # xStart
      /\ S[block] - size \in Nat \ {0} /\ rest + (S[block] - size) = block + S[block]
      /\ pxFirst <= rest
  BY <1>n, <1>s
<1>2. rest \notin DOMAIN S
  BY <1>n, <1>s, <1>t, <1>1
<1>3. /\ DOMAIN S1 = DOMAIN S \cup {rest}
      /\ S1[block] = size /\ S1[rest] = S[block] - size
      /\ \A b \in DOMAIN S : b # block => S1[b] = S[b]
  BY <1>1, <1>2, <1>n
<1> HIDE DEF rest, S1
<1>4. Sizes(S1)
  BY <1>1, <1>3, <1>n, <1>s DEF Sizes, rest
<1>5. Tiles(S1)
  <2>1. pxFirst \in DOMAIN S1
    BY <1>3 DEF Sound, Tiles
  <2>2. \A b \in DOMAIN S1 : b + S1[b] \in DOMAIN S1 \cup {pxEnd}
    BY <1>1, <1>3, <1>n, <1>e DEF rest
  <2>3. ASSUME NEW b \in DOMAIN S1, NEW c \in DOMAIN S1, b < c
        PROVE  b + S1[b] <= c
    <3>1. CASE b = block
      <4>1. CASE c = rest
        BY <1>1, <1>3, <1>n, <1>s, <3>1, <4>1 DEF rest
      <4>2. CASE c \in DOMAIN S
        BY <1>1, <1>3, <1>n, <1>s, <1>t, <2>3, <3>1, <4>2
      <4> QED
        BY <1>3, <4>1, <4>2
    <3>2. CASE b = rest
      <4>1. c \in DOMAIN S /\ block < c
        BY <1>1, <1>3, <1>n, <1>s, <2>3, <3>2
      <4> QED
        BY <1>1, <1>3, <1>n, <1>t, <3>2, <4>1
    <3>3. CASE b # block /\ b # rest
      <4>1. b \in DOMAIN S /\ S1[b] = S[b]
        BY <1>3, <3>3
      <4>2. CASE c = rest
        <5>1. b < block
          BY <1>1, <1>n, <1>s, <1>t, <2>3, <3>3, <4>1, <4>2
        <5> QED
          BY <1>1, <1>n, <1>s, <1>t, <4>1, <4>2, <5>1
      <4>3. CASE c \in DOMAIN S
        BY <1>t, <2>3, <4>1, <4>3
      <4> QED
        BY <1>3, <4>2, <4>3
    <3> QED
      BY <3>1, <3>2, <3>3
  <2> QED
    BY <2>1, <2>2, <2>3 DEF Tiles
<1>6. Apart2(S1, L)
  BY <1>3, <1>n DEF Sound, Apart2, Nodes
<1>7. /\ DOMAIN S1 = Nodes(L) \cup A \cup {rest}
      /\ rest \notin A /\ rest \notin DOMAIN L /\ A \cap Nodes(L) = {}
  BY <1>1, <1>2, <1>3, <1>n DEF Nodes
<1>8. Ordered(L) /\ Covers(L) /\ xStart \in DOMAIN L
  BY DEF Sound
<1>9. Loose(S1, L, A, rest)
  BY <1>4, <1>5, <1>6, <1>7, <1>8 DEF Loose
<1> QED
  BY <1>9 DEF S1, rest

-------------------------------------------------------------------------------
\* The bytes of the blocks of a list.
Bytes(S, b) == b..(b + S[b] - 1)
Owned(S, L) == UNION { Bytes(S, b) : b \in Nodes(L) }

LEMMA OwnedIs ==
    ASSUME NEW S, NEW L, Sizes(S), Nodes(L) \subseteq DOMAIN S
    PROVE  \A x : x \in Owned(S, L) <=>
                    x \in Nat /\ \E b \in Nodes(L) : b <= x /\ x < b + S[b]
<1> SUFFICES ASSUME NEW x
             PROVE  x \in Owned(S, L) <=>
                      x \in Nat /\ \E b \in Nodes(L) : b <= x /\ x < b + S[b]
  OBVIOUS
<1>1. \A b \in Nodes(L) : b \in Nat /\ S[b] \in Nat \ {0}
  BY DEF Sizes
<1>2. \A b \in Nodes(L) : x \in Bytes(S, b) <=> x \in Nat /\ b <= x /\ x < b + S[b]
  BY <1>1 DEF Bytes
<1>3. x \in Owned(S, L) <=> \E b \in Nodes(L) : x \in Bytes(S, b)
  BY DEF Owned
<1> QED
  BY <1>2, <1>3

LEMMA OwnedFinite ==
    ASSUME NEW S, NEW L, Sizes(S), Nodes(L) \subseteq DOMAIN S
    PROVE  IsFiniteSet(Owned(S, L)) /\ Cardinality(Owned(S, L)) \in Nat
<1>1. Owned(S, L) \subseteq 0..pxEnd
  <2> SUFFICES ASSUME NEW x \in Owned(S, L) PROVE x \in 0..pxEnd
    OBVIOUS
  <2>1. x \in Nat /\ \E b \in Nodes(L) : b <= x /\ x < b + S[b]
    BY OwnedIs
  <2>2. PICK b \in Nodes(L) : b <= x /\ x < b + S[b]
    BY <2>1
  <2>3. b \in Nat /\ S[b] \in Nat /\ b + S[b] <= pxEnd /\ pxEnd \in Nat
    BY RoomAssumption DEF Sizes
  <2> QED
    BY <2>1, <2>2, <2>3
<1>2. IsFiniteSet(0..pxEnd)
  BY RoomAssumption, FS_Interval
<1> QED
  BY <1>1, <1>2, FS_Subset, FS_CardinalityType

LEMMA BytesOf ==
    ASSUME NEW S, NEW b \in DOMAIN S, Sizes(S)
    PROVE  /\ IsFiniteSet(Bytes(S, b)) /\ Cardinality(Bytes(S, b)) = S[b]
           /\ \A x : x \in Bytes(S, b) <=> x \in Nat /\ b <= x /\ x < b + S[b]
<1>1. b \in Nat /\ S[b] \in Nat \ {0}
  BY DEF Sizes
<1>2. b \in Int /\ b + S[b] - 1 \in Int /\ ~(b > b + S[b] - 1)
      /\ (b + S[b] - 1) - b + 1 = S[b]
  BY <1>1
<1>3. IsFiniteSet(b..(b + S[b] - 1)) /\ Cardinality(b..(b + S[b] - 1)) = S[b]
  BY <1>2, FS_Interval
<1> QED
  BY <1>1, <1>3 DEF Bytes

\* A set grows or shrinks by another one.
LEMMA GrowsBy ==
    ASSUME NEW T, NEW U, IsFiniteSet(T), IsFiniteSet(U), T \cap U = {}
    PROVE  Cardinality(T \cup U) = Cardinality(T) + Cardinality(U)
<1>1. Cardinality(T \cap U) = 0
  BY FS_EmptySet
<1>2. Cardinality(T) \in Nat /\ Cardinality(U) \in Nat
  BY FS_CardinalityType
<1>3. Cardinality(T \cup U) = Cardinality(T) + Cardinality(U) - Cardinality(T \cap U)
  BY FS_Union
<1> QED
  BY <1>1, <1>2, <1>3

LEMMA ShrinksBy ==
    ASSUME NEW T, NEW U, IsFiniteSet(T), U \subseteq T
    PROVE  IsFiniteSet(T \ U) /\ Cardinality(T \ U) = Cardinality(T) - Cardinality(U)
<1>1. T \cap U = U
  OBVIOUS
<1> QED
  BY <1>1, FS_Difference

\* What is given back had no byte in the list, and now has them all.
LEMMA InsertionBytes ==
    ASSUME NEW S, NEW L, NEW A, NEW block, NEW before,
           Loose(S, L, A, block), Precedes(L, before, block),
           NEW S2, S2 = Insertion(S, L, before, block).sizes,
           NEW L2, L2 = Insertion(S, L, before, block).list
    PROVE  Cardinality(Owned(S2, L2)) = Cardinality(Owned(S, L)) + S[block]
<1> DEFINE after == L[before]
           joinsBefore == before # xStart /\ before + S[before] = block
           joinsAfter == block + S[block] = after /\ after # pxEnd
           whole == IF joinsBefore THEN before ELSE block
           gone == (IF joinsBefore THEN {block} ELSE {}) \cup
                   (IF joinsAfter THEN {after} ELSE {})
           length == S[block] + (IF joinsBefore THEN S[before] ELSE 0)
                              + (IF joinsAfter THEN S[after] ELSE 0)
<1>1. /\ DOMAIN S2 = DOMAIN S \ gone
      /\ \A b \in DOMAIN S \ gone : S2[b] = IF b = whole THEN length ELSE S[b]
      /\ DOMAIN L2 = (DOMAIN L \cup {block}) \ gone
  BY DEF Insertion
<1>2. Sound(S2, L2, A)
  BY InsertionSound
<1>3. /\ Sizes(S) /\ Nodes(L) \subseteq DOMAIN S /\ block \in DOMAIN S
      /\ block \notin Nodes(L)
      /\ before \in DOMAIN L /\ before < block /\ block <= after /\ block \notin DOMAIN L
      /\ after \in Nodes(L) \cup {pxEnd}
      /\ \A b, c \in DOMAIN S : b < c => b + S[b] <= c
  BY DEF Loose, Nodes, Precedes, Ordered, Tiles
<1>4. Sizes(S2) /\ Nodes(L2) \subseteq DOMAIN S2
  BY <1>2 DEF Sound
<1>5. /\ block \in Nat /\ S[block] \in Nat \ {0} /\ pxEnd \in Nat /\ xStart \in Int
      /\ \A b \in DOMAIN S : b \in Nat /\ S[b] \in Nat \ {0} /\ b # xStart
  BY <1>3, RoomAssumption DEF Sizes, xStart
<1>6. Nodes(L2) = (Nodes(L) \cup {block}) \ gone
  <2>1. block # xStart
    BY <1>3, <1>5
  <2> HIDE DEF gone
  <2> QED
    BY <1>1, <2>1 DEF Nodes
<1>7. before # xStart => before \in Nodes(L)
  BY <1>3 DEF Nodes
<1>8. joinsAfter => after \in Nodes(L)
  BY <1>3
<1>9. /\ joinsBefore => whole = before /\ before \in Nodes(L) /\ before + S[before] = block
      /\ ~joinsBefore => whole = block
      /\ whole \in Nodes(L) \cup {block} /\ whole \notin gone /\ whole \in Nodes(L2)
  BY <1>3, <1>5, <1>6, <1>7, <1>8
<1>10. Owned(S2, L2) = Owned(S, L) \cup Bytes(S, block)
  <2> DEFINE In(b, x) == b <= x /\ x < b + S[b]
  <2>1. \A x \in Nat : whole <= x /\ x < whole + length <=>
            \/ In(block, x)
            \/ joinsBefore /\ In(before, x)
            \/ joinsAfter /\ In(after, x)
    <3> SUFFICES ASSUME NEW x \in Nat
                 PROVE  whole <= x /\ x < whole + length <=>
                            \/ In(block, x)
                            \/ joinsBefore /\ In(before, x)
                            \/ joinsAfter /\ In(after, x)
      OBVIOUS
    <3>1. joinsBefore => before \in Nat /\ S[before] \in Nat /\ before + S[before] = block
      BY <1>3, <1>5, <1>7
    <3>2. joinsAfter => after \in Nat /\ S[after] \in Nat /\ block + S[block] = after
      BY <1>3, <1>5, <1>8
    <3> QED
      BY <1>5, <3>1, <3>2
  <2>2. S2[whole] = length
    BY <1>1, <1>4, <1>9
  <2>3. \A b \in Nodes(L2) \ {whole} : S2[b] = S[b] /\ b \in Nodes(L) /\ b \notin gone
    BY <1>1, <1>4, <1>6, <1>9
  <2>4. \A b \in Nodes(L) : b = whole \/ b \in gone \/ b \in Nodes(L2) \ {whole}
    BY <1>6
  <2>5. ASSUME NEW x \in Nat
        PROVE  (\E b \in Nodes(L2) : b <= x /\ x < b + S2[b]) <=>
                   (\E b \in Nodes(L) : In(b, x)) \/ In(block, x)
    <3>1. ASSUME NEW b \in Nodes(L2), b <= x /\ x < b + S2[b]
          PROVE  (\E c \in Nodes(L) : In(c, x)) \/ In(block, x)
      <4>1. CASE b = whole
        <5>1. \/ In(block, x)
              \/ joinsBefore /\ In(before, x)
              \/ joinsAfter /\ In(after, x)
          <6> HIDE DEF whole, length, In, joinsBefore, joinsAfter
          <6> QED
            BY <2>1, <2>2, <3>1, <4>1
        <5> QED
          BY <1>7, <1>8, <5>1
      <4>2. CASE b # whole
        <5>1. S2[b] = S[b] /\ b \in Nodes(L)
          BY <2>3, <4>2
        <5> QED
          BY <3>1, <5>1
      <4> QED
        BY <4>1, <4>2
    <3>2. ASSUME NEW c \in Nodes(L) \cup {block}, In(c, x)
          PROVE  \E b \in Nodes(L2) : b <= x /\ x < b + S2[b]
      <4>1. CASE c = block \/ (joinsBefore /\ c = before) \/ (joinsAfter /\ c = after)
        <5>1. whole <= x /\ x < whole + length
          BY <2>1, <3>2, <4>1
        <5> HIDE DEF whole, length
        <5> QED
          BY <1>9, <2>2, <5>1
      <4>2. CASE ~(c = block \/ (joinsBefore /\ c = before) \/ (joinsAfter /\ c = after))
        <5>1. c \in Nodes(L2) \ {whole}
          BY <1>6, <4>2
        <5>2. S2[c] = S[c]
          BY <2>3, <5>1
        <5> QED
          BY <3>2, <5>1, <5>2
      <4> QED
        BY <4>1, <4>2
    <3> HIDE DEF In
    <3> QED
      BY <3>1, <3>2 DEF In
  <2>6. \A x : x \in Owned(S2, L2) <=>
                 x \in Nat /\ \E b \in Nodes(L2) : b <= x /\ x < b + S2[b]
    BY <1>4, OwnedIs
  <2>7. \A x : x \in Owned(S, L) <=> x \in Nat /\ \E b \in Nodes(L) : In(b, x)
    BY <1>3, OwnedIs
  <2>8. \A x : x \in Bytes(S, block) <=> x \in Nat /\ In(block, x)
    BY <1>3, BytesOf
  <2> HIDE DEF In
  <2> SUFFICES ASSUME NEW x
               PROVE  x \in Owned(S2, L2) <=> x \in Owned(S, L) \cup Bytes(S, block)
    OBVIOUS
  <2> QED
    BY <2>5, <2>6, <2>7, <2>8
<1>11. Owned(S, L) \cap Bytes(S, block) = {}
  <2> SUFFICES ASSUME NEW x \in Owned(S, L), x \in Bytes(S, block) PROVE FALSE
    OBVIOUS
  <2>1. x \in Nat /\ \E b \in Nodes(L) : b <= x /\ x < b + S[b]
    BY <1>3, OwnedIs
  <2>2. PICK b \in Nodes(L) : b <= x /\ x < b + S[b]
    BY <2>1
  <2>3. block <= x /\ x < block + S[block]
    BY <1>3, BytesOf
  <2>4. b \in DOMAIN S /\ b # block /\ b \in Nat /\ S[b] \in Nat
    BY <1>3, <1>5
  <2>5. b < block => b + S[b] <= block
    BY <1>3, <2>4
  <2>6. block < b => block + S[block] <= b
    BY <1>3, <2>4
  <2> QED
    BY <1>5, <2>1, <2>2, <2>3, <2>4, <2>5, <2>6
<1> QED
  BY <1>3, <1>10, <1>11, OwnedFinite, BytesOf, GrowsBy

\* A block that is taken out of the list takes its bytes.
LEMMA UnlinkBytes ==
    ASSUME NEW S, NEW L, NEW A, NEW previous \in DOMAIN L, L[previous] # pxEnd,
           Sound(S, L, A),
           NEW L1, DOMAIN L1 = DOMAIN L \ {L[previous]}
    PROVE  /\ Cardinality(Owned(S, L1)) = Cardinality(Owned(S, L)) - S[L[previous]]
           /\ S[L[previous]] \in Nat /\ Nodes(L1) \subseteq DOMAIN S
<1>1. PICK block : block = L[previous]
  OBVIOUS
<1>2. /\ block \in Nodes(L) /\ Nodes(L1) = Nodes(L) \ {block} /\ Sizes(S)
      /\ Nodes(L) \subseteq DOMAIN S /\ block \in DOMAIN S
      /\ \A b, c \in DOMAIN S : b < c => b + S[b] <= c
  BY <1>1 DEF Sound, Ordered, Nodes, Tiles
<1>3. \A b \in DOMAIN S : b \in Nat /\ S[b] \in Nat
  BY <1>2 DEF Sizes
<1>4. Owned(S, L1) = Owned(S, L) \ Bytes(S, block)
  <2> SUFFICES ASSUME NEW x
               PROVE  x \in Owned(S, L1) <=> x \in Owned(S, L) /\ x \notin Bytes(S, block)
    OBVIOUS
  <2>1. x \in Owned(S, L1) <=> x \in Nat /\ \E b \in Nodes(L1) : b <= x /\ x < b + S[b]
    BY <1>2, OwnedIs
  <2>2. x \in Owned(S, L) <=> x \in Nat /\ \E b \in Nodes(L) : b <= x /\ x < b + S[b]
    BY <1>2, OwnedIs
  <2>3. x \in Bytes(S, block) <=> x \in Nat /\ block <= x /\ x < block + S[block]
    BY <1>2, BytesOf
  <2>4. ASSUME x \in Nat, NEW b \in Nodes(L), b # block, b <= x, x < b + S[b],
               block <= x, x < block + S[block]
        PROVE  FALSE
    <3>1. b \in Nat /\ S[b] \in Nat /\ block \in Nat /\ S[block] \in Nat
      BY <1>2, <1>3
    <3>2. (b < block => b + S[b] <= block) /\ (block < b => block + S[block] <= b)
      BY <1>2
    <3> QED
      BY <2>4, <3>1, <3>2
  <2> QED
    BY <1>2, <2>1, <2>2, <2>3, <2>4
<1>5. Bytes(S, block) \subseteq Owned(S, L)
  BY <1>2, BytesOf, OwnedIs
<1>6. IsFiniteSet(Owned(S, L)) /\ Cardinality(Bytes(S, block)) = S[block]
  BY <1>2, OwnedFinite, BytesOf
<1>7. Cardinality(Owned(S, L1)) = Cardinality(Owned(S, L)) - Cardinality(Bytes(S, block))
  BY <1>4, <1>5, <1>6, ShrinksBy
<1> QED
  BY <1>1, <1>2, <1>3, <1>6, <1>7

\* Only the sizes of the listed blocks matter.
LEMMA SameOwned ==
    ASSUME NEW S, NEW S1, NEW L, \A b \in Nodes(L) : S1[b] = S[b]
    PROVE  Owned(S1, L) = Owned(S, L)
  BY DEF Owned, Bytes

-------------------------------------------------------------------------------
\* Every allocated block has room for what was asked for and its header.
Reserved ==
    \A b \in Allocated : /\ asked[b] \in Nat \ {0}
                        /\ asked[b] + xHeapStructSize <= xBlockSize[b]

HeapInv == Sound(xBlockSize, pxNextFreeBlock, Allocated) /\ Reserved

\* No size wraps round: what is taken has room for what was asked for.
LEMMA SizeSuffices ==
    ASSUME NEW wanted \in Requests, SizeWithHeader(wanted) > 0
    PROVE  /\ SizeWithHeader(wanted) \in Nat \ {0} /\ wanted \in Nat \ {0}
           /\ wanted + xHeapStructSize <= SizeWithHeader(wanted)
<1> DEFINE x == wanted + xHeapStructSize + (portBYTE_ALIGNMENT - 1)
<1>1. wanted \in Nat /\ xHeapStructSize \in Nat /\ portBYTE_ALIGNMENT \in Nat \ {0}
  BY HeapAssumption
<1>2. x \in Nat /\ x % portBYTE_ALIGNMENT \in 0..(portBYTE_ALIGNMENT - 1)
  BY <1>1
<1>3. AlignUp(wanted + xHeapStructSize) = x - (x % portBYTE_ALIGNMENT)
  BY DEF AlignUp, AlignDown
<1>4. wanted # 0 /\ SizeWithHeader(wanted) = AlignUp(wanted + xHeapStructSize)
  BY DEF SizeWithHeader
<1> HIDE DEF x
<1>5. wanted + xHeapStructSize <= x - (x % portBYTE_ALIGNMENT)
  BY <1>1, <1>2 DEF x
<1> QED
  BY <1>1, <1>2, <1>3, <1>4, <1>5

LEMMA HeapInvInit == HeapInit => HeapInv
<1> SUFFICES ASSUME HeapInit PROVE HeapInv
  OBVIOUS
<1>1. /\ DOMAIN xBlockSize = {pxFirst} /\ xBlockSize[pxFirst] = pxEnd - pxFirst
      /\ DOMAIN pxNextFreeBlock = {xStart, pxFirst} /\ Allocated = {}
      /\ pxNextFreeBlock[xStart] = pxFirst
      /\ (pxFirst # xStart => pxNextFreeBlock[pxFirst] = pxEnd)
  BY DEF HeapInit, Allocated
<1>2. pxFirst \in Nat /\ pxEnd \in Nat /\ pxFirst < pxEnd /\ xStart \in Int /\ xStart < 0
  BY RoomAssumption DEF xStart
<1> QED
  BY <1>1, <1>2
     DEF HeapInv, Sound, Sizes, Tiles, Ordered, Covers, Apart2, Nodes, Precedes, Reserved

LEMMA FreeInv ==
    ASSUME HeapInv, NEW block \in Allocated, vPortFree(block)
    PROVE  HeapInv'
<1> DEFINE A1 == Allocated \ {block}
<1>1. PICK before \in DOMAIN pxNextFreeBlock :
        /\ Precedes(pxNextFreeBlock, before, block)
        /\ xBlockSize' = Insertion(xBlockSize, pxNextFreeBlock, before, block).sizes
        /\ pxNextFreeBlock' = Insertion(xBlockSize, pxNextFreeBlock, before, block).list
  BY DEF vPortFree
<1>2. block # xStart
  BY DEF HeapInv, Sound, Sizes, xStart
<1>3. Loose(xBlockSize, pxNextFreeBlock, A1, block)
  <2>1. /\ DOMAIN xBlockSize = Nodes(pxNextFreeBlock) \cup A1 \cup {block}
        /\ block \notin A1 /\ block \notin DOMAIN pxNextFreeBlock
        /\ A1 \cap Nodes(pxNextFreeBlock) = {}
    BY <1>2 DEF HeapInv, Sound, Nodes
  <2> QED
    BY <2>1 DEF HeapInv, Sound, Loose
<1>4. /\ Allocated' = A1 /\ \A b \in A1 : asked'[b] = asked[b]
  BY DEF vPortFree, Allocated
<1> HIDE DEF A1
<1>5. /\ Sound(xBlockSize', pxNextFreeBlock', A1)
      /\ \A b \in A1 : xBlockSize'[b] = xBlockSize[b]
  BY <1>1, <1>3, InsertionSound
<1>6. Sound(xBlockSize, pxNextFreeBlock, Allocated)'
  BY <1>4, <1>5
<1>7. Reserved'
  BY <1>4, <1>5 DEF A1, HeapInv, Reserved
<1> QED
  BY <1>6, <1>7 DEF HeapInv

LEMMA MallocInv ==
    ASSUME HeapInv, NEW wanted \in Requests, pvPortMalloc(wanted)
    PROVE  /\ HeapInv'
           /\ \E block : /\ block \notin Allocated /\ Allocated' = Allocated \cup {block}
                        /\ asked'[block] = wanted
                        /\ \A b \in Allocated : asked'[b] = asked[b]
<1> DEFINE size == SizeWithHeader(wanted)
<1>1. size > 0
  BY DEF pvPortMalloc
<1>2. size \in Nat \ {0} /\ wanted \in Nat \ {0} /\ wanted + xHeapStructSize <= size
  BY <1>1, SizeSuffices
<1>3. PICK previous \in DOMAIN pxNextFreeBlock :
        /\ FirstFit(previous, size)
        /\ LET block == pxNextFreeBlock[previous]
           IN  /\ IF xBlockSize[block] - size > heapMINIMUM_BLOCK_SIZE
                  THEN Split(block, size, Unlinked(previous, block))
                  ELSE TakeWhole(block, Unlinked(previous, block))
               /\ asked' = [b \in Allocated \cup {block} |->
                              IF b = block THEN wanted ELSE asked[b]]
  BY DEF pvPortMalloc
<1> DEFINE block == pxNextFreeBlock[previous]
           L1 == Unlinked(previous, block)
           A1 == Allocated \cup {block}
<1>4. block \in FreeBlocks /\ xBlockSize[block] >= size
  BY <1>3 DEF FirstFit
<1>5. Sound(xBlockSize, pxNextFreeBlock, Allocated)
  BY DEF HeapInv
<1>6. /\ block \in Nat /\ block # pxEnd /\ block \notin Allocated
      /\ xBlockSize[block] \in Nat \ {0}
  <2>1. block \in DOMAIN xBlockSize /\ block \notin Allocated
    BY <1>4, <1>5 DEF Sound, Nodes, FreeBlocks
  <2>2. /\ block \in Nat /\ xBlockSize[block] \in Nat \ {0}
        /\ block + xBlockSize[block] <= pxEnd
    BY <1>5, <2>1 DEF Sound, Sizes
  <2> QED
    BY <2>1, <2>2, RoomAssumption
<1>7. Sound(xBlockSize, L1, A1)
  BY <1>5, <1>6, UnlinkSound DEF Unlinked
<1>8. /\ Allocated' = A1 /\ asked'[block] = wanted
      /\ \A b \in Allocated : asked'[b] = asked[b]
  BY <1>3, <1>6 DEF Allocated
<1>9. /\ IF xBlockSize[block] - size > heapMINIMUM_BLOCK_SIZE
         THEN Split(block, size, L1) ELSE TakeWhole(block, L1)
  BY <1>3
<1>10. block \in A1
  OBVIOUS
<1> HIDE DEF size, block, L1, A1
<1>11. CASE ~(xBlockSize[block] - size > heapMINIMUM_BLOCK_SIZE)
  <2>1. xBlockSize' = xBlockSize /\ pxNextFreeBlock' = L1
    BY <1>9, <1>11 DEF TakeWhole
  <2>2. Sound(xBlockSize, pxNextFreeBlock, Allocated)'
    BY <1>7, <1>8, <2>1
  <2>3. Reserved'
    <3>1. ASSUME NEW b \in Allocated
          PROVE  asked'[b] \in Nat \ {0} /\ asked'[b] + xHeapStructSize <= xBlockSize'[b]
      BY <1>8, <2>1 DEF HeapInv, Reserved
    <3>2. asked'[block] \in Nat \ {0} /\ asked'[block] + xHeapStructSize <= xBlockSize'[block]
      BY <1>2, <1>4, <1>6, <1>8, <2>1, HeapAssumption
    <3> QED
      BY <1>8, <3>1, <3>2 DEF A1, Reserved
  <2> QED
    BY <1>6, <1>8, <2>2, <2>3 DEF HeapInv, A1
<1>12. CASE xBlockSize[block] - size > heapMINIMUM_BLOCK_SIZE
  <2> DEFINE rest == block + size
             S1 == [b \in Blocks \cup {rest} |->
                      IF b = block THEN size
                      ELSE IF b = rest THEN xBlockSize[block] - size ELSE xBlockSize[b]]
  <2>1. PICK before \in DOMAIN L1 :
          /\ Precedes(L1, before, rest)
          /\ xBlockSize' = Insertion(S1, L1, before, rest).sizes
          /\ pxNextFreeBlock' = Insertion(S1, L1, before, rest).list
    BY <1>9, <1>12 DEF Split
  <2>2. size < xBlockSize[block]
    BY <1>2, <1>6, <1>12, HeapAssumption DEF heapMINIMUM_BLOCK_SIZE
  <2>3. Loose(S1, L1, A1, rest)
    BY <1>2, <1>7, <1>10, <2>2, SplitLoose DEF Blocks
  <2>a. /\ Allocated \subseteq Blocks
        /\ block \in Blocks
    BY <1>4, <1>5 DEF Blocks, Sound, Nodes, FreeBlocks
  <2>4. /\ S1[block] = size
        /\ \A b \in Allocated : (b # rest /\ b # block => S1[b] = xBlockSize[b])
    BY <2>a
  <2>5. rest \notin A1
    BY <2>3 DEF Loose
  <2> HIDE DEF S1, rest
  <2>6. /\ Sound(xBlockSize', pxNextFreeBlock', A1)
        /\ \A b \in A1 : xBlockSize'[b] = S1[b]
    BY <2>1, <2>3, InsertionSound
  <2>7. Sound(xBlockSize, pxNextFreeBlock, Allocated)'
    BY <1>8, <2>6
  <2>8. Reserved'
    <3>1. ASSUME NEW b \in Allocated
          PROVE  asked'[b] \in Nat \ {0} /\ asked'[b] + xHeapStructSize <= xBlockSize'[b]
      <4>1. b # block /\ b # rest /\ b \in A1
        BY <1>6, <2>5 DEF A1
      <4>2. xBlockSize'[b] = xBlockSize[b]
        BY <2>4, <2>6, <4>1
      <4> QED
        BY <1>8, <4>2 DEF HeapInv, Reserved
    <3>2. asked'[block] \in Nat \ {0} /\ asked'[block] + xHeapStructSize <= xBlockSize'[block]
      BY <1>2, <1>8, <1>10, <2>4, <2>6
    <3> QED
      BY <1>8, <3>1, <3>2 DEF A1, Reserved
  <2> QED
    BY <1>6, <1>8, <2>7, <2>8 DEF HeapInv, A1
<1> QED
  BY <1>11, <1>12

LEMMA HeapInvStep == HeapInv /\ [HeapNext]_heapVars => HeapInv'
<1> SUFFICES ASSUME HeapInv, [HeapNext]_heapVars
             PROVE  HeapInv'
  OBVIOUS
<1>1. ASSUME NEW wanted \in Requests, pvPortMalloc(wanted) PROVE HeapInv'
  BY <1>1, MallocInv
<1>2. ASSUME NEW block \in Allocated, vPortFree(block) PROVE HeapInv'
  BY <1>2, FreeInv
<1>3. CASE UNCHANGED heapVars
  BY <1>3 DEF heapVars, HeapInv, Reserved, Allocated
<1> QED
  BY <1>1, <1>2, <1>3 DEF HeapNext

\* The counters in the calls.
LEMMA FreeBytesOwned == FreeBytes = Owned(xBlockSize, pxNextFreeBlock)
  BY DEF FreeBytes, Owned, Bytes, FreeBlocks, Nodes

LEMMA CountedInit == HeapInit => BytesCounted
<1> SUFFICES ASSUME HeapInit PROVE BytesCounted
  OBVIOUS
<1>1. Sizes(xBlockSize) /\ pxFirst \in DOMAIN xBlockSize
  BY HeapInvInit DEF HeapInv, Sound, Tiles
<1>2. /\ pxFirst \in Nat /\ pxEnd \in Nat /\ pxFirst < pxEnd /\ xStart < 0
  BY RoomAssumption DEF xStart
<1>3. FreeBlocks = {pxFirst}
  BY <1>2 DEF HeapInit, FreeBlocks
<1>4. FreeBytes = Bytes(xBlockSize, pxFirst)
  BY <1>3 DEF FreeBytes, Bytes
<1>5. Cardinality(FreeBytes) = xBlockSize[pxFirst]
  BY <1>1, <1>4, BytesOf
<1>6. xBlockSize[pxFirst] = pxEnd - pxFirst
  BY DEF HeapInit
<1> QED
  BY <1>2, <1>5, <1>6 DEF HeapInit, BytesCounted

LEMMA CountedFree ==
    ASSUME HeapInv, BytesCounted, NEW block \in Allocated, vPortFree(block)
    PROVE  BytesCounted'
<1>1. PICK before \in DOMAIN pxNextFreeBlock :
        /\ Precedes(pxNextFreeBlock, before, block)
        /\ xBlockSize' = Insertion(xBlockSize, pxNextFreeBlock, before, block).sizes
        /\ pxNextFreeBlock' = Insertion(xBlockSize, pxNextFreeBlock, before, block).list
  BY DEF vPortFree
<1>2. PICK A : A = Allocated \ {block}
  OBVIOUS
<1>3. Loose(xBlockSize, pxNextFreeBlock, A, block) /\ block \in DOMAIN xBlockSize
  <2>1. block # xStart /\ block \in DOMAIN xBlockSize
    BY DEF HeapInv, Sound, Sizes, xStart
  <2>2. /\ DOMAIN xBlockSize = Nodes(pxNextFreeBlock) \cup A \cup {block}
        /\ block \notin A /\ block \notin DOMAIN pxNextFreeBlock
        /\ A \cap Nodes(pxNextFreeBlock) = {}
    BY <1>2, <2>1 DEF HeapInv, Sound, Nodes
  <2> QED
    BY <2>1, <2>2 DEF HeapInv, Sound, Loose
<1>4. Cardinality(Owned(xBlockSize', pxNextFreeBlock'))
        = Cardinality(Owned(xBlockSize, pxNextFreeBlock)) + xBlockSize[block]
  BY <1>1, <1>3, InsertionBytes
<1>5. Cardinality(FreeBytes)' = Cardinality(FreeBytes) + xBlockSize[block]
  BY <1>4, FreeBytesOwned DEF FreeBytes, FreeBlocks, Owned, Nodes, Bytes
<1>6. Cardinality(FreeBytes) \in Nat /\ xBlockSize[block] \in Nat
  BY <1>3, FreeBytesOwned, OwnedFinite DEF HeapInv, Sound, Sizes
<1> QED
  BY <1>5, <1>6 DEF vPortFree, BytesCounted

LEMMA CountedMalloc ==
    ASSUME HeapInv, BytesCounted, NEW wanted \in Requests, pvPortMalloc(wanted)
    PROVE  BytesCounted'
<1>1. PICK size : size = SizeWithHeader(wanted)
  OBVIOUS
<1>2. size \in Nat \ {0}
  BY <1>1, SizeSuffices DEF pvPortMalloc
<1>3. PICK previous \in DOMAIN pxNextFreeBlock :
        /\ FirstFit(previous, size)
        /\ LET block == pxNextFreeBlock[previous]
           IN  IF xBlockSize[block] - size > heapMINIMUM_BLOCK_SIZE
               THEN Split(block, size, Unlinked(previous, block))
               ELSE TakeWhole(block, Unlinked(previous, block))
  BY <1>1 DEF pvPortMalloc
<1>4. PICK block, L1, A1 :
        /\ block = pxNextFreeBlock[previous] /\ L1 = Unlinked(previous, block)
        /\ A1 = Allocated \cup {block}
  OBVIOUS
<1>5. /\ IF xBlockSize[block] - size > heapMINIMUM_BLOCK_SIZE
         THEN Split(block, size, L1) ELSE TakeWhole(block, L1)
  BY <1>3, <1>4
<1>6. Sound(xBlockSize, pxNextFreeBlock, Allocated)
  BY DEF HeapInv
<1>7. block \in DOMAIN xBlockSize /\ block # pxEnd /\ xBlockSize[block] \in Nat \ {0}
  <2>1. block \in DOMAIN xBlockSize
    BY <1>3, <1>4, <1>6 DEF FirstFit, Sound, Nodes, FreeBlocks
  <2>2. /\ block \in Nat /\ xBlockSize[block] \in Nat \ {0}
        /\ block + xBlockSize[block] <= pxEnd
    BY <1>6, <2>1 DEF Sound, Sizes
  <2> QED
    BY <2>1, <2>2, RoomAssumption
<1>8. Sound(xBlockSize, L1, A1)
  BY <1>4, <1>6, <1>7, UnlinkSound DEF Unlinked
<1>9. /\ Cardinality(Owned(xBlockSize, L1))
           = Cardinality(Owned(xBlockSize, pxNextFreeBlock)) - xBlockSize[block]
      /\ Nodes(L1) \subseteq DOMAIN xBlockSize
  <2>1. DOMAIN L1 = DOMAIN pxNextFreeBlock \ {pxNextFreeBlock[previous]}
    BY <1>4 DEF Unlinked
  <2>2. pxNextFreeBlock[previous] # pxEnd
    BY <1>4, <1>7
  <2>3. /\ Cardinality(Owned(xBlockSize, L1))
             = Cardinality(Owned(xBlockSize, pxNextFreeBlock)) - xBlockSize[pxNextFreeBlock[previous]]
        /\ Nodes(L1) \subseteq DOMAIN xBlockSize
    BY <1>6, <2>1, <2>2, UnlinkBytes
  <2> QED
    BY <1>4, <2>3
<1>10. PICK free, old, least \in Nat :
          /\ free = xFreeBytesRemaining
          /\ free = Cardinality(Owned(xBlockSize, pxNextFreeBlock))
          /\ least = xMinimumEverFreeBytesRemaining /\ least <= free
          /\ old = xBlockSize[block]
  <2>1. Cardinality(Owned(xBlockSize, pxNextFreeBlock)) \in Nat
    BY <1>6, OwnedFinite DEF Sound
  <2> QED
    BY <1>7, <2>1, FreeBytesOwned DEF BytesCounted
<1>11. Cardinality(Owned(xBlockSize, L1)) \in Nat
  BY <1>8, <1>9, OwnedFinite DEF Sound
<1>12. FreeBytes' = Owned(xBlockSize', pxNextFreeBlock')
  BY DEF FreeBytes, FreeBlocks, Owned, Nodes, Bytes
<1>13. CASE ~(xBlockSize[block] - size > heapMINIMUM_BLOCK_SIZE)
  <2>1. xBlockSize' = xBlockSize /\ pxNextFreeBlock' = L1 /\ Account(free - old)
    BY <1>5, <1>10, <1>13 DEF TakeWhole
  <2>2. Cardinality(FreeBytes)' = free - old /\ free - old \in Nat
    BY <1>9, <1>10, <1>11, <1>12, <2>1
  <2> QED
    BY <1>10, <2>1, <2>2 DEF Account, BytesCounted
<1>14. CASE xBlockSize[block] - size > heapMINIMUM_BLOCK_SIZE
  <2>1. PICK rest, S1 :
          /\ rest = block + size
          /\ S1 = [b \in DOMAIN xBlockSize \cup {rest} |->
                     IF b = block THEN size
                     ELSE IF b = rest THEN xBlockSize[block] - size ELSE xBlockSize[b]]
    OBVIOUS
  <2>2. PICK before \in DOMAIN L1 :
          /\ Precedes(L1, before, rest)
          /\ xBlockSize' = Insertion(S1, L1, before, rest).sizes
          /\ pxNextFreeBlock' = Insertion(S1, L1, before, rest).list
          /\ Account(xFreeBytesRemaining - size)
    BY <1>5, <1>14, <2>1 DEF Split, Blocks
  <2>3. size < xBlockSize[block]
    BY <1>2, <1>7, <1>14, HeapAssumption DEF heapMINIMUM_BLOCK_SIZE
  <2>4. Loose(S1, L1, A1, rest)
    BY <1>2, <1>4, <1>8, <2>1, <2>3, SplitLoose
  <2>5. S1[rest] = old - size /\ rest \notin Nodes(L1) /\ block \notin Nodes(L1)
    <3>1. rest \notin Nodes(L1) /\ block \notin Nodes(L1)
      BY <1>4, <1>8, <2>4 DEF Loose, Sound, Nodes
    <3>2. block \in Nat /\ rest # block
      BY <1>2, <1>6, <1>7, <2>1 DEF Sound, Sizes
    <3> QED
      BY <1>10, <2>1, <3>1, <3>2
  <2>6. Owned(S1, L1) = Owned(xBlockSize, L1)
    <3>1. \A b \in Nodes(L1) : S1[b] = xBlockSize[b]
      BY <1>9, <2>1, <2>5
    <3> QED
      BY <3>1, SameOwned
  <2>7. Cardinality(Owned(xBlockSize', pxNextFreeBlock'))
          = Cardinality(Owned(S1, L1)) + S1[rest]
    BY <2>2, <2>4, InsertionBytes
  <2>8. Cardinality(FreeBytes)' = free - size
    <3>1. Cardinality(Owned(xBlockSize, L1)) = free - old
      BY <1>9, <1>10
    <3>2. Cardinality(FreeBytes)' = (free - old) + (old - size)
      BY <1>12, <2>5, <2>6, <2>7, <3>1
    <3> QED
      BY <1>2, <1>10, <3>2
  <2>9. free - size \in Nat
    BY <1>2, <1>7, <1>9, <1>10, <1>11, <2>3
  <2>10. PICK remaining \in Nat : remaining = free - size
    BY <2>9
  <2>11. Account(remaining)
    BY <1>10, <2>2, <2>10
  <2>12. /\ xFreeBytesRemaining' = remaining
         /\ xMinimumEverFreeBytesRemaining' \in 0..remaining
    BY <1>10, <2>10, <2>11 DEF Account
  <2> QED
    BY <2>8, <2>10, <2>12 DEF BytesCounted
<1> QED
  BY <1>13, <1>14

LEMMA CountedStep == HeapInv /\ BytesCounted /\ [HeapNext]_heapVars => BytesCounted'
<1> SUFFICES ASSUME HeapInv, BytesCounted, [HeapNext]_heapVars PROVE BytesCounted'
  OBVIOUS
<1>1. CASE UNCHANGED heapVars
  BY <1>1 DEF heapVars, BytesCounted, FreeBytes, FreeBlocks
<1> QED
  BY <1>1, CountedFree, CountedMalloc DEF HeapNext

LEMMA InvIsSound == HeapInv /\ BytesCounted => HeapIsSound
<1> SUFFICES ASSUME HeapInv, BytesCounted PROVE HeapIsSound
  OBVIOUS
<1>1. Tiled
  BY DEF HeapInv, Sound, Tiles, Tiled, Blocks
<1>2. Linked
  BY DEF HeapInv, Sound, Ordered, Covers, Nodes, Linked, Blocks, FreeBlocks
<1>3. Coalesced
  BY DEF HeapInv, Sound, Apart2, Nodes, Coalesced, FreeBlocks
<1> QED
  BY <1>1, <1>2, <1>3 DEF HeapIsSound

\* The blocks fill the heap without a gap, the list of the free ones is in order, no
\* two of them are neighbours, and their bytes are counted: for every heap and every
\* requests to heap_4.c.
THEOREM MemoryIsNotLost == HeapSpec => []HeapIsSound
<1>1. HeapInit => HeapInv /\ BytesCounted
  BY HeapInvInit, CountedInit
<1>2. HeapInv /\ BytesCounted /\ [HeapNext]_heapVars => (HeapInv /\ BytesCounted)'
  BY HeapInvStep, CountedStep
<1> QED
  BY <1>1, <1>2, InvIsSound, PTL DEF HeapSpec

-------------------------------------------------------------------------------
\* The pieces that the callers have, and how they lie.
Piece(b) == [at |-> b + xHeapStructSize, bytes |-> asked[b]]
Pieces == { Piece(b) : b \in Allocated }

Layout ==
    /\ \A b \in Allocated : /\ b \in Nat /\ asked[b] \in Nat \ {0}
                           /\ pxFirst <= b + xHeapStructSize
                           /\ b + xHeapStructSize + asked[b] <= pxEnd
    /\ \A b, c \in Allocated :
          (b < c => b + xHeapStructSize + asked[b] <= c + xHeapStructSize)

LEMMA PiecesApart == HeapInv => Layout
<1> SUFFICES ASSUME HeapInv PROVE Layout
  OBVIOUS
<1>1. \A b \in Allocated : b \in DOMAIN xBlockSize
  BY DEF HeapInv, Sound
<1>2. \A b \in Allocated : /\ b \in Nat /\ xBlockSize[b] \in Nat
                           /\ pxFirst <= b /\ b + xBlockSize[b] <= pxEnd
  BY <1>1 DEF HeapInv, Sound, Sizes
<1>3. \A b \in Allocated : asked[b] \in Nat \ {0} /\ asked[b] + xHeapStructSize <= xBlockSize[b]
  BY DEF HeapInv, Reserved
<1>4. \A b, c \in Allocated : (b < c => b + xBlockSize[b] <= c)
  BY <1>1 DEF HeapInv, Sound, Tiles
<1> QED
  BY <1>2, <1>3, <1>4, HeapAssumption, RoomAssumption DEF Layout

\* A request that is met takes memory nobody has.
LEMMA MallocAllocates ==
    ASSUME HeapInv, NEW wanted \in Requests, pvPortMalloc(wanted)
    PROVE  \E piece \in Pieces' : Memory!Allocate(piece)
<1>1. HeapInv'
  BY MallocInv
<1>2. PICK block : /\ block \notin Allocated /\ Allocated' = Allocated \cup {block}
                   /\ asked'[block] = wanted
                   /\ \A b \in Allocated : asked'[b] = asked[b]
  BY MallocInv
<1>3. /\ \A b \in Allocated' : /\ b \in Nat /\ asked'[b] \in Nat \ {0}
                               /\ pxFirst <= b + xHeapStructSize
                               /\ b + xHeapStructSize + asked'[b] <= pxEnd
      /\ \A b, c \in Allocated' :
            (b < c => b + xHeapStructSize + asked'[b] <= c + xHeapStructSize)
  <2>1. Layout'
    BY <1>1, PiecesApart, PTL
  <2> QED
    BY <2>1 DEF Layout
<1> DEFINE piece == [at |-> block + xHeapStructSize, bytes |-> wanted]
<1>4. Pieces' = Pieces \cup {piece}
  BY <1>2 DEF Pieces, Piece
<1>5. /\ piece.bytes > 0
      /\ pxFirst <= piece.at /\ piece.at + piece.bytes <= (pxEnd - 1) + 1
  BY <1>2, <1>3, RoomAssumption, HeapAssumption
<1>6. ASSUME NEW p \in Pieces PROVE Memory!Apart(piece, p)
  <2>1. PICK b \in Allocated : p = Piece(b)
    BY <1>6 DEF Pieces
  <2>2. b < block \/ block < b
    BY <1>2, <1>3
  <2> QED
    BY <1>2, <1>3, <2>1, <2>2, HeapAssumption DEF Piece, Memory!Apart
<1>7. Memory!Allocate(piece)
  BY <1>4, <1>5, <1>6 DEF Memory!Allocate, Pieces, Piece
<1> QED
  BY <1>4, <1>7

\* What is given back is what was taken.
LEMMA FreeReleases ==
    ASSUME HeapInv, NEW block \in Allocated, vPortFree(block)
    PROVE  \E piece \in Pieces : Memory!Release(piece)
<1>1. /\ Allocated' = Allocated \ {block}
      /\ \A b \in Allocated' : asked'[b] = asked[b]
  BY DEF vPortFree, Allocated
<1>2. \A b \in Allocated : b \in Nat
  BY PiecesApart DEF Layout
<1>3. \A b \in Allocated : (Piece(b) = Piece(block) => b = block)
  BY <1>2, HeapAssumption DEF Piece
<1>4. Pieces' = Pieces \ {Piece(block)}
  BY <1>1, <1>3 DEF Pieces, Piece
<1> QED
  BY <1>4 DEF Memory!Release, Pieces, Piece

\* Nobody has memory that another has, nor less than was asked for: heap_4.c
\* implements the abstract allocator.
THEOREM HeapAllocates == HeapSpec => MemoryIsExclusive
<1>1. HeapInit => Memory!Init
  BY DEF HeapInit, Memory!Init, Allocated
<1>2. HeapInv /\ [HeapNext]_heapVars => [Memory!Next]_Pieces
  <2> SUFFICES ASSUME HeapInv, [HeapNext]_heapVars
               PROVE  [Memory!Next]_Pieces
    OBVIOUS
  <2>1. ASSUME NEW wanted \in Requests, pvPortMalloc(wanted) PROVE Memory!Next
    BY <2>1, MallocAllocates DEF Memory!Next, Pieces, Piece
  <2>2. ASSUME NEW block \in Allocated, vPortFree(block) PROVE Memory!Next
    BY <2>2, FreeReleases DEF Memory!Next, Pieces, Piece
  <2>3. CASE UNCHANGED heapVars
    BY <2>3 DEF heapVars, Pieces, Piece, Allocated
  <2> QED
    BY <2>1, <2>2, <2>3 DEF HeapNext
<1> QED
  BY <1>1, <1>2, HeapInvInit, HeapInvStep, PTL
  DEF HeapSpec, MemoryIsExclusive, Memory!Spec, Pieces, Piece

-------------------------------------------------------------------------------
\* The inductive invariant of the event groups

\* A task is in the list, or has been woken, during a call.
EventsTyped ==
    /\ calling \in [Tasks -> EventCalls \cup {NoCall}]
    /\ entered \in [Tasks -> Nat] /\ left \in [Tasks -> Nat]
    /\ Waiting \subseteq Tasks /\ DOMAIN eventItem \subseteq Tasks
    /\ \A t \in Waiting :
         /\ calling[t] \in EventCalls
         /\ xTasksWaitingForBits[t] = Want(calling[t])
         /\ t \notin DOMAIN eventItem
    /\ \A t \in DOMAIN eventItem : calling[t] \in EventCalls
    /\ \A t \in Tasks : calling[t] # NoCall => calling[t].task = t /\ calling[t].kind \in {"wait", "sync"}

EventInv == EventsTyped /\ NobodyWaitsForSetBits /\ WokenForItsBits

LEMMA CallFacts ==
    /\ NoCall \notin EventCalls
    /\ \A c \in EventCalls : c.task \in Tasks /\ c.kind \in EventKinds
<1>1. \A c \in EventCalls : c.task \in Tasks /\ c.kind \in EventKinds
  BY EventAssumption
<1>2. NoCall.kind \notin EventKinds
  BY DEF NoCall, EventKinds
<1> QED
  BY <1>1, <1>2

\* Fewer bits wake nobody else.
LEMMA FewerBits ==
    ASSUME NEW bits, NEW fewer, fewer \subseteq bits, NEW want, want.all \in BOOLEAN,
           ~TestWaitCondition(bits, want)
    PROVE  ~TestWaitCondition(fewer, want)
  BY DEF TestWaitCondition

\* The list without the tasks that were woken.
LEMMA UnlistedFacts ==
    ASSUME NEW W
    PROVE  /\ DOMAIN Unlisted(W) = Waiting \ W
           /\ \A t \in Waiting \ W : Unlisted(W)[t] = xTasksWaitingForBits[t]
  BY DEF Unlisted

\* The list with one more task.
LEMMA ListedFacts ==
    ASSUME NEW list, NEW t, NEW want
    PROVE  /\ DOMAIN Listed(list, t, want) = DOMAIN list \cup {t}
           /\ Listed(list, t, want)[t] = want
           /\ \A u \in DOMAIN list : u # t => Listed(list, t, want)[u] = list[u]
  BY DEF Listed

\* The three of them as the step leaves the variables.
LEMMA AfterWake ==
    ASSUME NEW W, W \subseteq Waiting, NEW bits,
           xTasksWaitingForBits' = Unlisted(W), eventItem' = StoredItems(W, bits)
    PROVE  /\ Waiting' = Waiting \ W
           /\ \A t \in Waiting \ W : xTasksWaitingForBits'[t] = xTasksWaitingForBits[t]
           /\ DOMAIN eventItem' = DOMAIN eventItem \cup W
           /\ \A t \in W : eventItem'[t] = bits
           /\ \A t \in DOMAIN eventItem : t \notin W => eventItem'[t] = eventItem[t]
<1>1. Waiting' = DOMAIN xTasksWaitingForBits'
  BY DEF Waiting
<1>2. Waiting' = Waiting \ W
  BY <1>1, UnlistedFacts
<1>3. \A t \in Waiting \ W : xTasksWaitingForBits'[t] = xTasksWaitingForBits[t]
  BY UnlistedFacts
<1>4. /\ DOMAIN eventItem' = DOMAIN eventItem \cup W
      /\ \A t \in W : eventItem'[t] = bits
      /\ \A t \in DOMAIN eventItem : t \notin W => eventItem'[t] = eventItem[t]
  BY DEF StoredItems
<1> QED
  BY <1>2, <1>3, <1>4

\* What every step does to the list: whoever stays in it, or is new in it, lacks
\* bits, and whoever leaves it with an item takes the bits that woke it.
LEMMA ListStep ==
    ASSUME EventInv, EventsTyped', NEW bits, uxEventBits' \subseteq bits,
           NEW new, new \cap DOMAIN eventItem = {},
           Waiting' \subseteq (Waiting \ Woken(bits)) \cup new,
           \A t \in Waiting' \ new : xTasksWaitingForBits'[t] = xTasksWaitingForBits[t],
           \A t \in new \cap Waiting' : ~TestWaitCondition(uxEventBits', xTasksWaitingForBits'[t]),
           DOMAIN eventItem' \subseteq DOMAIN eventItem \cup Woken(bits),
           \A t \in DOMAIN eventItem' \cap Woken(bits) : eventItem'[t] = bits,
           \A t \in DOMAIN eventItem' \ Woken(bits) : eventItem'[t] = eventItem[t],
           \A t \in DOMAIN eventItem' : calling'[t] = calling[t]
    PROVE  EventInv'
<1>1. NobodyWaitsForSetBits'
  <2> SUFFICES ASSUME NEW t \in Waiting'
               PROVE  ~TestWaitCondition(uxEventBits', xTasksWaitingForBits'[t])
    BY DEF NobodyWaitsForSetBits, TestWaitCondition
  <2>1. CASE t \in new
    BY <2>1
  <2>2. CASE t \notin new
    <3>1. t \in Waiting /\ xTasksWaitingForBits'[t] = xTasksWaitingForBits[t]
      BY <2>2
    <3>2. ~TestWaitCondition(bits, xTasksWaitingForBits[t])
      BY <2>2, <3>1 DEF Woken
    <3>3. xTasksWaitingForBits[t] = Want(calling[t]) /\ calling[t] \in EventCalls
      BY <3>1 DEF EventInv, EventsTyped
    <3>4. xTasksWaitingForBits[t].all \in BOOLEAN
      BY <3>3, EventAssumption DEF Want
    <3> QED
      BY <3>1, <3>2, <3>4, FewerBits
  <2> QED
    BY <2>1, <2>2
<1>2. WokenForItsBits'
  <2> SUFFICES ASSUME NEW t \in DOMAIN eventItem'
               PROVE  TestWaitCondition(eventItem'[t], Want(calling'[t]))
    BY DEF WokenForItsBits, TestWaitCondition, Want
  <2>1. CASE t \in Woken(bits)
    <3>1. t \in Waiting /\ TestWaitCondition(bits, xTasksWaitingForBits[t])
      BY <2>1 DEF Woken
    <3>2. xTasksWaitingForBits[t] = Want(calling[t])
      BY <3>1 DEF EventInv, EventsTyped
    <3> QED
      BY <2>1, <3>1, <3>2
  <2>2. CASE t \notin Woken(bits)
    BY <2>2 DEF EventInv, WokenForItsBits
  <2> QED
    BY <2>1, <2>2
<1> QED
  BY <1>1, <1>2 DEF EventInv

\* Bits that are set already wake nobody.
LEMMA NobodyToWake ==
    ASSUME EventInv
    PROVE  Woken(uxEventBits) = {}
  BY DEF EventInv, NobodyWaitsForSetBits, Woken

LEMMA SetBitsKeepsInv ==
    ASSUME EventInv, NEW set, SetBits(set), UNCHANGED <<calling, entered, left>>
    PROVE  EventInv'
<1>1. PICK bits : bits = uxEventBits \cup set
  OBVIOUS
<1>2. PICK W : W = Woken(bits)
  OBVIOUS
<1>3. /\ uxEventBits' \subseteq bits
      /\ xTasksWaitingForBits' = Unlisted(W) /\ eventItem' = StoredItems(W, bits)
  BY <1>1, <1>2 DEF SetBits
<1>4. W \subseteq Waiting
  BY <1>2 DEF Woken
<1>5. /\ Waiting' = Waiting \ W
      /\ \A t \in Waiting \ W : xTasksWaitingForBits'[t] = xTasksWaitingForBits[t]
      /\ DOMAIN eventItem' = DOMAIN eventItem \cup W
      /\ \A t \in W : eventItem'[t] = bits
      /\ \A t \in DOMAIN eventItem : t \notin W => eventItem'[t] = eventItem[t]
  BY <1>3, <1>4, AfterWake
<1>6. EventsTyped'
  BY <1>4, <1>5 DEF EventInv, EventsTyped
<1>7. PICK new : new = {}
  OBVIOUS
<1> QED
  BY <1>2, <1>3, <1>4, <1>5, <1>6, <1>7, ListStep

LEMMA ClearBitsKeepsInv ==
    ASSUME EventInv, NEW clear, ClearBits(clear), UNCHANGED <<calling, entered, left>>
    PROVE  EventInv'
<1>1. /\ Waiting' = Waiting /\ uxEventBits' \subseteq uxEventBits
      /\ UNCHANGED <<xTasksWaitingForBits, eventItem>>
  BY DEF ClearBits, Waiting
<1>2. EventsTyped'
  BY <1>1 DEF EventInv, EventsTyped
<1>3. Woken(uxEventBits) = {}
  BY NobodyToWake
<1>4. PICK new : new = {}
  OBVIOUS
<1> QED
  BY <1>1, <1>2, <1>3, <1>4, ListStep

LEMMA WaitBitsKeepsInv ==
    ASSUME EventInv, NEW t \in Tasks, calling[t] = NoCall, NEW c \in EventCalls, c.task = t,
           WaitBits(t, c)
    PROVE  EventInv'
<1>1. Woken(uxEventBits) = {}
  BY NobodyToWake
<1>2. t \notin Waiting /\ t \notin DOMAIN eventItem
  BY CallFacts DEF EventInv, EventsTyped
<1>3. /\ uxEventBits' \subseteq uxEventBits /\ UNCHANGED <<eventItem, entered>>
      /\ c.kind = "wait"
  BY DEF WaitBits
<1>4. CASE UNCHANGED <<xTasksWaitingForBits, calling, left>>
  <2>1. Waiting' = Waiting
    BY <1>4 DEF Waiting
  <2>2. EventsTyped'
    BY <1>3, <1>4, <2>1 DEF EventInv, EventsTyped
  <2>3. PICK new : new = {}
    OBVIOUS
  <2> QED
    BY <1>1, <1>3, <1>4, <2>1, <2>2, <2>3, ListStep
<1>5. CASE /\ ~TestWaitCondition(uxEventBits, Want(c))
           /\ xTasksWaitingForBits' = Listed(xTasksWaitingForBits, t, Want(c))
           /\ WaitsForBits(t, c)
  <2>1. DOMAIN xTasksWaitingForBits' = Waiting \cup {t}
    BY <1>5, ListedFacts DEF Waiting
  <2>2. /\ Waiting' = Waiting \cup {t}
        /\ xTasksWaitingForBits'[t] = Want(c)
        /\ \A u \in Waiting : xTasksWaitingForBits'[u] = xTasksWaitingForBits[u]
    <3>1. t \notin DOMAIN xTasksWaitingForBits
      BY <1>2 DEF Waiting
    <3>2. /\ xTasksWaitingForBits'[t] = Want(c)
          /\ \A u \in DOMAIN xTasksWaitingForBits : xTasksWaitingForBits'[u] = xTasksWaitingForBits[u]
      <4>1. /\ Listed(xTasksWaitingForBits, t, Want(c))[t] = Want(c)
            /\ \A u \in DOMAIN xTasksWaitingForBits :
                 u # t => Listed(xTasksWaitingForBits, t, Want(c))[u] = xTasksWaitingForBits[u]
        BY DEF Listed
      <4> QED
        BY <1>5, <3>1, <4>1
    <3> QED
      BY <2>1, <3>2 DEF Waiting
  <2>3. left' = left /\ calling' = [calling EXCEPT ![t] = c]
    BY <1>5 DEF WaitsForBits
  <2>4. \A u \in Tasks : calling'[u] = IF u = t THEN c ELSE calling[u]
    BY <2>3 DEF EventInv, EventsTyped
  <2>5. EventsTyped'
    BY <1>2, <1>3, <2>2, <2>3, <2>4 DEF EventInv, EventsTyped
  <2>6. Want(c).all \in BOOLEAN
    BY EventAssumption DEF Want
  <2>7. ~TestWaitCondition(uxEventBits', Want(c))
    BY <1>3, <1>5, <2>6, FewerBits
  <2>8. PICK new : new = {t}
    OBVIOUS
  <2>9. DOMAIN eventItem \subseteq Tasks
    BY DEF EventInv, EventsTyped
  <2> QED
    BY <1>1, <1>2, <1>3, <2>2, <2>4, <2>5, <2>7, <2>8, <2>9, ListStep
<1> QED
  BY <1>3, <1>4, <1>5 DEF WaitBits, Returns

LEMMA SyncKeepsInv ==
    ASSUME EventInv, NEW t \in Tasks, calling[t] = NoCall, NEW c \in EventCalls, c.task = t,
           Sync(t, c)
    PROVE  EventInv'
<1>1. PICK bits : bits = uxEventBits \cup c.set
  OBVIOUS
<1>2. PICK W : W = Woken(bits)
  OBVIOUS
<1>3. W \subseteq Waiting
  BY <1>2 DEF Woken
<1>4. t \notin Waiting /\ t \notin DOMAIN eventItem
  BY CallFacts DEF EventInv, EventsTyped
<1>5. /\ c.kind = "sync" /\ uxEventBits' \subseteq bits
      /\ entered' = [entered EXCEPT ![t] = @ + 1] /\ eventItem' = StoredItems(W, bits)
  BY <1>1, <1>2 DEF Sync
<1>6. entered' \in [Tasks -> Nat]
  BY <1>5 DEF EventInv, EventsTyped
<1>7. /\ DOMAIN Unlisted(W) = Waiting \ W
      /\ \A u \in Waiting \ W : Unlisted(W)[u] = xTasksWaitingForBits[u]
      /\ DOMAIN eventItem' = DOMAIN eventItem \cup W
      /\ \A u \in W : eventItem'[u] = bits
      /\ \A u \in DOMAIN eventItem : u \notin W => eventItem'[u] = eventItem[u]
  <2>1. /\ DOMAIN Unlisted(W) = Waiting \ W
        /\ \A u \in Waiting \ W : Unlisted(W)[u] = xTasksWaitingForBits[u]
    BY UnlistedFacts
  <2>2. /\ DOMAIN eventItem' = DOMAIN eventItem \cup W
        /\ \A u \in W : eventItem'[u] = bits
        /\ \A u \in DOMAIN eventItem : u \notin W => eventItem'[u] = eventItem[u]
    BY <1>5 DEF StoredItems
  <2> QED
    BY <2>1, <2>2
<1>8. CASE /\ xTasksWaitingForBits' = Unlisted(W) /\ UNCHANGED calling
           /\ \E late \in BOOLEAN : Returns(t, c, late)
  <2>1. left' \in [Tasks -> Nat]
    BY <1>8 DEF Returns, EventInv, EventsTyped
  <2>2. /\ Waiting' = Waiting \ W
        /\ \A u \in Waiting \ W : xTasksWaitingForBits'[u] = xTasksWaitingForBits[u]
    BY <1>7, <1>8 DEF Waiting
  <2>3. EventsTyped'
    BY <1>3, <1>6, <1>7, <1>8, <2>1, <2>2 DEF EventInv, EventsTyped
  <2>4. PICK new : new = {}
    OBVIOUS
  <2> QED
    BY <1>2, <1>3, <1>5, <1>7, <1>8, <2>2, <2>3, <2>4, ListStep
<1>9. CASE /\ ~SyncMet(c) /\ WaitsForBits(t, c)
           /\ xTasksWaitingForBits' = Listed(Unlisted(W), t, Want(c))
  <2>1. /\ DOMAIN xTasksWaitingForBits' = (Waiting \ W) \cup {t}
        /\ xTasksWaitingForBits'[t] = Want(c)
        /\ \A u \in Waiting \ W : xTasksWaitingForBits'[u] = xTasksWaitingForBits[u]
    BY <1>4, <1>7, <1>9, ListedFacts
  <2>2. Waiting' = (Waiting \ W) \cup {t}
    BY <2>1 DEF Waiting
  <2>3. left' = left /\ calling' = [calling EXCEPT ![t] = c]
    BY <1>9 DEF WaitsForBits
  <2>4. \A u \in Tasks : calling'[u] = IF u = t THEN c ELSE calling[u]
    BY <2>3 DEF EventInv, EventsTyped
  <2>5. EventsTyped'
    BY <1>3, <1>4, <1>5, <1>6, <1>7, <2>1, <2>2, <2>3, <2>4 DEF EventInv, EventsTyped
  <2>6. ~TestWaitCondition(uxEventBits', Want(c))
    BY <1>1, <1>5, <1>9 DEF SyncMet, TestWaitCondition, Want
  <2>7. PICK new : new = {t}
    OBVIOUS
  <2>8. DOMAIN eventItem \subseteq Tasks /\ Waiting \subseteq Tasks
    BY DEF EventInv, EventsTyped
  <2> QED
    BY <1>2, <1>3, <1>4, <1>5, <1>7, <2>1, <2>2, <2>4, <2>5, <2>6, <2>7, <2>8, ListStep
<1> QED
  BY <1>1, <1>2, <1>8, <1>9 DEF Sync

LEMMA TimeUpKeepsInv ==
    ASSUME EventInv, NEW t \in Tasks, TimeUp(t)
    PROVE  EventInv'
<1>1. Woken(uxEventBits) = {}
  BY NobodyToWake
<1>2. PICK W : W = {t}
  OBVIOUS
<1>3. /\ DOMAIN xTasksWaitingForBits' = Waiting \ W
      /\ \A u \in Waiting \ W : xTasksWaitingForBits'[u] = xTasksWaitingForBits[u]
  BY <1>2, UnlistedFacts DEF TimeUp
<1>4. Waiting' = Waiting \ W
  BY <1>3 DEF Waiting
<1>5. UNCHANGED <<uxEventBits, eventItem, calling, entered, left>>
  BY DEF TimeUp
<1>6. EventsTyped'
  BY <1>3, <1>4, <1>5 DEF EventInv, EventsTyped
<1>7. PICK new : new = {}
  OBVIOUS
<1> QED
  BY <1>1, <1>3, <1>4, <1>5, <1>6, <1>7, ListStep

LEMMA GoOnKeepsInv ==
    ASSUME EventInv, NEW t \in Tasks, GoOn(t)
    PROVE  EventInv'
<1>1. Woken(uxEventBits) = {}
  BY NobodyToWake
<1>2. /\ uxEventBits' \subseteq uxEventBits /\ Waiting' = Waiting /\ t \notin Waiting
      /\ DOMAIN eventItem' = DOMAIN eventItem \ {t}
      /\ \A u \in DOMAIN eventItem' : eventItem'[u] = eventItem[u]
      /\ UNCHANGED <<xTasksWaitingForBits, entered>>
      /\ calling' = [calling EXCEPT ![t] = NoCall]
  BY DEF GoOn, Waiting
<1>3. left' \in [Tasks -> Nat]
  BY DEF GoOn, Returns, EventInv, EventsTyped
<1>4. \A u \in Tasks : calling'[u] = IF u = t THEN NoCall ELSE calling[u]
  BY <1>2 DEF EventInv, EventsTyped
<1>5. EventsTyped'
  BY <1>2, <1>3, <1>4 DEF EventInv, EventsTyped
<1>6. PICK new : new = {}
  OBVIOUS
<1>7. DOMAIN eventItem \subseteq Tasks
  BY DEF EventInv, EventsTyped
<1> QED
  BY <1>1, <1>2, <1>4, <1>5, <1>6, <1>7, ListStep

LEMMA InitEvents == EventInit => EventInv
  BY DEF EventInit, GroupInit, EventInv, EventsTyped, NobodyWaitsForSetBits, WokenForItsBits,
     Waiting

LEMMA NextEvents == EventInv /\ [EventNext]_eventVars => EventInv'
<1> SUFFICES ASSUME EventInv, [EventNext]_eventVars
             PROVE  EventInv'
  OBVIOUS
<1>1. ASSUME NEW t \in Tasks, EventCall(t)
      PROVE  EventInv'
  <2>1. calling[t] = NoCall
    BY <1>1 DEF EventCall
  <2>2. PICK c \in EventCalls : c.task = t /\ (WaitBits(t, c) \/ Sync(t, c) \/ SetOrClear(t, c))
    BY <1>1 DEF EventCall
  <2>3. CASE WaitBits(t, c)
    BY <2>1, <2>2, <2>3, WaitBitsKeepsInv
  <2>4. CASE Sync(t, c)
    BY <2>1, <2>2, <2>4, SyncKeepsInv
  <2>5. CASE SetOrClear(t, c)
    BY <2>5, SetBitsKeepsInv, ClearBitsKeepsInv DEF SetOrClear
  <2> QED
    BY <2>2, <2>3, <2>4, <2>5
<1>2. ASSUME NEW t \in Tasks, TimeUp(t)
      PROVE  EventInv'
  BY <1>2, TimeUpKeepsInv
<1>3. ASSUME NEW t \in Tasks, GoOn(t)
      PROVE  EventInv'
  BY <1>3, GoOnKeepsInv
<1>4. CASE UNCHANGED <<uxEventBits, xTasksWaitingForBits, eventItem, calling, entered, left>>
  BY <1>4 DEF EventInv, EventsTyped, NobodyWaitsForSetBits, WokenForItsBits, Waiting
<1>5. CASE RunPended /\ UNCHANGED <<calling, entered, left>>
  <2>1. PICK bits : SetBits(bits) \/ ClearBits(bits)
    BY <1>5 DEF RunPended
  <2> QED
    BY <1>5, <2>1, SetBitsKeepsInv, ClearBitsKeepsInv
<1>6. CASE \E kind \in {"set", "clear"}, bit \in ISRBits : PendFromISR(kind, {bit})
  BY <1>4, <1>6 DEF PendFromISR
<1>7. CASE UNCHANGED eventVars
  BY <1>4, <1>7 DEF eventVars, groupVars
<1> QED
  BY <1>1, <1>2, <1>3, <1>5, <1>6, <1>7 DEF EventNext

LEMMA EventsInvariant == EventSpec => []EventInv
  BY InitEvents, NextEvents, PTL DEF EventSpec

-------------------------------------------------------------------------------
\* The rendezvous

\* How often a task has passed, the time included for which it was woken.
Passed(t) == left[t] + (IF t \in DOMAIN eventItem /\ calling[t].kind = "sync" THEN 1 ELSE 0)

\* Nobody is ahead of anybody; whose bit is set has come once more than everybody
\* has passed, and it stays set while its task waits.
MeetInv(Own) ==
    /\ \A t, u \in Companions : Passed(t) <= entered[u]
    /\ \A t, u \in Companions : Own[u] \in uxEventBits => Passed(t) < entered[u]
    /\ \A u \in Companions : Meeting(u) => Own[u] \in uxEventBits
    /\ pendedBits \in Seq([kind : {"set", "clear"}, bits : SUBSET (Bits \ Meet(Own))])

\* Tasks at the rendezvous wait for all of its bits, and others take none.
LEMMA MeetWaits ==
    ASSUME EventInv, NEW Own, Rendezvous(Own), NEW t \in Waiting
    PROVE  /\ Meeting(t) => /\ t \in Companions
                            /\ xTasksWaitingForBits[t].all
                            /\ xTasksWaitingForBits[t].bits = Meet(Own)
           /\ ~Meeting(t) /\ xTasksWaitingForBits[t].clear =>
                xTasksWaitingForBits[t].bits \cap Meet(Own) = {}
<1>1. /\ calling[t] \in EventCalls /\ calling[t].task = t /\ calling[t].kind \in {"wait", "sync"}
      /\ xTasksWaitingForBits[t] = Want(calling[t]) /\ t \in Tasks
  BY CallFacts DEF EventInv, EventsTyped
<1>2. CASE calling[t].kind = "sync"
  <2>1. t \in Companions
    BY <1>1, <1>2 DEF Companions
  <2>2. calling[t].bits = Meet(Own)
    BY <1>1, <1>2 DEF Rendezvous
  <2>3. Want(calling[t]).bits = Meet(Own) /\ Want(calling[t]).all
    BY <1>2, <2>2 DEF Want
  <2>4. Meeting(t)
    BY <1>2 DEF Meeting
  <2> QED
    BY <1>1, <2>1, <2>3, <2>4
<1>3. CASE calling[t].kind = "wait"
  <2>1. calling[t].clear => calling[t].bits \cap Meet(Own) = {}
    BY <1>1, <1>3 DEF Rendezvous
  <2>2. Want(calling[t]).bits = calling[t].bits
    BY DEF Want
  <2>3. Want(calling[t]).clear => calling[t].clear
    BY <1>3 DEF Want
  <2>4. ~Meeting(t)
    BY <1>3 DEF Meeting
  <2> QED
    BY <1>1, <2>1, <2>2, <2>3, <2>4
<1> QED
  BY <1>1, <1>2, <1>3

\* Bits wake the tasks at the rendezvous if all of its bits are there, and none
\* of them otherwise; then nobody who is woken takes one of those bits.
LEMMA MeetWakes ==
    ASSUME EventInv, NEW Own, Rendezvous(Own), NEW bits
    PROVE  /\ Meet(Own) \subseteq bits => \A t \in Waiting : Meeting(t) => t \in Woken(bits)
           /\ ~(Meet(Own) \subseteq bits) =>
                /\ \A t \in Woken(bits) : ~Meeting(t)
                /\ Taken(Woken(bits)) \cap Meet(Own) = {}
<1>1. ASSUME Meet(Own) \subseteq bits, NEW t \in Waiting, Meeting(t)
      PROVE  t \in Woken(bits)
  BY <1>1, MeetWaits DEF Woken, TestWaitCondition
<1>2. ASSUME ~(Meet(Own) \subseteq bits), NEW t \in Woken(bits)
      PROVE  ~Meeting(t)
  BY <1>2, MeetWaits DEF Woken, TestWaitCondition
<1>3. ASSUME ~(Meet(Own) \subseteq bits), NEW bit \in Taken(Woken(bits))
      PROVE  bit \notin Meet(Own)
  <2>1. PICK t \in Woken(bits) : xTasksWaitingForBits[t].clear /\ bit \in xTasksWaitingForBits[t].bits
    BY <1>3 DEF Taken
  <2>2. t \in Waiting /\ ~Meeting(t)
    BY <1>2, <1>3 DEF Woken
  <2> QED
    BY <2>1, <2>2, MeetWaits
<1> QED
  BY <1>1, <1>2, <1>3

\* As long as a task waits at the rendezvous, one of its bits is missing.
LEMMA StillMeeting ==
    ASSUME EventInv, NEW Own, Rendezvous(Own), NEW t, Meeting(t)
    PROVE  ~(Meet(Own) \subseteq uxEventBits)
<1>1. t \in Waiting
  BY DEF Meeting
<1> QED
  BY <1>1, MeetWaits DEF EventInv, NobodyWaitsForSetBits, TestWaitCondition

\* What has nothing to do with the rendezvous.
LEMMA ElsewhereKeepsMeet ==
    ASSUME NEW Own, MeetInv(Own),
           entered' = entered, \A t \in Companions : Passed(t)' = Passed(t),
           uxEventBits' \cap Meet(Own) \subseteq uxEventBits,
           \A u \in Companions : Meeting(u)' => /\ Meeting(u)
                                                /\ Meet(Own) \cap uxEventBits \subseteq uxEventBits',
           pendedBits' \in Seq([kind : {"set", "clear"}, bits : SUBSET (Bits \ Meet(Own))])
    PROVE  MeetInv(Own)'
<1>1. \A u \in Companions : Own[u] \in Meet(Own)
  BY DEF Meet
<1>2. \A u \in Companions : Own[u] \in uxEventBits' => Own[u] \in uxEventBits
  BY <1>1
<1>3. \A u \in Companions : Meeting(u)' => Own[u] \in uxEventBits'
  BY <1>1 DEF MeetInv
<1> QED
  BY <1>2, <1>3 DEF MeetInv

\* Bits from elsewhere.
LEMMA SetBitsKeepsMeet ==
    ASSUME EventInv, NEW Own, Rendezvous(Own), MeetInv(Own),
           NEW set, set \cap Meet(Own) = {}, SetBits(set),
           UNCHANGED <<calling, entered, left>>,
           pendedBits' \in Seq([kind : {"set", "clear"}, bits : SUBSET (Bits \ Meet(Own))])
    PROVE  MeetInv(Own)'
<1>1. PICK bits : bits = uxEventBits \cup set
  OBVIOUS
<1>2. PICK W : W = Woken(bits)
  OBVIOUS
<1>3. /\ uxEventBits' = bits \ Taken(W)
      /\ xTasksWaitingForBits' = Unlisted(W) /\ eventItem' = StoredItems(W, bits)
  BY <1>1, <1>2 DEF SetBits
<1>4. W \subseteq Waiting
  BY <1>2 DEF Woken
<1>5. Waiting' = Waiting \ W /\ DOMAIN eventItem' = DOMAIN eventItem \cup W
  BY <1>3, <1>4, AfterWake
<1>6. \A t \in W : ~Meeting(t)
  <2>1. CASE Meet(Own) \subseteq bits
    <3>1. Meet(Own) \subseteq uxEventBits
      BY <1>1, <2>1
    <3> QED
      BY <3>1, StillMeeting
  <2>2. CASE ~(Meet(Own) \subseteq bits)
    BY <1>2, <2>2, MeetWakes
  <2> QED
    BY <2>1, <2>2
<1>7. \A t \in Companions : Passed(t)' = Passed(t)
  BY <1>4, <1>5, <1>6 DEF Passed, Meeting
<1>8. \A u \in Companions : Meeting(u)' =>
        Meeting(u) /\ Meet(Own) \cap uxEventBits \subseteq uxEventBits'
  <2> SUFFICES ASSUME NEW u \in Companions, Meeting(u)'
               PROVE  Meeting(u) /\ Meet(Own) \cap uxEventBits \subseteq uxEventBits'
    OBVIOUS
  <2>1. Meeting(u)
    BY <1>5 DEF Meeting
  <2>2. ~(Meet(Own) \subseteq bits)
    BY <1>1, <2>1, StillMeeting
  <2> QED
    BY <1>1, <1>2, <1>3, <2>1, <2>2, MeetWakes
<1> QED
  BY <1>1, <1>3, <1>7, <1>8, ElsewhereKeepsMeet

LEMMA ClearBitsKeepsMeet ==
    ASSUME EventInv, NEW Own, MeetInv(Own),
           NEW clear, clear \cap Meet(Own) = {}, ClearBits(clear),
           UNCHANGED <<calling, entered, left>>,
           pendedBits' \in Seq([kind : {"set", "clear"}, bits : SUBSET (Bits \ Meet(Own))])
    PROVE  MeetInv(Own)'
<1>1. /\ Waiting' = Waiting /\ uxEventBits' = uxEventBits \ clear /\ eventItem' = eventItem
  BY DEF ClearBits, Waiting
<1>2. \A t \in Companions : Passed(t)' = Passed(t) /\ (Meeting(t)' => Meeting(t))
  BY <1>1 DEF Passed, Meeting
<1> QED
  BY <1>1, <1>2, ElsewhereKeepsMeet

LEMMA WaitBitsKeepsMeet ==
    ASSUME EventInv, NEW Own, Rendezvous(Own), MeetInv(Own),
           NEW t \in Tasks, calling[t] = NoCall, NEW c \in EventCalls, c.task = t, WaitBits(t, c)
    PROVE  MeetInv(Own)'
<1>1. c.kind = "wait" /\ UNCHANGED <<eventItem, pendedBits, entered>>
  BY DEF WaitBits
<1>2. t \notin Waiting /\ t \notin DOMAIN eventItem
  BY CallFacts DEF EventInv, EventsTyped
<1>3. /\ uxEventBits' \subseteq uxEventBits
      /\ Meet(Own) \cap uxEventBits \subseteq uxEventBits'
  BY <1>1 DEF WaitBits, Rendezvous
<1>4. left' = left
  BY <1>1 DEF WaitBits, Returns, WaitsForBits
<1>5. /\ calling' \in {calling, [calling EXCEPT ![t] = c]}
      /\ \/ xTasksWaitingForBits' = xTasksWaitingForBits
         \/ xTasksWaitingForBits' = Listed(xTasksWaitingForBits, t, Want(c))
  BY DEF WaitBits, WaitsForBits
<1>6. calling \in [Tasks -> EventCalls \cup {NoCall}]
  BY DEF EventInv, EventsTyped
<1>7. \A u \in Tasks : u # t => calling'[u] = calling[u]
  BY <1>5, <1>6
<1>8. \A u \in Companions : Passed(u)' = Passed(u)
  BY <1>1, <1>2, <1>4, <1>7 DEF Passed, Companions
<1>9. Waiting' \subseteq Waiting \cup {t}
  BY <1>5 DEF Waiting, Listed
<1>10. \A u \in Companions : Meeting(u)' => Meeting(u)
  <2> SUFFICES ASSUME NEW u \in Companions, Meeting(u)'
               PROVE  Meeting(u)
    OBVIOUS
  <2>1. u \in Waiting' /\ calling'[u].kind = "sync" /\ u \in Tasks
    BY DEF Meeting, Companions
  <2>2. CASE u = t
    <3>1. calling'[t] = calling[t] \/ calling'[t] = c
      BY <1>5, <1>6
    <3> QED
      BY <1>1, <2>1, <2>2, <3>1 DEF NoCall
  <2>3. CASE u # t
    BY <1>7, <1>9, <2>1, <2>3 DEF Meeting
  <2> QED
    BY <2>2, <2>3
<1>11. pendedBits' \in Seq([kind : {"set", "clear"}, bits : SUBSET (Bits \ Meet(Own))])
  BY <1>1 DEF MeetInv
<1> QED
  BY <1>1, <1>3, <1>8, <1>10, <1>11, ElsewhereKeepsMeet

\* A task comes to the rendezvous.
LEMMA SyncKeepsMeet ==
    ASSUME EventInv, NEW Own, Rendezvous(Own), MeetInv(Own),
           NEW t \in Tasks, calling[t] = NoCall, NEW c \in EventCalls, c.task = t, Sync(t, c)
    PROVE  MeetInv(Own)'
<1>1. PICK bits : bits = uxEventBits \cup c.set
  OBVIOUS
<1>2. PICK W : W = Woken(bits)
  OBVIOUS
<1>3. W \subseteq Waiting
  BY <1>2 DEF Woken
<1>4. t \notin Waiting /\ t \notin DOMAIN eventItem
  BY CallFacts DEF EventInv, EventsTyped
<1>5. /\ c.kind = "sync" /\ pendedBits' = pendedBits
      /\ entered' = [entered EXCEPT ![t] = @ + 1] /\ eventItem' = StoredItems(W, bits)
  BY <1>1, <1>2 DEF Sync
<1>6. t \in Companions /\ c.set = {Own[t]} /\ c.bits = Meet(Own)
  BY <1>5 DEF Companions, Rendezvous
<1>7. /\ DOMAIN Unlisted(W) = Waiting \ W
      /\ DOMAIN eventItem' = DOMAIN eventItem \cup W
  BY <1>5 DEF Unlisted, StoredItems
<1>8. /\ calling \in [Tasks -> EventCalls \cup {NoCall}]
      /\ entered \in [Tasks -> Nat] /\ left \in [Tasks -> Nat]
      /\ Waiting \subseteq Tasks /\ DOMAIN eventItem \subseteq Tasks
      /\ Waiting \cap DOMAIN eventItem = {}
      /\ Companions \subseteq Tasks
  BY DEF EventInv, EventsTyped, Companions
<1>9. /\ \A u \in Companions : Own[u] \in Meet(Own)
      /\ \A u \in Companions : u # t => Own[u] # Own[t]
      /\ \A bit \in Meet(Own) : \E u \in Companions : bit = Own[u]
  BY <1>6 DEF Meet, Rendezvous
<1>10. /\ entered'[t] = entered[t] + 1
       /\ \A u \in Companions : u # t => entered'[u] = entered[u]
  BY <1>5, <1>6, <1>8
<1>11. \A u \in Companions : Passed(u) \in Nat
  BY <1>8 DEF Passed
<1>12. CASE SyncMet(c)
  <2>1. Meet(Own) \subseteq bits
    BY <1>1, <1>6, <1>12 DEF SyncMet
  <2>2. /\ xTasksWaitingForBits' = Unlisted(W) /\ UNCHANGED calling
        /\ left' = [left EXCEPT ![t] = @ + 1]
        /\ uxEventBits' \cap Meet(Own) = {}
    BY <1>1, <1>2, <1>5, <1>6, <1>12 DEF Sync, Returns
  <2>3. \A u \in Companions : ~Meeting(u)'
    <3>1. Waiting' = Waiting \ W
      BY <1>7, <2>2 DEF Waiting
    <3>2. \A u \in Waiting : Meeting(u) => u \in W
      BY <1>2, <2>1, MeetWakes
    <3> QED
      BY <2>2, <3>1, <3>2 DEF Meeting
  <2>4. \A u \in Companions : Passed(u)' \in Nat /\ Passed(u)' <= Passed(u) + 1
    <3> SUFFICES ASSUME NEW u \in Companions
                 PROVE  Passed(u)' \in Nat /\ Passed(u)' <= Passed(u) + 1
      OBVIOUS
    <3>1. CASE u = t
      BY <1>3, <1>4, <1>6, <1>7, <1>8, <2>2, <3>1 DEF Passed
    <3>2. CASE u # t
      BY <1>7, <1>8, <2>2, <3>2 DEF Passed
    <3> QED
      BY <3>1, <3>2
  <2>5. ASSUME NEW u \in Companions, NEW v \in Companions
        PROVE  Passed(v)' <= entered'[u]
    <3>1. CASE u = t
      <4>1. Passed(v) <= entered[t]
        BY <1>6 DEF MeetInv
      <4> QED
        BY <1>6, <1>8, <1>10, <1>11, <2>4, <3>1, <4>1
    <3>2. CASE u # t
      <4>1. Own[u] \in uxEventBits
        BY <1>1, <1>6, <1>9, <2>1, <3>2
      <4>2. Passed(v) < entered[u]
        BY <4>1 DEF MeetInv
      <4> QED
        BY <1>8, <1>10, <1>11, <2>4, <3>2, <4>2
    <3> QED
      BY <3>1, <3>2
  <2> QED
    BY <1>5, <1>9, <2>2, <2>3, <2>5 DEF MeetInv
<1>13. CASE ~SyncMet(c)
  <2>1. ~(Meet(Own) \subseteq bits)
    BY <1>1, <1>6, <1>13 DEF SyncMet
  <2>2. uxEventBits' = bits \ Taken(W) /\ left' = left
    BY <1>1, <1>2, <1>13 DEF Sync, Returns, WaitsForBits
  <2>3. uxEventBits' \cap Meet(Own) = (uxEventBits \cup {Own[t]}) \cap Meet(Own)
    BY <1>1, <1>2, <1>6, <2>1, <2>2, MeetWakes
  <2>4. \A u \in W : ~Meeting(u)
    BY <1>2, <2>1, MeetWakes
  <2>5. /\ calling' \in {calling, [calling EXCEPT ![t] = c]}
        /\ Waiting' \subseteq (Waiting \ W) \cup {t}
    BY <1>2, <1>1, <1>7, <1>13 DEF Sync, WaitsForBits, Waiting, Listed
  <2>6. \A u \in Tasks : u # t => calling'[u] = calling[u]
    BY <1>8, <2>5
  <2>7. \A u \in Companions : Passed(u)' = Passed(u)
    <3> SUFFICES ASSUME NEW u \in Companions
                 PROVE  Passed(u)' = Passed(u)
      OBVIOUS
    <3>1. CASE u \in W
      BY <1>3, <1>4, <1>7, <1>8, <2>2, <2>4, <2>6, <3>1 DEF Passed, Meeting
    <3>2. CASE u \notin W
      BY <1>3, <1>4, <1>7, <1>8, <2>2, <2>6, <3>2 DEF Passed
    <3> QED
      BY <3>1, <3>2
  <2>8. \A u \in Companions : Meeting(u)' => Own[u] \in uxEventBits'
    <3> SUFFICES ASSUME NEW u \in Companions, Meeting(u)'
                 PROVE  Own[u] \in uxEventBits'
      OBVIOUS
    <3>1. CASE u = t
      BY <1>9, <2>3, <3>1
    <3>2. CASE u # t
      <4>1. Meeting(u)
        BY <1>8, <2>5, <2>6, <3>2 DEF Meeting
      <4> QED
        BY <1>9, <2>3, <4>1 DEF MeetInv
    <3> QED
      BY <3>1, <3>2
  <2>9. ASSUME NEW u \in Companions, NEW v \in Companions
        PROVE  /\ Passed(v)' <= entered'[u]
               /\ Own[u] \in uxEventBits' => Passed(v)' < entered'[u]
    <3>1. Passed(v) <= entered[u] /\ Passed(v)' = Passed(v)
      BY <2>7 DEF MeetInv
    <3>2. CASE u = t
      BY <1>6, <1>8, <1>10, <1>11, <3>1, <3>2
    <3>3. CASE u # t
      <4>1. Own[u] \in uxEventBits' => Own[u] \in uxEventBits
        BY <1>6, <1>9, <2>3, <3>3
      <4> QED
        BY <1>10, <3>1, <3>3, <4>1 DEF MeetInv
    <3> QED
      BY <3>2, <3>3
  <2> QED
    BY <1>5, <2>8, <2>9 DEF MeetInv
<1> QED
  BY <1>12, <1>13

LEMMA TimeUpKeepsMeet ==
    ASSUME EventInv, NEW Own, MeetInv(Own), NEW t \in Tasks, TimeUp(t)
    PROVE  MeetInv(Own)'
<1>1. Waiting' \subseteq Waiting /\ UNCHANGED <<uxEventBits, eventItem, pendedBits, calling, entered, left>>
  BY DEF TimeUp, Waiting, Unlisted
<1>2. \A u \in Companions : Passed(u)' = Passed(u) /\ (Meeting(u)' => Meeting(u))
  BY <1>1 DEF Passed, Meeting
<1>3. pendedBits' \in Seq([kind : {"set", "clear"}, bits : SUBSET (Bits \ Meet(Own))])
  BY <1>1 DEF MeetInv
<1> QED
  BY <1>1, <1>2, <1>3, ElsewhereKeepsMeet

\* A task that was woken has been counted; one that was too late takes the bits
\* of the rendezvous only when nobody is left there.
LEMMA GoOnKeepsMeet ==
    ASSUME EventInv, NEW Own, Rendezvous(Own), MeetInv(Own), NEW t \in Tasks, GoOn(t)
    PROVE  MeetInv(Own)'
<1>1. /\ calling[t] \in EventCalls /\ calling[t].task = t /\ t \notin Waiting
      /\ UNCHANGED <<xTasksWaitingForBits, pendedBits, entered>>
      /\ calling' = [calling EXCEPT ![t] = NoCall]
      /\ DOMAIN eventItem' = DOMAIN eventItem \ {t}
  BY DEF GoOn, EventInv, EventsTyped
<1>2. /\ calling \in [Tasks -> EventCalls \cup {NoCall}] /\ left \in [Tasks -> Nat]
      /\ Companions \subseteq Tasks
  BY DEF EventInv, EventsTyped, Companions
<1>3. \A u \in Tasks : calling'[u] = IF u = t THEN NoCall ELSE calling[u]
  BY <1>1, <1>2
<1>4. left' = IF t \in DOMAIN eventItem /\ calling[t].kind = "sync"
              THEN [left EXCEPT ![t] = @ + 1] ELSE left
  BY DEF GoOn, Returns
<1>5. \A u \in Companions : Passed(u)' = Passed(u)
  <2> SUFFICES ASSUME NEW u \in Companions
               PROVE  Passed(u)' = Passed(u)
    OBVIOUS
  <2>1. CASE u = t
    BY <1>1, <1>2, <1>4, <2>1 DEF Passed
  <2>2. CASE u # t
    BY <1>1, <1>2, <1>3, <1>4, <2>2 DEF Passed
  <2> QED
    BY <2>1, <2>2
<1>6. \A u \in Companions : Meeting(u)' => Meeting(u)
  BY <1>1, <1>2, <1>3 DEF Meeting, Waiting
<1>7. uxEventBits' \subseteq uxEventBits
  BY DEF GoOn
<1>8. ASSUME NEW u \in Companions, Meeting(u)
      PROVE  Meet(Own) \cap uxEventBits \subseteq uxEventBits'
  <2>1. CASE UNCHANGED uxEventBits
    BY <2>1
  <2>2. CASE /\ TestWaitCondition(uxEventBits, Want(calling[t])) /\ Want(calling[t]).clear
             /\ uxEventBits' = uxEventBits \ calling[t].bits
    <3>1. CASE calling[t].kind = "sync"
      <4>1. Want(calling[t]).all /\ Want(calling[t]).bits = calling[t].bits
        BY <3>1 DEF Want
      <4>2. calling[t].bits = Meet(Own)
        BY <1>1, <3>1 DEF Rendezvous
      <4>3. Meet(Own) \subseteq uxEventBits
        BY <2>2, <4>1, <4>2 DEF TestWaitCondition
      <4> QED
        BY <1>8, <4>3, StillMeeting
    <3>2. CASE calling[t].kind # "sync"
      <4>1. calling[t].kind = "wait"
        BY <1>1, <3>2, CallFacts DEF EventInv, EventsTyped
      <4>2. Want(calling[t]).clear => calling[t].clear
        BY <3>2 DEF Want
      <4> QED
        BY <1>1, <2>2, <4>1, <4>2 DEF Rendezvous
    <3> QED
      BY <3>1, <3>2
  <2> QED
    BY <2>1, <2>2 DEF GoOn
<1>9. pendedBits' \in Seq([kind : {"set", "clear"}, bits : SUBSET (Bits \ Meet(Own))])
  BY <1>1 DEF MeetInv
<1> QED
  BY <1>1, <1>5, <1>6, <1>7, <1>8, <1>9, ElsewhereKeepsMeet

LEMMA InitMeet ==
    ASSUME NEW Own, EventInit
    PROVE  MeetInv(Own)
<1>1. \A t \in Companions : Passed(t) = 0 /\ entered[t] = 0 /\ ~Meeting(t)
  BY DEF EventInit, GroupInit, Companions, Passed, Meeting, Waiting
<1> QED
  BY <1>1 DEF EventInit, GroupInit, MeetInv

LEMMA NextMeet ==
    ASSUME EventInv, NEW Own, Rendezvous(Own), MeetInv(Own), [EventNext]_eventVars
    PROVE  MeetInv(Own)'
<1> DEFINE Pended == Seq([kind : {"set", "clear"}, bits : SUBSET (Bits \ Meet(Own))])
<1>1. ASSUME NEW t \in Tasks, EventCall(t)
      PROVE  MeetInv(Own)'
  <2>1. calling[t] = NoCall
    BY <1>1 DEF EventCall
  <2>2. PICK c \in EventCalls : c.task = t /\ (WaitBits(t, c) \/ Sync(t, c) \/ SetOrClear(t, c))
    BY <1>1 DEF EventCall
  <2>3. CASE WaitBits(t, c)
    BY <2>1, <2>2, <2>3, WaitBitsKeepsMeet
  <2>4. CASE Sync(t, c)
    BY <2>1, <2>2, <2>4, SyncKeepsMeet
  <2>5. CASE SetOrClear(t, c)
    <3>1. /\ SetBits(c.set) \/ ClearBits(c.set)
          /\ c.set \cap Meet(Own) = {} /\ UNCHANGED <<calling, entered, left>>
      BY <2>5 DEF SetOrClear, Rendezvous
    <3>2. pendedBits' \in Pended
      BY <2>5 DEF SetOrClear, MeetInv
    <3> QED
      BY <3>1, <3>2, SetBitsKeepsMeet, ClearBitsKeepsMeet
  <2> QED
    BY <2>2, <2>3, <2>4, <2>5
<1>2. ASSUME NEW t \in Tasks, TimeUp(t)
      PROVE  MeetInv(Own)'
  BY <1>2, TimeUpKeepsMeet
<1>3. ASSUME NEW t \in Tasks, GoOn(t)
      PROVE  MeetInv(Own)'
  BY <1>3, GoOnKeepsMeet
<1>4. ASSUME UNCHANGED <<uxEventBits, xTasksWaitingForBits, eventItem, calling, entered, left>>,
             pendedBits' \in Pended
      PROVE  MeetInv(Own)'
  <2>1. Waiting' = Waiting
    BY <1>4 DEF Waiting
  <2>2. \A u \in Companions : Passed(u)' = Passed(u) /\ (Meeting(u)' => Meeting(u))
    BY <1>4, <2>1 DEF Passed, Meeting
  <2> QED
    BY <1>4, <2>2, ElsewhereKeepsMeet
<1>5. CASE RunPended /\ UNCHANGED <<calling, entered, left>>
  <2>1. pendedBits \in Pended /\ pendedBits # <<>> /\ pendedBits' = Tail(pendedBits)
    BY <1>5 DEF RunPended, MeetInv
  <2>2. pendedBits' \in Pended /\ Head(pendedBits).bits \cap Meet(Own) = {}
    <3>1. PICK S : S = [kind : {"set", "clear"}, bits : SUBSET (Bits \ Meet(Own))]
      OBVIOUS
    <3>2. pendedBits \in Seq(S) /\ pendedBits # <<>>
      BY <2>1, <3>1
    <3>3. Tail(pendedBits) \in Seq(S) /\ Head(pendedBits) \in S
      BY <3>2
    <3>4. Head(pendedBits).bits \in SUBSET (Bits \ Meet(Own))
      BY <3>1, <3>3
    <3> QED
      BY <2>1, <3>1, <3>3, <3>4
  <2>3. SetBits(Head(pendedBits).bits) \/ ClearBits(Head(pendedBits).bits)
    BY <1>5 DEF RunPended
  <2> QED
    BY <1>5, <2>2, <2>3, SetBitsKeepsMeet, ClearBitsKeepsMeet
<1>6. ASSUME NEW kind \in {"set", "clear"}, NEW bit \in ISRBits, PendFromISR(kind, {bit})
      PROVE  MeetInv(Own)'
  <2>1. {bit} \in SUBSET (Bits \ Meet(Own))
    BY EventAssumption DEF Rendezvous
  <2>2. pendedBits' \in Pended
    BY <1>6, <2>1 DEF PendFromISR, MeetInv
  <2> QED
    BY <1>4, <1>6, <2>2 DEF PendFromISR
<1>7. CASE UNCHANGED eventVars
  BY <1>4, <1>7 DEF eventVars, groupVars, MeetInv
<1> QED
  BY <1>1, <1>2, <1>3, <1>5, <1>6, <1>7 DEF EventNext

LEMMA MeetInvSuffices ==
    ASSUME EventInv, NEW Own, MeetInv(Own)
    PROVE  MeetTogether
<1>1. \A t \in Companions : left[t] \in Nat /\ entered[t] \in Nat
  BY DEF EventInv, EventsTyped, Companions
<1>2. \A t \in Companions : Passed(t) \in Nat /\ left[t] <= Passed(t)
  BY <1>1 DEF Passed
<1> SUFFICES ASSUME NEW t \in Companions, NEW u \in Companions
             PROVE  left[t] <= entered[u] /\ (left[t] = entered[u] => ~Meeting(u))
  BY DEF MeetTogether
<1>3. Passed(t) <= entered[u] /\ (Own[u] \in uxEventBits => Passed(t) < entered[u])
  BY DEF MeetInv
<1>4. Meeting(u) => Own[u] \in uxEventBits
  BY DEF MeetInv
<1> QED
  BY <1>1, <1>2, <1>3, <1>4

\* A task that bits woke finds in its list item the bits that it waited for: the
\* item keeps them (vTaskPlaceOnUnorderedEventList, xTaskRemoveFromUnorderedEventList)
\* whatever others take before it runs.
THEOREM WokenTasksHaveTheirBits == EventSpec => []WokenForItsBits
  BY EventsInvariant, PTL DEF EventInv

\* xEventGroupSetBits looks at the whole list, and a wait looks at the bits before
\* it blocks: nobody ever waits for bits that are set.
THEOREM WaitersLackBits == EventSpec => []NobodyWaitsForSetBits
  BY EventsInvariant, PTL DEF EventInv

\* Tasks that meet by xEventGroupSync, each by a bit of its own that nobody else
\* touches, stay together however often they meet, and though some come with a
\* timeout: nobody passes the rendezvous before all have come to it, and once
\* one has passed, nobody is left behind there.
THEOREM TasksMeetTogether ==
    ASSUME NEW Own, Rendezvous(Own)
    PROVE  EventSpec => []MeetTogether
<1>1. EventInit => MeetInv(Own)
  BY InitMeet
<1>2. EventInv /\ MeetInv(Own) /\ [EventNext]_eventVars => MeetInv(Own)'
  BY NextMeet
<1>3. EventInv /\ MeetInv(Own) => MeetTogether
  BY MeetInvSuffices
<1> QED
  BY <1>1, <1>2, <1>3, EventsInvariant, PTL DEF EventSpec

-------------------------------------------------------------------------------
\* The locks of the SDK

-------------------------------------------------------------------------------
\* The locks of the SDK

\* Whoever is in the list of the event group is in the wait for the bits of its lock.
LocksTyped ==
    /\ permits \in [Locks -> Nat]
    /\ DOMAIN stage = Tasks /\ goal \in [Tasks -> Locks \cup {NoLock}]
    /\ DOMAIN calling = Tasks
    /\ pendedBits \in Seq([kind : {"set", "clear"}, bits : SUBSET Nat])
    /\ Waiting \subseteq Tasks
    /\ \A t \in Tasks :
          /\ stage[t] # "idle" => goal[t] \in Locks
          /\ calling[t] # NoCall => stage[t] \in {"enabling", "yield", "waits"}

\* What they wait for.
WaitersKnown ==
    \A t \in Waiting : /\ calling[t] # NoCall
                       /\ xTasksWaitingForBits[t].bits = EventBit(goal[t])
                       /\ xTasksWaitingForBits[t].all = FALSE

\* Whoever waits lacks its bits.
WaitersLack == \A t \in Waiting : uxEventBits \cap EventBit(goal[t]) = {}

LockInv == LocksTyped /\ WaitersKnown /\ WaitersLack /\ NotificationReaches

\* Every lock has a bit.
LEMMA EventBitExists ==
    ASSUME NEW l \in Locks
    PROVE  EventBit(l) # {} /\ EventBit(l) \subseteq Nat
<1>1. l \in 0..31
  BY LockAssumption
<1>2. l \in 0..23 => l \in EventBit(l)
  BY DEF EventBit
<1>3. l \notin 0..23 => l - 8 \in EventBit(l)
  BY <1>1 DEF EventBit
<1>4. EventBit(l) \subseteq Nat
  BY DEF EventBit
<1> QED
  BY <1>2, <1>3, <1>4

\* Why nobody that waits for a lock is left alone with it.
Told(t) ==
    \/ goal[t] \in lostNotices
    \/ \E u \in Tasks : stage[u] = "notify" /\ goal[u] = goal[t]
    \/ \E i \in 1..Len(pendedBits) :
          pendedBits[i].kind = "set" /\ EventBit(goal[t]) \subseteq pendedBits[i].bits

LEMMA ToldIs ==
    ASSUME LocksTyped
    PROVE  NotificationReaches <=> \A t \in Waiting : permits[goal[t]] > 0 => Told(t)
<1>1. ToSet(pendedBits) = { pendedBits[i] : i \in 1..Len(pendedBits) }
  BY DEF ToSet, LocksTyped
<1> QED
  BY <1>1 DEF NotificationReaches, Told

LEMMA ToldSuffices ==
    ASSUME LocksTyped', \A t \in Waiting' : permits'[goal'[t]] > 0 => Told(t)'
    PROVE  NotificationReaches'
<1>1. ToSet(pendedBits)' = { pendedBits'[i] : i \in 1..Len(pendedBits') }
  BY DEF ToSet, LocksTyped
<1> QED
  BY <1>1 DEF NotificationReaches, Told

\* Bits that are set wake all that wait for any of them.
LEMMA SetBitsTells ==
    ASSUME LockInv, NEW set, SetBits(set)
    PROVE  /\ Waiting' \subseteq Waiting
           /\ \A t \in Waiting' : /\ xTasksWaitingForBits'[t] = xTasksWaitingForBits[t]
                                  /\ set \cap EventBit(goal[t]) = {}
                                  /\ uxEventBits' \cap EventBit(goal[t]) = {}
<1>1. PICK bits : bits = uxEventBits \cup set
  OBVIOUS
<1>2. PICK W : W = Woken(bits)
  OBVIOUS
<1>3. /\ uxEventBits' \subseteq bits
      /\ xTasksWaitingForBits' = Unlisted(W) /\ eventItem' = StoredItems(W, bits)
  BY <1>1, <1>2 DEF SetBits
<1>4. W \subseteq Waiting
  BY <1>2 DEF Woken
<1>5. /\ Waiting' = Waiting \ W
      /\ \A t \in Waiting \ W : xTasksWaitingForBits'[t] = xTasksWaitingForBits[t]
  BY <1>3, <1>4, AfterWake
<1>6. ASSUME NEW t \in Waiting \ W
      PROVE  bits \cap EventBit(goal[t]) = {}
  <2>1. ~TestWaitCondition(bits, xTasksWaitingForBits[t])
    BY <1>2, <1>6 DEF Woken
  <2>2. /\ xTasksWaitingForBits[t].bits = EventBit(goal[t])
        /\ xTasksWaitingForBits[t].all = FALSE
    BY <1>6 DEF LockInv, WaitersKnown
  <2> QED
    BY <2>1, <2>2 DEF TestWaitCondition
<1> QED
  BY <1>1, <1>3, <1>5, <1>6

\* A step after which whoever waits has waited before, for the same lock, and bits are
\* only set that nobody waits for any more.
LEMMA ListKept ==
    ASSUME LockInv, Waiting' \subseteq Waiting,
           \A t \in Waiting' : /\ xTasksWaitingForBits'[t] = xTasksWaitingForBits[t]
                               /\ goal'[t] = goal[t] /\ calling'[t] = calling[t]
                               /\ uxEventBits' \cap EventBit(goal[t]) = {}
    PROVE  WaitersKnown' /\ WaitersLack'
<1> SUFFICES ASSUME NEW t \in Waiting'
             PROVE  /\ calling'[t] # NoCall
                    /\ xTasksWaitingForBits'[t].bits = EventBit(goal'[t])
                    /\ xTasksWaitingForBits'[t].all = FALSE
                    /\ uxEventBits' \cap EventBit(goal'[t]) = {}
  BY DEF WaitersKnown, WaitersLack, EventBit
<1> QED
  BY DEF LockInv, WaitersKnown

\* A reason that is not taken away stays.
LEMMA StaysTold ==
    ASSUME LockInv, NEW t \in Waiting, goal'[t] = goal[t],
           permits'[goal[t]] > 0 => permits[goal[t]] > 0,
           lostNotices \subseteq lostNotices',
           \A u \in Tasks : stage[u] = "notify" /\ goal[u] = goal[t] =>
                                stage'[u] = "notify" /\ goal'[u] = goal[u],
           \A i \in 1..Len(pendedBits) :
               /\ pendedBits[i].kind = "set" /\ EventBit(goal[t]) \subseteq pendedBits[i].bits
               => \E j \in 1..Len(pendedBits') : pendedBits'[j] = pendedBits[i]
    PROVE  permits'[goal'[t]] > 0 => Told(t)'
<1> SUFFICES ASSUME permits'[goal[t]] > 0 PROVE Told(t)'
  OBVIOUS
<1>1. Told(t)
  BY ToldIs DEF LockInv
<1>2. CASE goal[t] \in lostNotices
  BY <1>2 DEF Told
<1>3. CASE \E u \in Tasks : stage[u] = "notify" /\ goal[u] = goal[t]
  BY <1>3 DEF Told
<1>4. CASE \E i \in 1..Len(pendedBits) :
             pendedBits[i].kind = "set" /\ EventBit(goal[t]) \subseteq pendedBits[i].bits
  <2>1. PICK i \in 1..Len(pendedBits) :
             pendedBits[i].kind = "set" /\ EventBit(goal[t]) \subseteq pendedBits[i].bits
    BY <1>4
  <2>2. PICK j \in 1..Len(pendedBits') : pendedBits'[j] = pendedBits[i]
    BY <2>1
  <2>3. /\ pendedBits'[j].kind = "set"
        /\ EventBit(goal'[t]) \subseteq pendedBits'[j].bits
    BY <2>1, <2>2
  <2> QED
    BY <2>3 DEF Told, EventBit
<1> QED
  BY <1>1, <1>2, <1>3, <1>4 DEF Told

\* A step of one task that leaves the list of the event group alone.
LEMMA OwnStep ==
    ASSUME LockInv, LocksTyped', NEW t \in Tasks, stage[t] # "notify",
           UNCHANGED <<xTasksWaitingForBits, pendedBits, lostNotices>>,
           uxEventBits' \subseteq uxEventBits,
           \A u \in Tasks \ {t} : goal'[u] = goal[u] /\ stage'[u] = stage[u] /\ calling'[u] = calling[u],
           t \in Waiting => goal'[t] = goal[t] /\ calling'[t] = calling[t],
           \A l \in Locks : permits'[l] > 0 => permits[l] > 0
    PROVE  LockInv'
<1>1. /\ Waiting' = Waiting /\ Waiting \subseteq Tasks
      /\ \A u \in Waiting : goal'[u] = goal[u] /\ calling'[u] = calling[u] /\ goal[u] \in Locks
  BY DEF Waiting, LockInv, LocksTyped, WaitersKnown
<1>2. WaitersKnown' /\ WaitersLack'
  <2>1. \A u \in Waiting : uxEventBits' \cap EventBit(goal[u]) = {}
    BY DEF LockInv, WaitersLack
  <2> QED
    BY <1>1, <2>1, ListKept
<1>3. ASSUME NEW u \in Waiting' PROVE permits'[goal'[u]] > 0 => Told(u)'
  <2>1. /\ permits'[goal[u]] > 0 => permits[goal[u]] > 0
        /\ \A v \in Tasks : stage[v] = "notify" /\ goal[v] = goal[u] =>
                                stage'[v] = "notify" /\ goal'[v] = goal[v]
    BY <1>1
  <2> QED
    BY <1>1, <2>1, StaysTold
<1> QED
  BY <1>2, <1>3, ToldSuffices DEF LockInv

LEMMA BeginStep ==
    ASSUME LockInv, NEW t \in Tasks, Begin(t)
    PROVE  LockInv'
<1>1. PICK l \in Seeks[t] : goal' = [goal EXCEPT ![t] = l]
  BY DEF Begin
<1>2. /\ l \in Locks /\ stage[t] = "idle" /\ stage' = [stage EXCEPT ![t] = "enter"]
      /\ UNCHANGED <<permits, lostNotices, xTasksWaitingForBits, pendedBits, uxEventBits, calling>>
      /\ Waiting' = Waiting
  BY LockAssumption DEF Begin, AtStage, eventVars, groupVars, Waiting
<1>3. /\ stage'[t] = "enter" /\ goal'[t] = l
      /\ \A u \in Tasks \ {t} : goal'[u] = goal[u] /\ stage'[u] = stage[u]
      /\ goal' \in [Tasks -> Locks \cup {NoLock}]
      /\ t \notin Waiting
  BY <1>1, <1>2 DEF LockInv, LocksTyped, WaitersKnown
<1>4. LocksTyped'
  BY <1>2, <1>3 DEF LockInv, LocksTyped
<1> QED
  BY <1>2, <1>3, <1>4, OwnStep

\* Where a task goes, and what becomes of the lock that it wants.
LEMMA ToStageFacts ==
    ASSUME LockInv, NEW t \in Tasks, NEW place, ToStage(t, place), stage[t] # "idle"
    PROVE  /\ stage'[t] = place /\ (place # "idle" => goal'[t] = goal[t] /\ goal[t] \in Locks)
           /\ \A u \in Tasks \ {t} : stage'[u] = stage[u] /\ goal'[u] = goal[u]
           /\ DOMAIN stage' = Tasks
           /\ goal' \in [Tasks -> Locks \cup {NoLock}]
  BY DEF ToStage, LockInv, LocksTyped

\* The steps between the calls of the event group.
LEMMA StageStep ==
    ASSUME LockInv, NEW t \in Tasks, NEW place, ToStage(t, place),
           stage[t] \notin {"idle", "notify"},
           calling[t] # NoCall => place \in {"enabling", "yield", "waits"},
           UNCHANGED <<xTasksWaitingForBits, pendedBits, lostNotices, uxEventBits, calling>>,
           permits' \in [Locks -> Nat], \A l \in Locks : permits'[l] > 0 => permits[l] > 0
    PROVE  LockInv'
<1>1. /\ stage'[t] = place /\ (place # "idle" => goal'[t] = goal[t] /\ goal[t] \in Locks)
      /\ \A u \in Tasks \ {t} : stage'[u] = stage[u] /\ goal'[u] = goal[u]
      /\ DOMAIN stage' = Tasks
      /\ goal' \in [Tasks -> Locks \cup {NoLock}]
  BY ToStageFacts
<1>2. Waiting' = Waiting
  BY DEF Waiting
<1>3. LocksTyped'
  BY <1>1, <1>2 DEF LockInv, LocksTyped
<1>4. t \in Waiting => goal'[t] = goal[t]
  BY <1>1 DEF LockInv, WaitersKnown
<1> QED
  BY <1>1, <1>3, <1>4, OwnStep

LEMMA TakeStep ==
    ASSUME LockInv, NEW t \in Tasks, stage[t] = "enter", Take(t), UNCHANGED lostNotices
    PROVE  LockInv'
<1>1. PICK place \in {"idle", "holds"} : ToStage(t, place)
  BY DEF Take
<1>2. /\ calling[t] = NoCall /\ goal[t] \in Locks
      /\ UNCHANGED <<xTasksWaitingForBits, pendedBits, uxEventBits, calling>>
  BY DEF Take, LockInv, LocksTyped, eventVars, groupVars
<1>3. permits[goal[t]] \in Nat /\ permits[goal[t]] > 0
  BY <1>2 DEF Take, LockInv, LocksTyped
<1>4. PICK n \in Nat : n = permits[goal[t]] - 1
  BY <1>3
<1>5. permits' = [permits EXCEPT ![goal[t]] = n]
  BY <1>4 DEF Take
<1>6. permits' \in [Locks -> Nat] /\ \A l \in Locks : permits'[l] > 0 => permits[l] > 0
  BY <1>2, <1>3, <1>5 DEF LockInv, LocksTyped
<1> QED
  BY <1>1, <1>2, <1>6, StageStep

\* Whoever finds the lock taken gets into the list unless the bits are there.
LEMMA SpinUnlockWithWaitStep ==
    ASSUME LockInv, NEW t \in Tasks, stage[t] = "enter", permits[goal[t]] = 0,
           SpinUnlockWithWait(t), UNCHANGED lostNotices
    PROVE  LockInv'
<1>1. PICK c : c = WaitFor(t, Patience[t])
  OBVIOUS
<1>2. c.kind = "wait" /\ c.bits = EventBit(goal[t]) /\ c.clear = TRUE /\ c.all = FALSE
  BY <1>1 DEF WaitFor
<1>3. Want(c).bits = EventBit(goal[t]) /\ Want(c).all = FALSE
  BY <1>2 DEF Want
<1>4. /\ calling[t] = NoCall /\ goal[t] \in Locks /\ t \notin Waiting
  BY DEF LockInv, LocksTyped, WaitersKnown
<1>5. /\ WaitBits(t, c) /\ ToStage(t, "enabling") /\ UNCHANGED permits
      /\ UNCHANGED <<pendedBits, eventItem>> /\ uxEventBits' \subseteq uxEventBits
  BY <1>1 DEF SpinUnlockWithWait, WaitBits
<1>6. /\ stage'[t] = "enabling" /\ goal'[t] = goal[t]
      /\ \A u \in Tasks \ {t} : stage'[u] = stage[u] /\ goal'[u] = goal[u]
      /\ DOMAIN stage' = Tasks
      /\ goal' \in [Tasks -> Locks \cup {NoLock}]
  BY <1>5, ToStageFacts
<1>7. CASE UNCHANGED <<xTasksWaitingForBits, calling>>
  <2>1. Waiting' = Waiting
    BY <1>7 DEF Waiting
  <2>2. LocksTyped'
    BY <1>4, <1>5, <1>6, <1>7, <2>1 DEF LockInv, LocksTyped
  <2> QED
    BY <1>4, <1>5, <1>6, <1>7, <2>2, OwnStep DEF LockInv, LocksTyped
<1>8. CASE /\ ~TestWaitCondition(uxEventBits, Want(c))
           /\ xTasksWaitingForBits' = Listed(xTasksWaitingForBits, t, Want(c))
           /\ WaitsForBits(t, c)
  <2>1. /\ DOMAIN xTasksWaitingForBits' = Waiting \cup {t}
        /\ xTasksWaitingForBits'[t] = Want(c)
        /\ \A u \in Waiting : u # t => xTasksWaitingForBits'[u] = xTasksWaitingForBits[u]
    <3>1. PICK want : want = Want(c)
      OBVIOUS
    <3>2. xTasksWaitingForBits' = Listed(xTasksWaitingForBits, t, want)
      BY <1>8, <3>1
    <3> QED
      BY <3>1, <3>2 DEF Listed, Waiting
  <2>2. Waiting' = Waiting \cup {t}
    BY <2>1 DEF Waiting
  <2>3. /\ calling'[t] = c /\ c # NoCall /\ DOMAIN calling' = Tasks
        /\ \A u \in Tasks \ {t} : calling'[u] = calling[u]
    BY <1>2, <1>8 DEF WaitsForBits, LockInv, LocksTyped, NoCall
  <2>4. LocksTyped'
    BY <1>4, <1>5, <1>6, <2>2, <2>3 DEF LockInv, LocksTyped
  <2>5. \A u \in Waiting : /\ u # t /\ u \in Tasks /\ goal'[u] = goal[u] /\ calling'[u] = calling[u]
                           /\ xTasksWaitingForBits'[u] = xTasksWaitingForBits[u]
    BY <1>4, <1>6, <2>1, <2>3 DEF LockInv, LocksTyped
  <2>6. uxEventBits \cap EventBit(goal[t]) = {}
    BY <1>3, <1>8 DEF TestWaitCondition
  <2>7. ASSUME NEW u \in Waiting'
        PROVE  /\ calling'[u] # NoCall
               /\ xTasksWaitingForBits'[u].bits = EventBit(goal'[u])
               /\ xTasksWaitingForBits'[u].all = FALSE
               /\ uxEventBits' \cap EventBit(goal'[u]) = {}
    <3>1. CASE u = t
      BY <1>3, <1>5, <1>6, <2>1, <2>3, <2>6, <3>1
    <3>2. CASE u # t
      <4>1. u \in Waiting
        BY <2>2, <3>2
      <4>2. /\ calling[u] # NoCall /\ xTasksWaitingForBits[u].bits = EventBit(goal[u])
            /\ xTasksWaitingForBits[u].all = FALSE
            /\ uxEventBits \cap EventBit(goal[u]) = {}
        BY <4>1 DEF LockInv, WaitersKnown, WaitersLack
      <4> QED
        BY <1>5, <2>5, <4>1, <4>2
    <3> QED
      BY <3>1, <3>2
  <2>8. WaitersKnown' /\ WaitersLack'
    BY <2>7 DEF WaitersKnown, WaitersLack, EventBit
  <2>9. ASSUME NEW u \in Waiting' PROVE permits'[goal'[u]] > 0 => Told(u)'
    <3>1. CASE u = t
      BY <1>5, <1>6, <3>1
    <3>2. CASE u # t
      <4>1. u \in Waiting /\ goal'[u] = goal[u]
        BY <2>2, <2>5, <3>2
      <4>2. \A v \in Tasks : stage[v] = "notify" => stage'[v] = "notify" /\ goal'[v] = goal[v]
        BY <1>6
      <4> QED
        BY <1>5, <4>1, <4>2, StaysTold
    <3> QED
      BY <3>1, <3>2
  <2> QED
    BY <2>4, <2>8, <2>9, ToldSuffices DEF LockInv
<1> QED
  BY <1>5, <1>7, <1>8 DEF WaitBits

LEMMA EnterStep ==
    ASSUME LockInv, NEW t \in Tasks, Enter(t)
    PROVE  LockInv'
<1>1. stage[t] = "enter" /\ UNCHANGED lostNotices /\ calling[t] = NoCall
  BY DEF Enter, AtStage, LockInv, LocksTyped
<1>2. CASE Take(t)
  BY <1>1, <1>2, TakeStep
<1>3. CASE permits[goal[t]] = 0 /\ SpinUnlockWithWait(t)
  BY <1>1, <1>3, SpinUnlockWithWaitStep
<1>4. CASE SpinUnlockAndYield(t)
  <2>1. PICK place : place = "yield"
    OBVIOUS
  <2>2. /\ ToStage(t, place)
        /\ UNCHANGED <<permits, xTasksWaitingForBits, pendedBits, uxEventBits, calling>>
    BY <1>4, <2>1 DEF SpinUnlockAndYield, eventVars, groupVars
  <2>3. permits' \in [Locks -> Nat] /\ \A l \in Locks : permits'[l] > 0 => permits[l] > 0
    BY <2>2 DEF LockInv, LocksTyped
  <2> QED
    BY <1>1, <2>1, <2>2, <2>3, StageStep
<1> QED
  BY <1>2, <1>3, <1>4 DEF Enter

\* What is left of vPortEnableInterrupts, the yield, and whether to look again.
LEMMA MovingOnStep ==
    ASSUME LockInv, NEW t \in Tasks, ForgetLock(t) \/ Yield(t) \/ LookAgain(t)
    PROVE  LockInv'
<1>1. /\ UNCHANGED <<permits, lostNotices, xTasksWaitingForBits, pendedBits, uxEventBits, calling>>
      /\ stage[t] \in {"enabling", "yield", "waited"}
  BY DEF ForgetLock, Yield, LookAgain, AtStage, eventVars, groupVars
<1>2. \E place \in {"idle", "enter", "waited", "yield", "waits"} :
          /\ ToStage(t, place)
          /\ calling[t] # NoCall => place \in {"enabling", "yield", "waits"}
  BY DEF ForgetLock, Yield, LookAgain, AtStage, LockInv, LocksTyped
<1>3. PICK place \in {"idle", "enter", "waited", "yield", "waits"} :
          /\ ToStage(t, place)
          /\ calling[t] # NoCall => place \in {"enabling", "yield", "waits"}
  BY <1>2
<1>4. permits' \in [Locks -> Nat] /\ \A l \in Locks : permits'[l] > 0 => permits[l] > 0
  BY <1>1 DEF LockInv, LocksTyped
<1> QED
  BY <1>1, <1>3, <1>4, StageStep

LEMMA EndOfWaitStep ==
    ASSUME LockInv, NEW t \in Tasks, EndOfWait(t)
    PROVE  LockInv'
<1>1. PICK place : place = "waited"
  OBVIOUS
<1>2. /\ stage[t] = "waits" /\ ToStage(t, place) /\ t \notin Waiting
      /\ UNCHANGED <<permits, lostNotices, xTasksWaitingForBits, pendedBits>>
      /\ uxEventBits' \subseteq uxEventBits
      /\ calling' = [calling EXCEPT ![t] = NoCall]
  BY <1>1 DEF EndOfWait, AtStage, GoOn
<1>3. /\ stage'[t] = "waited" /\ goal'[t] = goal[t] /\ goal[t] \in Locks
      /\ \A u \in Tasks \ {t} : stage'[u] = stage[u] /\ goal'[u] = goal[u]
      /\ DOMAIN stage' = Tasks
      /\ goal' \in [Tasks -> Locks \cup {NoLock}]
  BY <1>1, <1>2, ToStageFacts
<1>4. /\ calling'[t] = NoCall /\ DOMAIN calling' = Tasks
      /\ \A u \in Tasks \ {t} : calling'[u] = calling[u]
  BY <1>2 DEF LockInv, LocksTyped
<1>5. Waiting' = Waiting
  BY <1>2 DEF Waiting
<1>6. LocksTyped'
  BY <1>2, <1>3, <1>4, <1>5 DEF LockInv, LocksTyped
<1> QED
  BY <1>2, <1>3, <1>4, <1>6, OwnStep DEF LockInv, LocksTyped

LEMMA TimeOutStep ==
    ASSUME LockInv, NEW t \in Tasks, TimeOut(t)
    PROVE  LockInv'
<1>1. PICK W : W = {t}
  OBVIOUS
<1>2. /\ DOMAIN xTasksWaitingForBits' = Waiting \ W
      /\ \A u \in Waiting \ W : xTasksWaitingForBits'[u] = xTasksWaitingForBits[u]
  BY <1>1 DEF TimeOut, TimeUp, Unlisted
<1>3. Waiting' = Waiting \ W
  BY <1>2 DEF Waiting
<1>4. UNCHANGED <<uxEventBits, pendedBits, calling, permits, stage, goal, lostNotices>>
  BY DEF TimeOut, TimeUp, lockVars
<1>5. LocksTyped'
  BY <1>3, <1>4 DEF LockInv, LocksTyped
<1>6. WaitersKnown' /\ WaitersLack'
  <2>1. \A u \in Waiting : uxEventBits \cap EventBit(goal[u]) = {}
    BY DEF LockInv, WaitersLack
  <2> QED
    BY <1>2, <1>3, <1>4, <2>1, ListKept
<1>7. ASSUME NEW u \in Waiting' PROVE permits'[goal'[u]] > 0 => Told(u)'
  BY <1>3, <1>4, StaysTold
<1> QED
  BY <1>5, <1>6, <1>7, ToldSuffices DEF LockInv

\* A lock that is given back: notifying is the next thing its holder does.
LEMMA GiveBackStep ==
    ASSUME LockInv, NEW t \in Tasks, GiveBack(t)
    PROVE  LockInv'
<1>1. PICK place : place = "notify"
  OBVIOUS
<1>2. /\ stage[t] = "holds" /\ ToStage(t, place)
      /\ UNCHANGED <<lostNotices, xTasksWaitingForBits, pendedBits, uxEventBits, calling>>
      /\ Waiting' = Waiting
  BY <1>1 DEF GiveBack, AtStage, eventVars, groupVars, Waiting
<1>3. /\ stage'[t] = "notify" /\ goal'[t] = goal[t] /\ goal[t] \in Locks /\ calling[t] = NoCall
      /\ \A u \in Tasks \ {t} : stage'[u] = stage[u] /\ goal'[u] = goal[u]
      /\ DOMAIN stage' = Tasks
      /\ goal' \in [Tasks -> Locks \cup {NoLock}]
  <2>1. stage[t] # "idle" /\ place # "idle"
    BY <1>1, <1>2
  <2> QED
    BY <1>1, <1>2, <2>1, ToStageFacts DEF LockInv, LocksTyped
<1>4. /\ permits' \in [Locks -> Nat]
      /\ \A l \in Locks \ {goal[t]} : permits'[l] = permits[l]
  <2>1. permits[goal[t]] \in Nat
    BY <1>3 DEF LockInv, LocksTyped
  <2>2. PICK n \in Nat : n = permits[goal[t]] + 1
    BY <2>1
  <2>3. permits' = [permits EXCEPT ![goal[t]] = n]
    BY <2>2 DEF GiveBack
  <2> QED
    BY <1>3, <2>3 DEF LockInv, LocksTyped
<1>5. LocksTyped'
  BY <1>2, <1>3, <1>4 DEF LockInv, LocksTyped
<1>6. \A u \in Tasks : goal'[u] = goal[u]
  BY <1>3
<1>7. WaitersKnown' /\ WaitersLack'
  <2>1. \A u \in Waiting : u \in Tasks /\ uxEventBits \cap EventBit(goal[u]) = {}
    BY DEF LockInv, WaitersLack, LocksTyped
  <2> QED
    BY <1>2, <1>6, <2>1, ListKept
<1>8. ASSUME NEW u \in Waiting' PROVE permits'[goal'[u]] > 0 => Told(u)'
  <2>1. u \in Waiting /\ u \in Tasks /\ goal[u] \in Locks /\ goal'[u] = goal[u]
    BY <1>2, <1>6 DEF LockInv, LocksTyped, WaitersKnown
  <2>2. CASE goal[u] = goal[t]
    BY <1>3, <2>1, <2>2 DEF Told
  <2>3. CASE goal[u] # goal[t]
    <3>1. permits'[goal[u]] = permits[goal[u]]
      BY <1>4, <2>1, <2>3
    <3>2. \A v \in Tasks : stage[v] = "notify" => stage'[v] = "notify" /\ goal'[v] = goal[v]
      BY <1>2, <1>3
    <3> QED
      BY <1>2, <2>1, <3>1, <3>2, StaysTold
  <2> QED
    BY <2>2, <2>3
<1> QED
  BY <1>5, <1>7, <1>8, ToldSuffices DEF LockInv

\* Whoever still waits when the bits of a lock have been set waits for another one.
LEMMA OtherLock ==
    ASSUME LockInv, NEW t \in Waiting, NEW l \in Locks, EventBit(l) \cap EventBit(goal[t]) = {}
    PROVE  goal[t] # l
  BY EventBitExists

LEMMA NotifyStep ==
    ASSUME LockInv, NEW t \in Tasks, Notify(t)
    PROVE  LockInv'
<1>1. PICK place : place = "idle"
  OBVIOUS
<1>2. /\ stage[t] = "notify" /\ ToStage(t, place) /\ SetBits(EventBit(goal[t]))
      /\ UNCHANGED <<permits, lostNotices, pendedBits, calling>>
  BY <1>1 DEF Notify, AtStage
<1>3. /\ stage'[t] = "idle" /\ goal[t] \in Locks /\ calling[t] = NoCall
      /\ \A u \in Tasks \ {t} : stage'[u] = stage[u] /\ goal'[u] = goal[u]
      /\ DOMAIN stage' = Tasks
      /\ goal' \in [Tasks -> Locks \cup {NoLock}]
  <2>1. stage[t] # "idle" /\ calling[t] = NoCall /\ goal[t] \in Locks
    BY <1>2 DEF LockInv, LocksTyped
  <2> QED
    BY <1>1, <1>2, <2>1, ToStageFacts
<1>4. /\ Waiting' \subseteq Waiting
      /\ \A u \in Waiting' : /\ xTasksWaitingForBits'[u] = xTasksWaitingForBits[u]
                             /\ EventBit(goal[t]) \cap EventBit(goal[u]) = {}
                             /\ uxEventBits' \cap EventBit(goal[u]) = {}
  <2>1. PICK set : set = EventBit(goal[t])
    OBVIOUS
  <2>2. SetBits(set)
    BY <1>2, <2>1
  <2> QED
    BY <2>1, <2>2, SetBitsTells
<1>5. \A u \in Waiting : u \in Tasks /\ u # t /\ goal'[u] = goal[u] /\ calling'[u] = calling[u]
  BY <1>2, <1>3 DEF LockInv, LocksTyped, WaitersKnown
<1>6. LocksTyped'
  BY <1>2, <1>3, <1>4 DEF LockInv, LocksTyped
<1>7. WaitersKnown' /\ WaitersLack'
  BY <1>4, <1>5, ListKept
<1>8. ASSUME NEW u \in Waiting' PROVE permits'[goal'[u]] > 0 => Told(u)'
  <2>1. u \in Waiting /\ goal'[u] = goal[u] /\ goal[u] # goal[t]
    BY <1>3, <1>4, <1>5, OtherLock
  <2>2. \A v \in Tasks : stage[v] = "notify" /\ goal[v] = goal[u] =>
                             stage'[v] = "notify" /\ goal'[v] = goal[v]
    BY <1>3, <2>1
  <2> QED
    BY <1>2, <2>1, <2>2, StaysTold
<1> QED
  BY <1>6, <1>7, <1>8, ToldSuffices DEF LockInv

\* What the timer task sets is no longer on its way, but then nobody waits for it.
LEMMA NotifyPendedStep ==
    ASSUME LockInv, NotifyPended
    PROVE  LockInv'
<1>1. PICK f : f = Head(pendedBits)
  OBVIOUS
<1>2. /\ pendedBits # <<>> /\ pendedBits' = Tail(pendedBits)
      /\ UNCHANGED <<permits, stage, goal, lostNotices, calling>>
  BY DEF NotifyPended, RunPended
<1>3. /\ pendedBits' \in Seq([kind : {"set", "clear"}, bits : SUBSET Nat])
      /\ f = pendedBits[1]
      /\ \A i \in 1..Len(pendedBits) : i # 1 =>
             \E j \in 1..Len(pendedBits') : pendedBits'[j] = pendedBits[i]
  <2>1. pendedBits \in Seq([kind : {"set", "clear"}, bits : SUBSET Nat])
    BY DEF LockInv, LocksTyped
  <2>2. /\ pendedBits' \in Seq([kind : {"set", "clear"}, bits : SUBSET Nat])
        /\ f = pendedBits[1] /\ Len(pendedBits') = Len(pendedBits) - 1
        /\ \A j \in 1..Len(pendedBits') : pendedBits'[j] = pendedBits[j + 1]
    BY <1>1, <1>2, <2>1, HeadTailProperties
  <2>3. ASSUME NEW i \in 1..Len(pendedBits), i # 1
        PROVE  i - 1 \in 1..Len(pendedBits') /\ pendedBits'[i - 1] = pendedBits[i]
    <3>1. Len(pendedBits) \in Nat
      BY <2>1, LenProperties
    <3>2. i - 1 \in 1..Len(pendedBits')
      BY <2>2, <2>3, <3>1
    <3> QED
      BY <2>2, <3>2
  <2> QED
    BY <2>2, <2>3
<1>4. \/ f.kind = "set" /\ SetBits(f.bits)
      \/ f.kind = "clear" /\ ClearBits(f.bits)
  BY <1>1 DEF NotifyPended, RunPended
<1>5. /\ Waiting' \subseteq Waiting
      /\ \A u \in Waiting' : /\ xTasksWaitingForBits'[u] = xTasksWaitingForBits[u]
                             /\ f.kind = "set" => f.bits \cap EventBit(goal[u]) = {}
                             /\ uxEventBits' \cap EventBit(goal[u]) = {}
  <2>1. CASE f.kind = "set" /\ SetBits(f.bits)
    BY <2>1, SetBitsTells
  <2>2. CASE f.kind = "clear" /\ ClearBits(f.bits)
    <3>1. Waiting' = Waiting /\ uxEventBits' \subseteq uxEventBits
          /\ UNCHANGED xTasksWaitingForBits
      BY <2>2 DEF ClearBits, Waiting
    <3> QED
      BY <2>2, <3>1 DEF LockInv, WaitersLack
  <2> QED
    BY <1>4, <2>1, <2>2
<1>6. LocksTyped'
  BY <1>2, <1>3, <1>5 DEF LockInv, LocksTyped
<1>7. WaitersKnown' /\ WaitersLack'
  BY <1>2, <1>5, ListKept
<1>8. ASSUME NEW u \in Waiting' PROVE permits'[goal'[u]] > 0 => Told(u)'
  <2>1. u \in Waiting /\ goal[u] \in Locks /\ EventBit(goal[u]) # {}
    BY <1>5, EventBitExists DEF LockInv, LocksTyped, WaitersKnown
  <2>2. ASSUME NEW i \in 1..Len(pendedBits), pendedBits[i].kind = "set",
               EventBit(goal[u]) \subseteq pendedBits[i].bits
        PROVE  i # 1
    BY <1>3, <1>5, <2>1, <2>2
  <2> QED
    BY <1>2, <1>3, <2>1, <2>2, StaysTold
<1> QED
  BY <1>6, <1>7, <1>8, ToldSuffices DEF LockInv

\* A permit given by an interrupt: the notice is on its way, or it is lost.
LEMMA ReleaseFromISRStep ==
    ASSUME LockInv, NEW l \in ISRLocks, ReleaseFromISR(l)
    PROVE  LockInv'
<1>1. /\ l \in Locks /\ permits' = [permits EXCEPT ![l] = 1]
      /\ UNCHANGED <<stage, goal, uxEventBits, xTasksWaitingForBits, calling>>
      /\ Waiting' = Waiting
      /\ \/ /\ pendedBits' = Append(pendedBits, [kind |-> "set", bits |-> EventBit(l)])
            /\ UNCHANGED lostNotices
         \/ lostNotices' = lostNotices \cup {l} /\ UNCHANGED pendedBits
  BY LockAssumption DEF ReleaseFromISR, PendFromISR, eventVars, groupVars, Waiting
<1>2. PICK note : note = [kind |-> "set", bits |-> EventBit(l)]
  OBVIOUS
<1>3. /\ note.kind = "set" /\ note.bits = EventBit(l)
      /\ note \in [kind : {"set", "clear"}, bits : SUBSET Nat]
  BY <1>1, <1>2, EventBitExists
<1>4. /\ pendedBits \in Seq([kind : {"set", "clear"}, bits : SUBSET Nat])
      /\ Len(pendedBits) \in Nat
  BY LenProperties DEF LockInv, LocksTyped
<1>5. /\ pendedBits' \in Seq([kind : {"set", "clear"}, bits : SUBSET Nat])
      /\ \A i \in 1..Len(pendedBits) :
             i \in 1..Len(pendedBits') /\ pendedBits'[i] = pendedBits[i]
      /\ \/ l \in lostNotices'
         \/ \E i \in 1..Len(pendedBits') : pendedBits'[i] = note
      /\ lostNotices \subseteq lostNotices'
  <2>1. CASE pendedBits' = Append(pendedBits, note) /\ UNCHANGED lostNotices
    <3>1. /\ pendedBits' \in Seq([kind : {"set", "clear"}, bits : SUBSET Nat])
          /\ Len(pendedBits') = Len(pendedBits) + 1
          /\ \A i \in 1..Len(pendedBits) : pendedBits'[i] = pendedBits[i]
          /\ pendedBits'[Len(pendedBits) + 1] = note
      BY <1>3, <1>4, <2>1, AppendProperties
    <3>2. Len(pendedBits) + 1 \in 1..Len(pendedBits')
      BY <1>4, <3>1
    <3>3. \A i \in 1..Len(pendedBits) : i \in 1..Len(pendedBits')
      BY <1>4, <3>1
    <3> QED
      BY <2>1, <3>1, <3>2, <3>3
  <2>2. CASE lostNotices' = lostNotices \cup {l} /\ UNCHANGED pendedBits
    BY <1>4, <2>2
  <2> QED
    BY <1>1, <1>2, <2>1, <2>2
<1>6. permits' \in [Locks -> Nat] /\ \A m \in Locks : m # l => permits'[m] = permits[m]
  BY <1>1 DEF LockInv, LocksTyped
<1>7. LocksTyped'
  BY <1>1, <1>5, <1>6 DEF LockInv, LocksTyped
<1>8. WaitersKnown' /\ WaitersLack'
  <2>1. \A u \in Waiting : uxEventBits \cap EventBit(goal[u]) = {}
    BY DEF LockInv, WaitersLack
  <2> QED
    BY <1>1, <2>1, ListKept
<1>9. ASSUME NEW u \in Waiting' PROVE permits'[goal'[u]] > 0 => Told(u)'
  <2>1. u \in Waiting /\ goal[u] \in Locks
    BY <1>1 DEF LockInv, LocksTyped, WaitersKnown
  <2>2. CASE goal[u] = l
    <3>1. goal'[u] = l
      BY <1>1, <2>2
    <3>2. CASE l \in lostNotices'
      BY <3>1, <3>2 DEF Told
    <3>3. CASE \E i \in 1..Len(pendedBits') : pendedBits'[i] = note
      <4>1. PICK i \in 1..Len(pendedBits') : pendedBits'[i] = note
        BY <3>3
      <4>2. pendedBits'[i].kind = "set" /\ EventBit(goal'[u]) \subseteq pendedBits'[i].bits
        BY <1>3, <3>1, <4>1
      <4> QED
        BY <4>2 DEF Told, EventBit
    <3> QED
      BY <1>5, <3>2, <3>3
  <2>3. CASE goal[u] # l
    <3>1. permits'[goal[u]] = permits[goal[u]]
      BY <1>6, <2>1, <2>3
    <3> QED
      BY <1>1, <1>5, <2>1, <3>1, StaysTold
  <2> QED
    BY <2>2, <2>3
<1> QED
  BY <1>7, <1>8, <1>9, ToldSuffices DEF LockInv

-------------------------------------------------------------------------------
LEMMA LockInvStarts == LockStart /\ EventInit => LockInv
<1> SUFFICES ASSUME LockStart, EventInit PROVE LockInv
  OBVIOUS
<1>1. Waiting = {} /\ pendedBits = <<>>
  BY DEF EventInit, GroupInit, Waiting
<1>2. permits \in [Locks -> Nat]
  BY DEF LockStart
<1>3. LocksTyped
  BY <1>1, <1>2 DEF LocksTyped, LockStart, EventInit
<1> QED
  BY <1>1, <1>3 DEF LockInv, WaitersKnown, WaitersLack, NotificationReaches

LEMMA LockInvSteps == LockInv /\ [LockNext]_picoVars => LockInv'
<1> SUFFICES ASSUME LockInv, [LockNext]_picoVars PROVE LockInv'
  OBVIOUS
<1>1. CASE UNCHANGED <<permits, stage, goal, lostNotices, eventVars>>
  <2>1. UNCHANGED <<permits, stage, goal, lostNotices, uxEventBits, xTasksWaitingForBits,
                    pendedBits, calling>>
    BY <1>1 DEF eventVars, groupVars
  <2>2. LocksTyped' /\ WaitersKnown' /\ WaitersLack'
    BY <2>1 DEF LockInv, LocksTyped, WaitersKnown, WaitersLack, Waiting, EventBit
  <2>3. NotificationReaches'
    BY <2>1 DEF LockInv, NotificationReaches, Waiting, EventBit, ToSet
  <2> QED
    BY <2>2, <2>3 DEF LockInv
<1>2. CASE Preempt \/ UNCHANGED picoVars
  BY <1>1, <1>2 DEF Preempt, picoVars, lockVars
<1>3. CASE NotifyPended
  BY <1>3, NotifyPendedStep
<1>4. ASSUME NEW t \in Tasks,
             \/ Begin(t) \/ Enter(t) \/ ForgetLock(t) \/ Yield(t) \/ EndOfWait(t) \/ LookAgain(t)
             \/ GiveBack(t) \/ Notify(t) \/ TimeOut(t)
      PROVE  LockInv'
  BY <1>4, BeginStep, EnterStep, MovingOnStep, EndOfWaitStep, GiveBackStep, NotifyStep,
     TimeOutStep
<1>5. ASSUME NEW l \in ISRLocks, ReleaseFromISR(l) PROVE LockInv'
  BY <1>5, ReleaseFromISRStep
<1> QED
  BY <1>2, <1>3, <1>4, <1>5 DEF LockNext

LEMMA LockInvAlways == LockSpec => []LockInv
  BY LockInvStarts, LockInvSteps, PTL DEF LockSpec

\* Whoever waits for a lock of the SDK that can be had is about to be told: by the task
\* that gave it back, or by the timer task; unless the notice was lost, for which the
\* queue of that task must have been full.  And nobody waits for bits that are set.
THEOREM WaitersAreTold == LockSpec => [](NotificationReaches /\ NobodyWaitsForSetBits)
<1>1. LockInv => NotificationReaches /\ NobodyWaitsForSetBits
  <2> SUFFICES ASSUME LockInv, NEW t \in Waiting
               PROVE  ~TestWaitCondition(uxEventBits, xTasksWaitingForBits[t])
    BY DEF LockInv, NobodyWaitsForSetBits
  <2> QED
    BY DEF LockInv, WaitersKnown, WaitersLack, TestWaitCondition
<1> QED
  BY <1>1, LockInvAlways, PTL

-------------------------------------------------------------------------------
\* Stream and message buffers

\* The bytes from the one index to the other, and the space that is left.
BytesFrom(tail, head) == (xLength + head - tail) % xLength
SpacesFrom(head, tail) == (xLength + tail - head - 1) % xLength

Places == {"idle", "look", "block", "asleep", "awake", "woken", "write", "publish",
           "published", "complete", "read", "consume"}

StreamTypes ==
    /\ isMessageBuffer \in BOOLEAN
    /\ pucBuffer \in [0..(xLength - 1) -> Nat]
    /\ xHead \in 0..(xLength - 1) /\ xTail \in 0..(xLength - 1)
    /\ xTriggerLevelBytes \in Nat \ {0}
    /\ waitingTask \in [Ends -> BOOLEAN]
    /\ notified \in [Ends -> {"NOT_WAITING", "WAITING", "RECEIVED"}]
    /\ at \in [Ends -> Places]
    /\ sending \in [length : Nat, xSpace : Nat, xNextHead : 0..(xLength - 1)]
    /\ receiving \in [room : Nat, waits : BOOLEAN, xBytesAvailable : Nat,
                      xNextTail : 0..(xLength - 1)]
    /\ pvRxData \in Seq(Nat) /\ unread \in Seq(Nat) /\ nextByte \in Nat

\* The ring holds these bytes, from this index on.
HeldAt(buffer, bytes, index) ==
    \A i \in 1..Len(bytes) : buffer[Moved(index, i - 1)] = bytes[i]

Kept == Len(unread) = BytesInBuffer /\ HeldAt(pucBuffer, unread, xTail)

\* What is unread is whole messages: there are places where one begins, the first byte is
\* one, and after each message there is the next or the end.
Messages(bytes, B) ==
    /\ B \subseteq 0..Len(bytes) /\ 0 \in B
    /\ \A b \in B : b < Len(bytes) =>
          bytes[b + 1] > 0 /\ b + LengthBytes + bytes[b + 1] \in B
OneMessage(bytes) ==
    /\ LengthBytes \in Nat /\ bytes[1] \in Nat \ {0}
    /\ Len(bytes) = LengthBytes + bytes[1]
Framed == isMessageBuffer => \E B \in SUBSET Nat : Messages(unread, B)

\* The sender knows of no more space than there is; what it is about to publish
\* is behind the head.
SenderOK ==
    /\ at["send"] \in {"idle", "published", "complete"} => sending = NotSending
    /\ sending.xSpace <= SpacesAvailable
    /\ at["send"] = "publish" =>
          /\ sending.length > 0 /\ Overhead + sending.length <= SpacesAvailable
          /\ sending.xNextHead = Moved(xHead, Overhead + sending.length)
          /\ HeldAt(pucBuffer, Stored(sending.length), xHead)

\* The reader knows of no more bytes than there are, and of whole messages; what it is
\* about to consume is what it has read.
ReaderOK ==
    /\ at["receive"] = "read" =>
          /\ receiving.xBytesAvailable <= BytesInBuffer
          /\ isMessageBuffer /\ receiving.xBytesAvailable > LengthBytes =>
                LengthBytes + unread[1] <= receiving.xBytesAvailable
    /\ at["receive"] = "consume" =>
          /\ Len(pvRxData) > 0 /\ Overhead + Len(pvRxData) <= Len(unread)
          /\ receiving.xNextTail = Moved(xTail, Overhead + Len(pvRxData))
          /\ \A i \in 1..Len(pvRxData) : pvRxData[i] = unread[Overhead + i]
          /\ isMessageBuffer => Len(pvRxData) = unread[1]

\* Who sleeps is known to the other.
SleepersKnown == \A e \in Ends : Sleeps(e) => waitingTask[e]

StreamInv ==
    /\ StreamTypes /\ Kept /\ Framed /\ SenderOK /\ ReaderOK
    /\ SleepersKnown /\ NobodySleepsInVain

LEMMA Modulo ==
    ASSUME NEW L \in Nat \ {0}, NEW n \in Nat, n < 2 * L
    PROVE  n % L = IF n < L THEN n ELSE n - L
<1>1. CASE n < L
  BY <1>1, Z3
<1>2. CASE n >= L
  <2>1. n = L + (n - L) /\ n - L \in 0..(L - 1)
    BY <1>2
  <2> QED
  BY <1>2, <2>1, Z3
<1> QED
  BY <1>1, <1>2

LEMMA MovedFacts ==
    ASSUME StreamParameters, NEW index \in 0..(xLength - 1), NEW n \in 0..xLength
    PROVE  /\ Moved(index, n) = IF index + n < xLength THEN index + n ELSE index + n - xLength
           /\ Moved(index, n) \in 0..(xLength - 1)
<1> DEFINE sum == index + n
<1>1. xLength \in Nat \ {0} /\ sum \in Nat /\ sum < 2 * xLength
  BY DEF StreamParameters
<1>2. Moved(index, n) = sum % xLength
  BY DEF Moved
<1> HIDE DEF sum
<1>3. sum % xLength = IF sum < xLength THEN sum ELSE sum - xLength
  BY <1>1, Modulo
<1> QED
  BY <1>1, <1>2, <1>3 DEF sum

\* The arithmetic of the two counts.
LEMMA BytesAndSpaces ==
    ASSUME StreamParameters, NEW head \in 0..(xLength - 1), NEW tail \in 0..(xLength - 1)
    PROVE  /\ head >= tail => /\ BytesFrom(tail, head) = head - tail
                              /\ SpacesFrom(head, tail) = xLength - 1 - (head - tail)
           /\ head < tail => /\ BytesFrom(tail, head) = xLength + head - tail
                             /\ SpacesFrom(head, tail) = tail - head - 1
<1> DEFINE bytes == xLength + head - tail
           spaces == xLength + tail - head - 1
<1>1. /\ xLength \in Nat \ {0}
      /\ bytes \in Nat /\ bytes < 2 * xLength /\ spaces \in Nat /\ spaces < 2 * xLength
  BY DEF StreamParameters
<1> DEFINE b == BytesFrom(tail, head)
           s == SpacesFrom(head, tail)
<1>2. b = bytes % xLength /\ s = spaces % xLength
  BY DEF BytesFrom, SpacesFrom
<1> HIDE DEF bytes, spaces, b, s
<1>3. /\ bytes % xLength = IF bytes < xLength THEN bytes ELSE bytes - xLength
      /\ spaces % xLength = IF spaces < xLength THEN spaces ELSE spaces - xLength
  BY <1>1, Modulo
<1>4. /\ b = IF bytes < xLength THEN bytes ELSE bytes - xLength
      /\ s = IF spaces < xLength THEN spaces ELSE spaces - xLength
  BY <1>2, <1>3
<1>5. CASE head >= tail
  <2>1. bytes >= xLength /\ bytes - xLength = head - tail
    BY <1>1, <1>5 DEF bytes
  <2>2. spaces < xLength /\ spaces = xLength - 1 - (head - tail)
    BY <1>1, <1>5 DEF spaces
  <2>3. b = head - tail /\ s = xLength - 1 - (head - tail)
    BY <1>1, <1>4, <2>1, <2>2
  <2> QED
    BY <1>1, <1>5, <2>3 DEF b, s
<1>6. CASE head < tail
  <2>1. bytes < xLength
    BY <1>1, <1>6 DEF bytes
  <2>2. spaces >= xLength /\ spaces - xLength = tail - head - 1
    BY <1>1, <1>6 DEF spaces
  <2>3. b = bytes /\ s = tail - head - 1
    BY <1>1, <1>4, <2>1, <2>2
  <2> QED
    BY <1>1, <1>6, <2>3 DEF b, s, bytes
<1> QED
  BY <1>1, <1>5, <1>6 DEF b, s

LEMMA CountsAre ==
    ASSUME StreamParameters, NEW head \in 0..(xLength - 1), NEW tail \in 0..(xLength - 1),
           NEW bytes, bytes = BytesFrom(tail, head),
           NEW spaces, spaces = SpacesFrom(head, tail)
    PROVE  /\ bytes \in 0..(xLength - 1)
           /\ spaces = xLength - 1 - bytes
           /\ spaces \in 0..(xLength - 1)
           /\ head = Moved(tail, bytes)
<1>1. xLength \in Nat \ {0}
  BY DEF StreamParameters
<1>2. /\ head >= tail => bytes = head - tail /\ spaces = xLength - 1 - (head - tail)
      /\ head < tail => bytes = xLength + head - tail /\ spaces = tail - head - 1
  BY BytesAndSpaces
<1>3. bytes \in 0..xLength
  BY <1>1, <1>2
<1>4. Moved(tail, bytes) = IF tail + bytes < xLength THEN tail + bytes ELSE tail + bytes - xLength
  BY <1>3, MovedFacts
<1> QED
  BY <1>1, <1>2, <1>4

LEMMA CountFacts ==
    ASSUME StreamParameters, xHead \in 0..(xLength - 1), xTail \in 0..(xLength - 1)
    PROVE  /\ BytesInBuffer \in 0..(xLength - 1)
           /\ SpacesAvailable = xLength - 1 - BytesInBuffer
           /\ SpacesAvailable \in 0..(xLength - 1)
           /\ xHead = Moved(xTail, BytesInBuffer)
<1> DEFINE bytes == BytesInBuffer
           spaces == SpacesAvailable
<1>1. bytes = BytesFrom(xTail, xHead) /\ spaces = SpacesFrom(xHead, xTail)
  BY DEF BytesInBuffer, SpacesAvailable, BytesFrom, SpacesFrom
<1> HIDE DEF bytes, spaces
<1>2. /\ bytes \in 0..(xLength - 1)
      /\ spaces = xLength - 1 - bytes
      /\ spaces \in 0..(xLength - 1)
      /\ xHead = Moved(xTail, bytes)
  BY <1>1, CountsAre
<1> QED
  BY <1>2 DEF bytes, spaces

LEMMA CountFactsPrimed ==
    ASSUME StreamParameters, xHead' \in 0..(xLength - 1), xTail' \in 0..(xLength - 1)
    PROVE  /\ BytesInBuffer' \in 0..(xLength - 1)
           /\ SpacesAvailable' = xLength - 1 - BytesInBuffer'
           /\ SpacesAvailable' \in 0..(xLength - 1)
           /\ xHead' = Moved(xTail', BytesInBuffer')
<1> DEFINE bytes == BytesInBuffer'
           spaces == SpacesAvailable'
<1>1. bytes = BytesFrom(xTail', xHead') /\ spaces = SpacesFrom(xHead', xTail')
  BY DEF BytesInBuffer, SpacesAvailable, BytesFrom, SpacesFrom
<1> HIDE DEF bytes, spaces
<1>2. /\ bytes \in 0..(xLength - 1)
      /\ spaces = xLength - 1 - bytes
      /\ spaces \in 0..(xLength - 1)
      /\ xHead' = Moved(xTail', bytes)
  BY <1>1, CountsAre
<1> QED
  BY <1>2 DEF bytes, spaces

\* Bytes that are written are found where they were written, and all else is as it was.
LEMMA WriteFacts ==
    ASSUME StreamParameters, pucBuffer \in [0..(xLength - 1) -> Nat],
           NEW bytes \in Seq(Nat), NEW index \in 0..(xLength - 1), Len(bytes) < xLength
    PROVE  /\ WriteBytes(bytes, index) \in [0..(xLength - 1) -> Nat]
           /\ \A i \in 1..Len(bytes) : WriteBytes(bytes, index)[Moved(index, i - 1)] = bytes[i]
           /\ \A i \in Len(bytes)..(xLength - 1) :
                 WriteBytes(bytes, index)[Moved(index, i)] = pucBuffer[Moved(index, i)]
<1> DEFINE place(i) == BytesFrom(index, i)
           written == WriteBytes(bytes, index)
<1>1. xLength \in Nat \ {0} /\ DOMAIN pucBuffer = 0..(xLength - 1) /\ Len(bytes) \in Nat
  BY DEF StreamParameters
<1>2. written = [i \in 0..(xLength - 1) |->
                   IF place(i) < Len(bytes) THEN bytes[place(i) + 1] ELSE pucBuffer[i]]
  BY <1>1, Zenon DEF WriteBytes, BytesFrom
<1>3. ASSUME NEW i \in 0..(xLength - 1)
      PROVE  /\ i >= index => place(i) = i - index
             /\ i < index => place(i) = xLength + i - index
  BY <1>1, BytesAndSpaces
<1> HIDE DEF written
<1>4. ASSUME NEW i \in 0..(xLength - 1)
      PROVE  /\ place(i) \in Nat
             /\ place(i) < Len(bytes) => written[i] = bytes[place(i) + 1]
             /\ place(i) >= Len(bytes) => written[i] = pucBuffer[i]
  <2>1. /\ i >= index => place(i) = i - index
        /\ i < index => place(i) = xLength + i - index
    BY <1>3
  <2>2. place(i) \in Nat
    BY <1>1, <2>1
  <2>3. written[i] = IF place(i) < Len(bytes) THEN bytes[place(i) + 1] ELSE pucBuffer[i]
    BY <1>2
  <2> QED
    BY <1>1, <2>2, <2>3
<1>5. ASSUME NEW i \in 0..(xLength - 1)
      PROVE  written[i] \in Nat
  <2>1. CASE place(i) < Len(bytes)
    <3>0. place(i) \in Nat
      BY <1>4
    <3>1. place(i) + 1 \in 1..Len(bytes)
      BY <1>1, <2>1, <3>0, SMTT(30)
    <3>2. bytes[place(i) + 1] \in Nat
      BY <3>1
    <3> QED
      BY <1>4, <2>1, <3>2
  <2>2. CASE place(i) >= Len(bytes)
    BY <1>4, <2>2
  <2> QED
    BY <1>1, <1>4, <2>1, <2>2
<1>6. written \in [0..(xLength - 1) -> Nat]
  BY <1>2, <1>5
<1>7. ASSUME NEW j \in 0..(xLength - 1)
      PROVE  Moved(index, j) \in 0..(xLength - 1) /\ place(Moved(index, j)) = j
  <2>1. j \in 0..xLength
    BY <1>1
  <2>2. /\ Moved(index, j) = IF index + j < xLength THEN index + j ELSE index + j - xLength
        /\ Moved(index, j) \in 0..(xLength - 1)
    BY <2>1, MovedFacts
  <2>3. /\ Moved(index, j) >= index => place(Moved(index, j)) = Moved(index, j) - index
        /\ Moved(index, j) < index => place(Moved(index, j)) = xLength + Moved(index, j) - index
    BY <1>3, <2>2
  <2> QED
    BY <1>1, <2>2, <2>3
<1>8. ASSUME NEW i \in 1..Len(bytes)
      PROVE  written[Moved(index, i - 1)] = bytes[i]
  <2>1. i - 1 \in 0..(xLength - 1)
    BY <1>1
  <2>2. Moved(index, i - 1) \in 0..(xLength - 1) /\ place(Moved(index, i - 1)) = i - 1
    BY <1>7, <2>1
  <2>3. i - 1 < Len(bytes) /\ (i - 1) + 1 = i
    BY <1>1
  <2> QED
    BY <1>4, <2>2, <2>3
<1>9. ASSUME NEW i \in Len(bytes)..(xLength - 1)
      PROVE  written[Moved(index, i)] = pucBuffer[Moved(index, i)]
  <2>1. i \in 0..(xLength - 1) /\ i >= Len(bytes)
    BY <1>1
  <2>2. Moved(index, i) \in 0..(xLength - 1) /\ place(Moved(index, i)) = i
    BY <1>7, <2>1
  <2> QED
    BY <1>4, <2>1, <2>2
<1> QED
  BY <1>6, <1>8, <1>9 DEF written

\* What is stored for n bytes: their number in front, if they are a message.
LEMMA StoredFacts ==
    ASSUME StreamParameters, StreamTypes, NEW n \in Nat
    PROVE  /\ Stored(n) \in Seq(Nat) /\ Len(Stored(n)) = Overhead + n
           /\ Overhead \in Nat
           /\ isMessageBuffer => Stored(n)[1] = n
<1>1. NewBytes(n) \in Seq(Nat) /\ Len(NewBytes(n)) = n
  <2>1. \A i \in 1..n : (nextByte + i) % Alphabet \in Nat
    BY DEF StreamParameters, StreamTypes
  <2> QED
    BY <2>1 DEF NewBytes
<1> DEFINE front == [i \in 1..LengthBytes |-> IF i = 1 THEN n ELSE 0]
<1>2. front \in Seq(Nat) /\ Len(front) = LengthBytes /\ front[1] = n /\ LengthBytes \in Nat \ {0}
  BY DEF StreamParameters
<1>3. CASE isMessageBuffer
  <2>1. Stored(n) = front \o NewBytes(n)
    BY <1>3 DEF Stored
  <2> HIDE DEF front
  <2>2. /\ front \o NewBytes(n) \in Seq(Nat)
        /\ Len(front \o NewBytes(n)) = LengthBytes + n
        /\ (front \o NewBytes(n))[1] = n
    <3>1. PICK new \in Seq(Nat) : new = NewBytes(n) /\ Len(new) = n /\ n \in Nat
      BY <1>1
    <3>2. PICK head \in Seq(Nat) :
              head = front /\ Len(head) = LengthBytes /\ head[1] = n /\ LengthBytes \in Nat \ {0}
      BY <1>2
    <3>3. /\ head \o new \in Seq(Nat) /\ Len(head \o new) = Len(head) + Len(new)
          /\ (head \o new)[1] = head[1]
      BY <3>1, <3>2
    <3> QED
      BY <3>1, <3>2, <3>3
  <2>3. Overhead = LengthBytes
    BY <1>3 DEF Overhead
  <2> QED
    BY <1>2, <1>3, <2>1, <2>2, <2>3
<1>4. CASE ~isMessageBuffer
  <2>1. Stored(n) = <<>> \o NewBytes(n)
    BY <1>4 DEF Stored
  <2> QED
    BY <1>1, <1>4, <2>1 DEF Overhead
<1> QED
  BY <1>3, <1>4
\* Moving on twice.
LEMMA MovedTwice ==
    ASSUME StreamParameters, NEW index \in 0..(xLength - 1), NEW m \in Nat, NEW n \in Nat,
           m + n < xLength
    PROVE  /\ Moved(index, m) \in 0..(xLength - 1)
           /\ Moved(Moved(index, m), n) = Moved(index, m + n)
<1>1. xLength \in Nat \ {0} /\ m \in 0..xLength /\ n \in 0..xLength /\ m + n \in 0..xLength
  BY DEF StreamParameters
<1> DEFINE once == Moved(index, m)
           twice == Moved(once, n)
           sum == Moved(index, m + n)
<1>2. once \in 0..(xLength - 1)
      /\ once = IF index + m < xLength THEN index + m ELSE index + m - xLength
  BY <1>1, MovedFacts
<1>3. sum = IF index + (m + n) < xLength THEN index + (m + n) ELSE index + (m + n) - xLength
  BY <1>1, MovedFacts
<1> HIDE DEF once
<1>4. twice = IF once + n < xLength THEN once + n ELSE once + n - xLength
  BY <1>1, <1>2, MovedFacts
<1> HIDE DEF twice, sum
<1>5. twice = sum
  BY <1>1, <1>2, <1>3, <1>4
<1> QED
  BY <1>2, <1>5 DEF once, twice, sum

LEMMA PartOf ==
    ASSUME NEW q \in Seq(Nat), NEW m \in 0..Len(q), NEW n \in 0..(Len(q) - m)
    PROVE  /\ SubSeq(q, m + 1, m + n) \in Seq(Nat) /\ Len(SubSeq(q, m + 1, m + n)) = n
           /\ \A i \in 1..n : SubSeq(q, m + 1, m + n)[i] = q[m + i]
<1>1. Len(q) \in Nat /\ m \in Nat /\ n \in Nat /\ m + n <= Len(q)
  OBVIOUS
<1>2. \A i \in 1..n : q[m + i] \in Nat
  OBVIOUS
<1> DEFINE part == SubSeq(q, m + 1, m + n)
<1>3. part = [i \in 1..n |-> q[m + i]]
  BY <1>1, <1>2
<1> QED
  BY <1>1, <1>2, <1>3

LEMMA RestOf ==
    ASSUME NEW q \in Seq(Nat), NEW n \in 0..Len(q)
    PROVE  /\ SubSeq(q, n + 1, Len(q)) \in Seq(Nat)
           /\ Len(SubSeq(q, n + 1, Len(q))) = Len(q) - n
           /\ \A i \in 1..(Len(q) - n) : SubSeq(q, n + 1, Len(q))[i] = q[n + i]
<1>1. n \in Nat /\ Len(q) - n \in Nat /\ n + (Len(q) - n) = Len(q)
  OBVIOUS
<1>2. /\ SubSeq(q, n + 1, n + (Len(q) - n)) \in Seq(Nat)
      /\ Len(SubSeq(q, n + 1, n + (Len(q) - n))) = Len(q) - n
      /\ \A i \in 1..(Len(q) - n) : SubSeq(q, n + 1, n + (Len(q) - n))[i] = q[n + i]
  <2> DEFINE m == Len(q) - n
  <2>1. m \in 0..(Len(q) - n)
    BY <1>1
  <2> HIDE DEF m
  <2>2. /\ SubSeq(q, n + 1, n + m) \in Seq(Nat) /\ Len(SubSeq(q, n + 1, n + m)) = m
        /\ \A i \in 1..m : SubSeq(q, n + 1, n + m)[i] = q[n + i]
    BY <2>1, PartOf
  <2> QED
    BY <2>2 DEF m
<1> QED
  BY <1>1, <1>2, Zenon

\* What is held is held with more behind it, and without its beginning.
LEMMA HeldTogether ==
    ASSUME StreamParameters, NEW buffer, NEW front \in Seq(Nat), NEW back \in Seq(Nat),
           NEW index \in 0..(xLength - 1), Len(front) + Len(back) < xLength,
           HeldAt(buffer, front, index), HeldAt(buffer, back, Moved(index, Len(front)))
    PROVE  HeldAt(buffer, front \o back, index)
<1>1. SUFFICES ASSUME NEW i \in 1..Len(front \o back)
               PROVE  buffer[Moved(index, i - 1)] = (front \o back)[i]
  BY DEF HeldAt
<1>2. Len(front) \in Nat /\ Len(back) \in Nat /\ Len(front \o back) = Len(front) + Len(back)
  OBVIOUS
<1>3. CASE i <= Len(front)
  BY <1>2, <1>3 DEF HeldAt
<1>4. CASE i > Len(front)
  <2> DEFINE k == i - Len(front)
  <2>1. k \in 1..Len(back) /\ (front \o back)[i] = back[k]
    BY <1>2, <1>4
  <2>2. buffer[Moved(Moved(index, Len(front)), k - 1)] = back[k]
    BY <2>1 DEF HeldAt
  <2>3. k - 1 \in Nat /\ Len(front) + (k - 1) = i - 1 /\ Len(front) + (k - 1) < xLength
    BY <1>2, <2>1 DEF StreamParameters
  <2>4. Moved(Moved(index, Len(front)), k - 1) = Moved(index, Len(front) + (k - 1))
    BY <1>2, <2>3, MovedTwice
  <2> QED
    BY <2>1, <2>2, <2>3, <2>4
<1> QED
  BY <1>2, <1>3, <1>4

LEMMA HeldBehind ==
    ASSUME StreamParameters, NEW buffer, NEW bytes \in Seq(Nat), NEW n \in 0..Len(bytes),
           NEW index \in 0..(xLength - 1), Len(bytes) < xLength, HeldAt(buffer, bytes, index)
    PROVE  /\ SubSeq(bytes, n + 1, Len(bytes)) \in Seq(Nat)
           /\ Len(SubSeq(bytes, n + 1, Len(bytes))) = Len(bytes) - n
           /\ \A i \in 1..(Len(bytes) - n) : SubSeq(bytes, n + 1, Len(bytes))[i] = bytes[n + i]
           /\ HeldAt(buffer, SubSeq(bytes, n + 1, Len(bytes)), Moved(index, n))
<1> DEFINE rest == SubSeq(bytes, n + 1, Len(bytes))
<1>1. Len(bytes) \in Nat /\ n \in Nat /\ n <= Len(bytes) /\ xLength \in Nat
  BY DEF StreamParameters
<1>2. /\ rest \in Seq(Nat) /\ Len(rest) = Len(bytes) - n
      /\ \A i \in 1..(Len(bytes) - n) : rest[i] = bytes[n + i]
  BY RestOf
<1> HIDE DEF rest
<1>3. ASSUME NEW i \in 1..Len(rest)
      PROVE  buffer[Moved(Moved(index, n), i - 1)] = rest[i]
  <2>1. i \in 1..(Len(bytes) - n) /\ rest[i] = bytes[n + i] /\ n + i \in 1..Len(bytes)
    BY <1>1, <1>2, SMTT(60)
  <2>2. i - 1 \in Nat /\ n + (i - 1) < xLength /\ (n + i) - 1 = n + (i - 1)
    BY <1>1, <2>1
  <2>3. Moved(Moved(index, n), i - 1) = Moved(index, n + (i - 1))
    BY <1>1, <2>2, MovedTwice
  <2>4. buffer[Moved(index, (n + i) - 1)] = bytes[n + i]
    BY <2>1 DEF HeldAt
  <2> QED
    BY <2>1, <2>2, <2>3, <2>4
<1> QED
  BY <1>2, <1>3 DEF rest, HeldAt

\* Writing into the free space: what is there stays, and what is new is there.
LEMMA WriteKeeps ==
    ASSUME StreamParameters, StreamTypes, Kept,
           NEW bytes \in Seq(Nat), Len(bytes) <= SpacesAvailable
    PROVE  /\ WriteBytes(bytes, xHead) \in [0..(xLength - 1) -> Nat]
           /\ HeldAt(WriteBytes(bytes, xHead), unread, xTail)
           /\ HeldAt(WriteBytes(bytes, xHead), bytes, xHead)
<1> DEFINE written == WriteBytes(bytes, xHead)
           count == BytesInBuffer
<1>1. /\ xHead \in 0..(xLength - 1) /\ xTail \in 0..(xLength - 1)
      /\ pucBuffer \in [0..(xLength - 1) -> Nat] /\ unread \in Seq(Nat)
  BY DEF StreamTypes
<1>2. /\ count \in 0..(xLength - 1) /\ SpacesAvailable = xLength - 1 - count
      /\ xHead = Moved(xTail, count) /\ xLength \in Nat \ {0}
      /\ SpacesAvailable \in 0..(xLength - 1)
  BY <1>1, CountFacts DEF StreamParameters
<1>3. Len(unread) = count /\ HeldAt(pucBuffer, unread, xTail)
  BY DEF Kept
<1>4. Len(bytes) \in Nat /\ Len(bytes) < xLength /\ Len(bytes) + count < xLength
  BY <1>2
<1>5. /\ written \in [0..(xLength - 1) -> Nat]
      /\ \A i \in 1..Len(bytes) : written[Moved(xHead, i - 1)] = bytes[i]
      /\ \A i \in Len(bytes)..(xLength - 1) : written[Moved(xHead, i)] = pucBuffer[Moved(xHead, i)]
  BY <1>1, <1>4, WriteFacts
<1> HIDE DEF written, count
<1>6. ASSUME NEW i \in 1..Len(unread)
      PROVE  written[Moved(xTail, i - 1)] = unread[i]
  <2> DEFINE k == xLength - count + (i - 1)
  <2>1. k \in Len(bytes)..(xLength - 1) /\ i - 1 \in 0..xLength /\ k \in 0..xLength
    BY <1>2, <1>3, <1>4
  <2>2. Moved(xHead, k) = IF xHead + k < xLength THEN xHead + k ELSE xHead + k - xLength
    BY <1>1, <2>1, MovedFacts
  <2>3. Moved(xTail, i - 1) =
          IF xTail + (i - 1) < xLength THEN xTail + (i - 1) ELSE xTail + (i - 1) - xLength
    BY <1>1, <2>1, MovedFacts
  <2>4. xHead = IF xTail + count < xLength THEN xTail + count ELSE xTail + count - xLength
    <3>1. count \in 0..xLength
      BY <1>2
    <3> QED
      BY <1>1, <1>2, <3>1, MovedFacts
  <2>5. Moved(xHead, k) = Moved(xTail, i - 1)
    <3> DEFINE l == Moved(xHead, k)
               r == Moved(xTail, i - 1)
    <3>1. l = IF xHead + k < xLength THEN xHead + k ELSE xHead + k - xLength
      BY <2>2
    <3>2. r = IF xTail + (i - 1) < xLength THEN xTail + (i - 1) ELSE xTail + (i - 1) - xLength
      BY <2>3
    <3> HIDE DEF l, r
    <3>3. l = r
      BY <1>1, <1>2, <1>3, <2>1, <2>4, <3>1, <3>2
    <3> QED
      BY <3>3 DEF l, r
  <2>6. written[Moved(xHead, k)] = pucBuffer[Moved(xHead, k)]
    BY <1>5, <2>1
  <2>7. pucBuffer[Moved(xTail, i - 1)] = unread[i]
    BY <1>3 DEF HeldAt
  <2> QED
    BY <2>5, <2>6, <2>7
<1> QED
  BY <1>5, <1>6 DEF written, HeldAt

\* Messages: one more, one less, and the first.
LEMMA OneMore ==
    ASSUME StreamParameters, NEW bytes \in Seq(Nat), NEW B, Messages(bytes, B),
           NEW new \in Seq(Nat), OneMessage(new)
    PROVE  Messages(bytes \o new, B \cup {Len(bytes), Len(bytes \o new)})
<1> DEFINE both == bytes \o new
<1>0. /\ LengthBytes \in Nat /\ new[1] \in Nat \ {0} /\ Len(new) = LengthBytes + new[1]
      /\ Len(new) \in Nat \ {0}
  <2>1. /\ LengthBytes \in Nat /\ new[1] \in Nat \ {0} /\ Len(new) = LengthBytes + new[1]
    BY DEF OneMessage
  <2> QED
    BY <2>1
<1>1. /\ Len(bytes) \in Nat /\ Len(both) = Len(bytes) + Len(new)
      /\ \A i \in 1..Len(bytes) : both[i] = bytes[i]
      /\ both[Len(bytes) + 1] = new[1]
  BY <1>0
<1> HIDE DEF both
<1> DEFINE C == B \cup {Len(bytes), Len(both)}
<1>2. C \subseteq 0..Len(both) /\ 0 \in C
  <2>1. B \subseteq 0..Len(bytes) /\ 0 \in B
    BY DEF Messages
  <2>2. Len(bytes) \in 0..Len(both) /\ Len(both) \in 0..Len(both) /\ 0..Len(bytes) \subseteq 0..Len(both)
    BY <1>0, <1>1, SMTT(30)
  <2> QED
    BY <2>1, <2>2
<1>3. ASSUME NEW b \in C, b < Len(both)
      PROVE  both[b + 1] > 0 /\ b + LengthBytes + both[b + 1] \in C
  <2>1. CASE b = Len(bytes)
    <3>1. both[b + 1] = new[1]
      BY <1>1, <2>1
    <3>2. b + LengthBytes + both[b + 1] = Len(both) /\ both[b + 1] > 0
      <4> DEFINE first == both[b + 1]
      <4>1. first \in Nat \ {0} /\ b \in Nat /\ Len(new) = LengthBytes + first
        <5>1. first = new[1]
          BY <3>1
        <5> HIDE DEF first
        <5> QED
          BY <1>0, <1>1, <2>1, <5>1
      <4> HIDE DEF first
      <4>2. b + LengthBytes + first = Len(both) /\ first > 0
        <5>1. /\ LengthBytes \in Nat /\ Len(bytes) \in Nat /\ Len(new) \in Nat
              /\ Len(both) = Len(bytes) + Len(new)
          BY <1>0, <1>1
        <5> QED
          BY <2>1, <4>1, <5>1
      <4> QED
        BY <4>2 DEF first
    <3> QED
      BY <3>2
  <2>2. CASE b # Len(bytes)
    <3>1. b \in B /\ b \in 0..Len(bytes) /\ b < Len(bytes)
      BY <1>0, <1>1, <1>3, <2>2, SMTT(30) DEF Messages
    <3>2. b + 1 \in 1..Len(bytes)
      BY <1>1, <3>1
    <3>3. bytes[b + 1] > 0 /\ b + LengthBytes + bytes[b + 1] \in B
      BY <3>1 DEF Messages
    <3> QED
      BY <1>1, <3>2, <3>3
  <2> QED
    BY <2>1, <2>2
<1> QED
  BY <1>2, <1>3 DEF Messages, both

LEMMA OneLess ==
    ASSUME StreamParameters, NEW bytes \in Seq(Nat), NEW B, Messages(bytes, B), Len(bytes) > 0
    PROVE  /\ bytes[1] \in Nat \ {0} /\ LengthBytes + bytes[1] \in 1..Len(bytes)
           /\ \A n \in Nat : n = LengthBytes + bytes[1] =>
                 \E C \in SUBSET Nat : Messages(SubSeq(bytes, n + 1, Len(bytes)), C)
<1>1. Len(bytes) \in Nat \ {0} /\ 1 \in 1..Len(bytes) /\ LengthBytes \in Nat \ {0}
  BY DEF StreamParameters
<1>2. bytes[1] \in Nat
  BY <1>1
<1>3. bytes[0 + 1] > 0 /\ 0 + LengthBytes + bytes[0 + 1] \in B /\ B \subseteq 0..Len(bytes)
  BY <1>1 DEF Messages
<1>4. /\ bytes[1] \in Nat \ {0} /\ LengthBytes + bytes[1] \in B
      /\ LengthBytes + bytes[1] \in 1..Len(bytes)
  BY <1>1, <1>2, <1>3
<1>5. ASSUME NEW n \in 1..Len(bytes), n \in B
      PROVE  \E C \in SUBSET Nat : Messages(SubSeq(bytes, n + 1, Len(bytes)), C)
  <2> DEFINE rest == SubSeq(bytes, n + 1, Len(bytes))
  <2>1. /\ rest \in Seq(Nat) /\ Len(rest) = Len(bytes) - n
        /\ \A i \in 1..(Len(bytes) - n) : rest[i] = bytes[n + i]
    <3>1. n \in 0..Len(bytes)
      BY <1>1
    <3> QED
      BY <3>1, RestOf
  <2> HIDE DEF rest
  <2> DEFINE C == { c \in 0..Len(rest) : n + c \in B }
  <2>2. C \subseteq 0..Len(rest) /\ 0 \in C
    BY <1>1, <2>1, <1>5
  <2>3. ASSUME NEW c \in C, c < Len(rest)
        PROVE  rest[c + 1] > 0 /\ c + LengthBytes + rest[c + 1] \in C
    <3>1. /\ n + c \in B /\ c \in Nat /\ n + c < Len(bytes) /\ c + 1 \in 1..(Len(bytes) - n)
          /\ n \in Nat
      BY <1>1, <2>1, <2>3, SMTT(60)
    <3>2. bytes[(n + c) + 1] > 0 /\ (n + c) + LengthBytes + bytes[(n + c) + 1] \in B
      BY <3>1 DEF Messages
    <3>3. rest[c + 1] = bytes[(n + c) + 1] /\ (n + c) + 1 \in 1..Len(bytes)
      <4>1. n + (c + 1) = (n + c) + 1
        BY <3>1
      <4> QED
        BY <1>1, <2>1, <3>1, <4>1, SMTT(30)
    <3>4. rest[c + 1] \in Nat
      BY <3>3
    <3>5. n + (c + LengthBytes + rest[c + 1]) = (n + c) + LengthBytes + bytes[(n + c) + 1]
      BY <1>1, <3>1, <3>3, <3>4
    <3>6. n + (c + LengthBytes + rest[c + 1]) \in B
      BY <3>2, <3>5
    <3>7. c + LengthBytes + rest[c + 1] \in 0..Len(rest)
      <4> DEFINE m == c + LengthBytes + rest[c + 1]
      <4>1. m \in Nat
        BY <1>1, <3>1, <3>4, SMTT(30)
      <4>2. n + m \in 0..Len(bytes)
        BY <1>3, <3>6
      <4> HIDE DEF m
      <4>3. m \in 0..(Len(bytes) - n)
        BY <1>1, <3>1, <4>1, <4>2
      <4> QED
        BY <2>1, <4>3 DEF m
    <3> QED
      BY <3>2, <3>3, <3>6, <3>7
  <2>4. Messages(rest, C) /\ C \in SUBSET Nat
    <3>1. C \in SUBSET Nat
      BY <1>1, <2>1
    <3> QED
      BY <2>2, <2>3, <3>1 DEF Messages
  <2> QED
    BY <2>4 DEF rest
<1> QED
  BY <1>1, <1>4, <1>5

LEMMA MovedApart ==
    ASSUME StreamParameters, NEW index \in 0..(xLength - 1),
           NEW m \in 0..(xLength - 1), NEW n \in 0..(xLength - 1),
           Moved(index, m) = Moved(index, n)
    PROVE  m = n
<1> DEFINE l == Moved(index, m)
           r == Moved(index, n)
<1>1. xLength \in Nat \ {0} /\ m \in 0..xLength /\ n \in 0..xLength
  BY DEF StreamParameters
<1>2. /\ l = IF index + m < xLength THEN index + m ELSE index + m - xLength
      /\ r = IF index + n < xLength THEN index + n ELSE index + n - xLength
      /\ l = r
  BY <1>1, MovedFacts
<1> HIDE DEF l, r
<1> QED
  BY <1>1, <1>2

\* A message is read whole.
LEMMA FirstMessage ==
    ASSUME StreamParameters, StreamTypes, Framed, isMessageBuffer, Len(unread) > 0
    PROVE  /\ unread[1] \in Nat \ {0} /\ LengthBytes + unread[1] \in 1..Len(unread)
           /\ \A n \in Nat : n = LengthBytes + unread[1] =>
                 \E C \in SUBSET Nat : Messages(SubSeq(unread, n + 1, Len(unread)), C)
<1>1. PICK B \in SUBSET Nat : Messages(unread, B)
  BY DEF Framed
<1> QED
  BY <1>1, OneLess DEF StreamTypes

LEMMA Appended ==
    ASSUME NEW front \in Seq(Nat), NEW back \in Seq(Nat)
    PROVE  /\ front \o back \in Seq(Nat) /\ Len(front \o back) = Len(front) + Len(back)
           /\ \A i \in 1..Len(front) : (front \o back)[i] = front[i]
  OBVIOUS

\* More is written: n bytes, which are there already, behind the head.
LEMMA AppendStep ==
    ASSUME StreamParameters, StreamTypes, Kept, Framed, NEW n \in Nat \ {0},
           Overhead + n <= SpacesAvailable,
           HeldAt(pucBuffer', unread, xTail), HeldAt(pucBuffer', Stored(n), xHead),
           isMessageBuffer' = isMessageBuffer, xTail' = xTail,
           xHead' = Moved(xHead, Overhead + n), unread' = unread \o Stored(n)
    PROVE  /\ xHead' \in 0..(xLength - 1) /\ unread' \in Seq(Nat)
           /\ Kept' /\ Framed'
           /\ BytesInBuffer' = BytesInBuffer + Overhead + n
           /\ BytesInBuffer' \in Nat
           /\ \A i \in 1..Len(unread) : unread'[i] = unread[i]
           /\ Len(unread) \in Nat /\ Len(unread') = Len(unread) + (Overhead + n)
<1> DEFINE m == Overhead + n
           count == BytesInBuffer
           more == BytesInBuffer'
<1>1. /\ xHead \in 0..(xLength - 1) /\ xTail \in 0..(xLength - 1)
      /\ unread \in Seq(Nat) /\ xLength \in Nat \ {0}
  BY DEF StreamTypes, StreamParameters
<1>2. Stored(n) \in Seq(Nat) /\ Len(Stored(n)) = m /\ m \in Nat \ {0} /\ Overhead \in Nat
  BY StoredFacts
<1>3. /\ count \in 0..(xLength - 1) /\ SpacesAvailable = xLength - 1 - count
      /\ xHead = Moved(xTail, count)
  BY <1>1, CountFacts
<1>4. Len(unread) = count /\ m <= SpacesAvailable
  BY DEF Kept
<1> HIDE DEF m, count
<1>5. count + m < xLength /\ m \in 0..xLength /\ count + m \in 0..(xLength - 1) /\ count \in Nat
  BY <1>1, <1>2, <1>3, <1>4
<1>6. xHead' = Moved(xTail', count + m) /\ xHead' \in 0..(xLength - 1)
  <2>1. Moved(Moved(xTail, count), m) = Moved(xTail, count + m)
    BY <1>1, <1>2, <1>5, MovedTwice
  <2>2. Moved(xHead, m) \in 0..(xLength - 1)
    BY <1>1, <1>5, MovedFacts
  <2> QED
    BY <1>3, <2>1, <2>2 DEF m
<1>7. more = count + m
  <2>1. more \in 0..(xLength - 1) /\ xHead' = Moved(xTail', more)
    BY <1>1, <1>6, CountFactsPrimed
  <2> HIDE DEF more
  <2> QED
    BY <1>1, <1>5, <1>6, <2>1, MovedApart
<1>8. /\ unread' \in Seq(Nat) /\ Len(unread') = count + m
      /\ \A i \in 1..Len(unread) : unread'[i] = unread[i]
  <2> DEFINE new == Stored(n)
             both == unread \o new
  <2>1. unread \in Seq(Nat) /\ new \in Seq(Nat) /\ Len(new) = m /\ unread' = both
    BY <1>1, <1>2
  <2> HIDE DEF new
  <2>2. /\ both \in Seq(Nat) /\ Len(both) = Len(unread) + Len(new)
        /\ \A i \in 1..Len(unread) : both[i] = unread[i]
    BY <2>1, Appended
  <2> HIDE DEF both
  <2> QED
    BY <1>4, <2>1, <2>2
<1>9. Kept'
  <2>1. HeldAt(pucBuffer', unread \o Stored(n), xTail)
    BY <1>1, <1>2, <1>3, <1>4, <1>5, HeldTogether
  <2> QED
    BY <1>7, <1>8, <2>1 DEF Kept, HeldAt
<1>10. Framed'
  <2>1. CASE isMessageBuffer
    <3>1. PICK B \in SUBSET Nat : Messages(unread, B)
      BY <2>1 DEF Framed
    <3>2. OneMessage(Stored(n))
      <4>1. Stored(n)[1] = n /\ LengthBytes \in Nat
        BY <2>1, StoredFacts DEF StreamParameters
      <4>2. Len(Stored(n)) = LengthBytes + n
        BY <1>2, <2>1 DEF m, Overhead
      <4> QED
        BY <4>1, <4>2 DEF OneMessage
    <3>3. Messages(unread \o Stored(n), B \cup {Len(unread), Len(unread \o Stored(n))})
      BY <1>1, <1>2, <3>1, <3>2, OneMore
    <3>4. B \cup {Len(unread), Len(unread \o Stored(n))} \in SUBSET Nat
      BY <1>1, <1>2, <1>5, <1>8, <1>4
    <3>5. \E C \in SUBSET Nat : Messages(unread', C)
      BY <3>3, <3>4
    <3> QED
      BY <3>5 DEF Framed, Messages
  <2>2. CASE ~isMessageBuffer
    BY <2>2 DEF Framed
  <2> QED
    BY <2>1, <2>2
<1>11. more = count + Overhead + n /\ more \in Nat
  BY <1>2, <1>5, <1>7 DEF m
<1> QED
  BY <1>4, <1>5, <1>6, <1>8, <1>9, <1>10, <1>11 DEF m, count

\* The oldest bytes, or the first message, are taken.
LEMMA ConsumeStep ==
    ASSUME StreamParameters, StreamTypes, Kept, Framed, NEW n \in Nat \ {0},
           Overhead + n <= Len(unread), isMessageBuffer => n = unread[1],
           isMessageBuffer' = isMessageBuffer, pucBuffer' = pucBuffer, xHead' = xHead,
           xTail' = Moved(xTail, Overhead + n),
           unread' = SubSeq(unread, Overhead + n + 1, Len(unread))
    PROVE  /\ xTail' \in 0..(xLength - 1) /\ unread' \in Seq(Nat)
           /\ Kept' /\ Framed'
           /\ BytesInBuffer' \in Nat /\ BytesInBuffer' <= BytesInBuffer
           /\ SpacesAvailable' \in Nat /\ SpacesAvailable <= SpacesAvailable'
<1> DEFINE m == Overhead + n
           count == BytesInBuffer
           less == BytesInBuffer'
           spaces == SpacesAvailable
           wider == SpacesAvailable'
<1>1. /\ xHead \in 0..(xLength - 1) /\ xTail \in 0..(xLength - 1)
      /\ unread \in Seq(Nat) /\ xLength \in Nat \ {0}
  BY DEF StreamTypes, StreamParameters
<1>2. m \in Nat \ {0} /\ Overhead \in Nat
  BY StoredFacts, SMTT(60)
<1>3. /\ count \in 0..(xLength - 1) /\ spaces = xLength - 1 - count
      /\ xHead = Moved(xTail, count)
  BY <1>1, CountFacts
<1>4. Len(unread) = count /\ m <= Len(unread) /\ HeldAt(pucBuffer, unread, xTail)
      /\ xTail' = Moved(xTail, m) /\ unread' = SubSeq(unread, m + 1, Len(unread))
  BY DEF Kept
<1> HIDE DEF m, count, spaces
<1>5. /\ m + (count - m) = count /\ count - m \in 0..(xLength - 1) /\ m \in 0..Len(unread)
      /\ m \in 0..xLength /\ count - m \in Nat /\ m + (count - m) < xLength /\ count \in Nat
      /\ Len(unread) < xLength
  BY <1>1, <1>2, <1>3, <1>4
<1>6. xHead' = Moved(xTail', count - m) /\ xTail' \in 0..(xLength - 1)
  <2>1. Moved(Moved(xTail, m), count - m) = Moved(xTail, m + (count - m))
    BY <1>1, <1>2, <1>5, MovedTwice
  <2>2. Moved(xTail, m) \in 0..(xLength - 1)
    BY <1>1, <1>5, MovedFacts
  <2> QED
    BY <1>3, <1>4, <1>5, <2>1, <2>2
<1>7. less = count - m /\ wider = xLength - 1 - less
  <2>1. less \in 0..(xLength - 1) /\ xHead' = Moved(xTail', less) /\ wider = xLength - 1 - less
    BY <1>1, <1>6, CountFactsPrimed
  <2> HIDE DEF less
  <2> QED
    BY <1>1, <1>5, <1>6, <2>1, MovedApart
<1> HIDE DEF less, wider
<1>8. /\ unread' \in Seq(Nat) /\ Len(unread') = count - m
      /\ HeldAt(pucBuffer, unread', xTail')
  BY <1>1, <1>4, <1>5, HeldBehind, ZenonT(60)
<1>9. Kept'
  BY <1>7, <1>8 DEF Kept, HeldAt, less
<1>10. Framed'
  <2>1. CASE isMessageBuffer
    <3>1. m = LengthBytes + unread[1] /\ Len(unread) > 0 /\ m \in Nat
      <4>1. Overhead = LengthBytes /\ n = unread[1]
        BY <2>1 DEF Overhead
      <4>2. Len(unread) > 0
        BY <1>2, <1>4, <1>5
      <4> QED
        BY <1>2, <4>1, <4>2 DEF m
    <3>2. \E C \in SUBSET Nat : Messages(SubSeq(unread, m + 1, Len(unread)), C)
      BY <2>1, <3>1, FirstMessage
    <3>3. \E C \in SUBSET Nat : Messages(unread', C)
      BY <1>4, <3>2
    <3> QED
      BY <3>3 DEF Framed, Messages
  <2>2. CASE ~isMessageBuffer
    BY <2>2 DEF Framed
  <2> QED
    BY <2>1, <2>2
<1>11. /\ less \in Nat /\ less <= count /\ wider \in Nat /\ spaces <= wider
  BY <1>1, <1>2, <1>3, <1>5, <1>7
<1> QED
  BY <1>6, <1>8, <1>9, <1>10, <1>11 DEF less, count, spaces, wider

\* A sender writes no more than there is space for.
LEMMA WrittenFacts ==
    ASSUME StreamParameters, StreamTypes, NEW length \in Nat, NEW space \in Nat
    PROVE  /\ Written(length, space) \in Nat
           /\ Written(length, space) # 0 => Overhead + Written(length, space) <= space
<1>1. LengthBytes \in Nat /\ isMessageBuffer \in BOOLEAN
  BY DEF StreamParameters, StreamTypes
<1>2. CASE isMessageBuffer
  <2>1. Overhead = LengthBytes
    BY <1>2 DEF Overhead
  <2>2. Written(length, space) = IF space >= length + LengthBytes THEN length ELSE 0
    BY <1>2, <2>1 DEF Written
  <2>3. CASE space >= length + LengthBytes
    BY <1>1, <2>1, <2>2, <2>3
  <2>4. CASE ~(space >= length + LengthBytes)
    BY <1>1, <2>2, <2>4
  <2> QED
    BY <2>3, <2>4
<1>3. CASE ~isMessageBuffer
  <2>1. Overhead = 0 /\ Written(length, space) = IF length < space THEN length ELSE space
    BY <1>3 DEF Overhead, Written, Lesser
  <2> QED
    BY <2>1
<1> QED
  BY <1>2, <1>3

\* A reader reads no more than there is, and a message whole.
LEMMA ReadableFacts ==
    ASSUME StreamParameters, StreamTypes, Kept, Framed, NEW room \in Nat, NEW bytes \in Nat,
           bytes <= BytesInBuffer, bytes > Overhead,
           isMessageBuffer => LengthBytes + unread[1] <= bytes
    PROVE  /\ Readable(room, bytes) \in Nat
           /\ Readable(room, bytes) # 0 =>
                 /\ Overhead + Readable(room, bytes) <= Len(unread)
                 /\ isMessageBuffer => Readable(room, bytes) = unread[1]
<1>1. /\ LengthBytes \in Nat \ {0} /\ isMessageBuffer \in BOOLEAN
      /\ unread \in Seq(Nat) /\ xTail \in 0..(xLength - 1) /\ xHead \in 0..(xLength - 1)
  BY DEF StreamParameters, StreamTypes
<1> DEFINE count == BytesInBuffer
           over == Overhead
<1>2. count \in Nat /\ Len(unread) = count
  BY <1>1, CountFacts DEF Kept, StreamParameters
<1>3. bytes <= count /\ bytes > over /\ over \in Nat
  BY StoredFacts
<1>4. count = BytesInBuffer /\ over = Overhead
  OBVIOUS
<1> HIDE DEF count, over
<1>5. CASE isMessageBuffer
  <2>1. over = LengthBytes /\ Len(unread) > 0
    BY <1>1, <1>2, <1>3, <1>4, <1>5 DEF Overhead
  <2>2. ReadBytes(LengthBytes, xTail)[1] = unread[1]
    <3>1. 1 \in 1..LengthBytes /\ 1 \in 1..Len(unread)
      BY <1>1, <1>2, <2>1
    <3>2. ReadBytes(LengthBytes, xTail)[1] = pucBuffer[Moved(xTail, 1 - 1)]
      BY <3>1 DEF ReadBytes
    <3> QED
      BY <3>1, <3>2 DEF Kept, HeldAt
  <2> DEFINE first == unread[1]
             n == Readable(room, bytes)
  <2>3. first \in Nat \ {0} /\ LengthBytes + first <= bytes
    BY <1>1, <1>2, <1>5, <2>1, FirstMessage
  <2>4. n = IF first > room THEN 0 ELSE
                IF first < bytes - LengthBytes THEN first ELSE bytes - LengthBytes
    BY <1>5, <2>2 DEF Readable, Lesser
  <2> HIDE DEF n, first
  <2>5. n \in Nat /\ (n # 0 => n = first /\ LengthBytes + n <= count)
    BY <1>1, <1>2, <1>3, <2>3, <2>4
  <2> QED
    BY <1>2, <1>4, <2>1, <2>5 DEF n, first
<1>6. CASE ~isMessageBuffer
  <2> DEFINE n == Readable(room, bytes)
  <2>1. Overhead = 0 /\ n = IF room < bytes THEN room ELSE bytes
    BY <1>6 DEF Overhead, Readable, Lesser
  <2> HIDE DEF n
  <2>2. n \in Nat /\ 0 + n <= Len(unread)
    BY <1>2, <1>3, <2>1
  <2> QED
    BY <1>6, <2>1, <2>2 DEF n
<1> QED
  BY <1>5, <1>6

\* What is read is what is unread.
LEMMA ReadFacts ==
    ASSUME StreamParameters, StreamTypes, Kept, NEW n \in Nat, Overhead + n <= Len(unread)
    PROVE  /\ ReadBytes(n, Moved(xTail, Overhead)) \in Seq(Nat)
           /\ Len(ReadBytes(n, Moved(xTail, Overhead))) = n
           /\ \A i \in 1..n : ReadBytes(n, Moved(xTail, Overhead))[i] = unread[Overhead + i]
<1> DEFINE over == Overhead
           index == Moved(xTail, over)
           read == ReadBytes(n, index)
<1>1. /\ over \in Nat /\ xTail \in 0..(xLength - 1) /\ xHead \in 0..(xLength - 1)
      /\ unread \in Seq(Nat) /\ over + n <= Len(unread) /\ xLength \in Nat
  BY StoredFacts DEF StreamTypes, StreamParameters
<1>2. Len(unread) \in Nat /\ Len(unread) < xLength
  <2>1. BytesInBuffer \in 0..(xLength - 1)
    BY <1>1, CountFacts
  <2> QED
    BY <1>1, <2>1 DEF Kept
<1> HIDE DEF over
<1>3. ASSUME NEW i \in 1..n
      PROVE  pucBuffer[Moved(index, i - 1)] = unread[over + i] /\ unread[over + i] \in Nat
  <2>1. /\ i - 1 \in Nat /\ over + (i - 1) < xLength /\ over + i \in 1..Len(unread)
        /\ (over + i) - 1 = over + (i - 1)
    BY <1>1, <1>2
  <2>2. Moved(index, i - 1) = Moved(xTail, over + (i - 1))
    BY <1>1, <2>1, MovedTwice
  <2>3. pucBuffer[Moved(xTail, (over + i) - 1)] = unread[over + i]
    BY <2>1 DEF Kept, HeldAt
  <2> QED
    BY <1>1, <2>1, <2>2, <2>3
<1> HIDE DEF index
<1>4. read = [i \in 1..n |-> pucBuffer[Moved(index, i - 1)]]
  BY DEF ReadBytes
<1> HIDE DEF read
<1>5. read \in [1..n -> Nat] /\ \A i \in 1..n : read[i] = unread[over + i]
  BY <1>3, <1>4
<1>6. read \in Seq(Nat) /\ Len(read) = n
  BY <1>5
<1> QED
  BY <1>5, <1>6 DEF over, index, read

LEMMA ToFacts ==
    ASSUME StreamTypes, NEW e \in Ends, NEW place \in Places, To(e, place)
    PROVE  at' \in [Ends -> Places] /\ at'[e] = place /\ \A d \in Ends \ {e} : at'[d] = at[d]
  BY DEF StreamTypes, To

\* As long as the ring is left alone, what is said of it stays true.
LEMMA RingAlone ==
    ASSUME UNCHANGED <<ringVars, unread>>
    PROVE  /\ BytesInBuffer' = BytesInBuffer /\ SpacesAvailable' = SpacesAvailable
           /\ Overhead' = Overhead
           /\ Kept => Kept'
           /\ Framed => Framed'
<1>1. /\ xHead' = xHead /\ xTail' = xTail /\ isMessageBuffer' = isMessageBuffer
      /\ pucBuffer' = pucBuffer /\ unread' = unread
  BY DEF ringVars
<1>2. BytesInBuffer' = BytesInBuffer /\ SpacesAvailable' = SpacesAvailable /\ Overhead' = Overhead
  BY <1>1 DEF BytesInBuffer, SpacesAvailable, Overhead
<1>3. Kept => Kept'
  BY <1>1, <1>2 DEF Kept, HeldAt
<1>4. Framed => Framed'
  BY <1>1 DEF Framed, Messages
<1> QED
  BY <1>2, <1>3, <1>4

LEMMA SenderAlone ==
    ASSUME StreamParameters, StreamTypes, SenderOK,
           UNCHANGED <<isMessageBuffer, pucBuffer, xHead, nextByte, sending>>,
           at'["send"] = at["send"],
           SpacesAvailable \in Nat, SpacesAvailable' \in Nat, SpacesAvailable <= SpacesAvailable'
    PROVE  SenderOK'
<1> DEFINE spaces == SpacesAvailable
           wider == SpacesAvailable'
           after == Overhead + sending.length
<1>1. Overhead' = Overhead /\ \A n : Stored(n)' = Stored(n)
  BY DEF Overhead, Stored, NewBytes
<1>2. sending.xSpace \in Nat /\ after \in Nat /\ sending' = sending
  <2>1. sending.xSpace \in Nat /\ sending.length \in Nat
    BY DEF StreamTypes
  <2>2. Overhead \in Nat
    BY DEF StreamParameters, Overhead
  <2> QED
    BY <2>1, <2>2
<1>3. spaces \in Nat /\ wider \in Nat /\ spaces <= wider /\ sending.xSpace <= spaces
  BY DEF SenderOK
<1>4. sending'.xSpace <= wider
  <2> HIDE DEF spaces, wider
  <2> QED
    BY <1>2, <1>3
<1>5. ASSUME at["send"] = "publish"
      PROVE  /\ sending.length > 0 /\ after' <= wider
             /\ sending'.xNextHead = Moved(xHead, after)
             /\ HeldAt(pucBuffer, Stored(sending.length), xHead)
  <2>1. /\ sending.length > 0 /\ after <= spaces
        /\ sending.xNextHead = Moved(xHead, after)
        /\ HeldAt(pucBuffer, Stored(sending.length), xHead)
    BY <1>5 DEF SenderOK
  <2>2. after' = after
    BY <1>1
  <2>3. after' <= wider
    <3> HIDE DEF after, spaces, wider
    <3> QED
      BY <1>2, <1>3, <2>1, <2>2
  <2> QED
    BY <1>2, <2>1, <2>3
<1>6. HeldAt(pucBuffer, Stored(sending.length), xHead)
        => HeldAt(pucBuffer, Stored(sending.length), xHead)'
  <2>1. Stored(sending.length)' = Stored(sending.length)
    BY <1>2 DEF Stored, NewBytes
  <2> QED
    BY <2>1 DEF HeldAt, Moved
<1>7. /\ xHead' = xHead /\ Moved(xHead, after)' = Moved(xHead, after)
  BY <1>1, <1>2 DEF Moved
<1> QED
  BY <1>1, <1>2, <1>4, <1>5, <1>6, <1>7 DEF SenderOK

LEMMA ReaderAlone ==
    ASSUME StreamParameters, StreamTypes, Kept, ReaderOK,
           UNCHANGED <<isMessageBuffer, pvRxData, receiving, xTail>>,
           at'["receive"] = at["receive"],
           BytesInBuffer \in Nat, BytesInBuffer' \in Nat, BytesInBuffer <= BytesInBuffer',
           Len(unread') \in Nat, Len(unread) <= Len(unread'),
           \A i \in 1..Len(unread) : unread'[i] = unread[i]
    PROVE  ReaderOK'
<1> DEFINE count == BytesInBuffer
           more == BytesInBuffer'
           known == receiving.xBytesAvailable
           over == Overhead
           n == Len(pvRxData)
           old == Len(unread)
           new == Len(unread')
<1>1. Overhead' = Overhead /\ Moved(xTail, over + n)' = Moved(xTail, over + n)
  BY DEF Overhead, Moved
<1>2. /\ count \in Nat /\ more \in Nat /\ count <= more /\ known \in Nat
      /\ over \in Nat /\ n \in Nat /\ old = count /\ new \in Nat /\ old <= new
      /\ LengthBytes \in Nat \ {0}
  BY DEF StreamTypes, StreamParameters, Overhead, Kept
<1>3. ASSUME at["receive"] = "read"
      PROVE  /\ known' <= more
             /\ (isMessageBuffer /\ known > LengthBytes) => LengthBytes + unread'[1] <= known
  <2>1. /\ known <= count
        /\ (isMessageBuffer /\ known > LengthBytes) => LengthBytes + unread[1] <= known
    BY <1>3 DEF ReaderOK
  <2>2. known' = known
    OBVIOUS
  <2> HIDE DEF known, count, more, old, new, over, n
  <2>3. known' <= more /\ (known > LengthBytes => 1 \in 1..old)
    BY <1>2, <2>1, <2>2
  <2>4. known > LengthBytes => unread'[1] = unread[1]
    BY <2>3 DEF old
  <2> QED
    BY <2>1, <2>3, <2>4
<1>4. ASSUME at["receive"] = "consume"
      PROVE  /\ n > 0 /\ over + n <= new
             /\ receiving.xNextTail = Moved(xTail, over + n)
             /\ \A i \in 1..n : pvRxData[i] = unread'[over + i]
             /\ isMessageBuffer => n = unread'[1]
  <2>1. /\ n > 0 /\ over + n <= old
        /\ receiving.xNextTail = Moved(xTail, over + n)
        /\ \A i \in 1..n : pvRxData[i] = unread[over + i]
        /\ isMessageBuffer => n = unread[1]
    BY <1>4 DEF ReaderOK
  <2> HIDE DEF known, count, more, old, new, over, n
  <2>2. over + n <= new /\ 1 \in 1..old /\ \A i \in 1..n : over + i \in 1..old
    BY <1>2, <2>1
  <2>3. unread'[1] = unread[1]
    BY <2>2 DEF old
  <2>4. \A i \in 1..n : unread'[over + i] = unread[over + i]
    BY <2>2 DEF old
  <2> QED
    BY <2>1, <2>2, <2>3, <2>4
<1> QED
  BY <1>1, <1>3, <1>4 DEF ReaderOK

\* Who is woken sleeps no more, and the other end is not concerned.
LEMMA WakeFacts ==
    ASSUME StreamTypes, SleepersKnown, NEW e \in Ends, Wake(e)
    PROVE  /\ waitingTask' \in [Ends -> BOOLEAN]
           /\ notified' \in [Ends -> {"NOT_WAITING", "WAITING", "RECEIVED"}]
           /\ at[e] \in {"block", "asleep"} => notified'[e] = "RECEIVED"
           /\ \A d \in Ends \ {e} :
                 notified'[d] = notified[d] /\ waitingTask'[d] = waitingTask[d]
<1>1. notified' \in [Ends -> {"NOT_WAITING", "WAITING", "RECEIVED"}]
  BY DEF StreamTypes, Wake
<1>2. waitingTask' \in [Ends -> BOOLEAN]
  BY DEF StreamTypes, Wake
<1>3. at[e] \in {"block", "asleep"} => notified'[e] = "RECEIVED"
  BY DEF StreamTypes, Wake, SleepersKnown, Sleeps
<1>4. \A d \in Ends \ {e} : notified'[d] = notified[d] /\ waitingTask'[d] = waitingTask[d]
  BY DEF StreamTypes, Wake
<1> QED
  BY <1>1, <1>2, <1>3, <1>4

LEMMA RegisterFacts ==
    ASSUME StreamTypes, NEW e \in Ends, Register(e)
    PROVE  /\ waitingTask' \in [Ends -> BOOLEAN] /\ waitingTask'[e]
           /\ notified' \in [Ends -> {"NOT_WAITING", "WAITING", "RECEIVED"}]
           /\ \A d \in Ends \ {e} :
                 notified'[d] = notified[d] /\ waitingTask'[d] = waitingTask[d]
  BY DEF StreamTypes, Register

LEMMA CountsTyped ==
    ASSUME StreamParameters
    PROVE  /\ StreamTypes => BytesInBuffer \in Nat /\ SpacesAvailable \in Nat
           /\ StreamTypes' => BytesInBuffer' \in Nat /\ SpacesAvailable' \in Nat
<1>0. \A n \in 0..(xLength - 1) : n \in Nat
  BY DEF StreamParameters
<1>1. StreamTypes => BytesInBuffer \in Nat /\ SpacesAvailable \in Nat
  <2>1. StreamTypes => xHead \in 0..(xLength - 1) /\ xTail \in 0..(xLength - 1)
    BY DEF StreamTypes
  <2> QED
    BY <1>0, <2>1, CountFacts
<1>2. StreamTypes' => BytesInBuffer' \in Nat /\ SpacesAvailable' \in Nat
  <2>1. StreamTypes' => xHead' \in 0..(xLength - 1) /\ xTail' \in 0..(xLength - 1)
    BY DEF StreamTypes
  <2> QED
    BY <1>0, <2>1, CountFactsPrimed
<1> QED
  BY <1>1, <1>2

LEMMA StreamInitInv == StreamParameters /\ StreamInit => StreamInv
<1> SUFFICES ASSUME StreamParameters, StreamInit PROVE StreamInv
  OBVIOUS
<1>1. xLength \in Nat \ {0} /\ LengthBytes \in Nat \ {0} /\ unread = <<>> /\ xHead = 0 /\ xTail = 0
  BY DEF StreamParameters, StreamInit
<1>2. StreamTypes
  BY <1>1 DEF StreamInit, StreamTypes, Places, NotSending, NotReceiving
<1>3. /\ BytesInBuffer \in 0..(xLength - 1) /\ xHead = Moved(xTail, BytesInBuffer)
      /\ SpacesAvailable \in Nat
  BY <1>1, <1>2, CountFacts DEF StreamTypes
<1>4. BytesInBuffer = 0
  <2>1. BytesInBuffer = BytesFrom(xTail, xHead)
    BY DEF BytesInBuffer, BytesFrom
  <2>2. BytesFrom(xTail, xHead) = xHead - xTail
    <3>1. xHead \in 0..(xLength - 1) /\ xTail \in 0..(xLength - 1) /\ xHead >= xTail
      BY <1>1
    <3> QED
      BY <3>1, BytesAndSpaces
  <2> QED
    BY <1>1, <2>1, <2>2
<1>5. Kept
  BY <1>1, <1>4 DEF Kept, HeldAt
<1>6. Framed
  <2>1. Messages(unread, {0})
    BY <1>1 DEF Messages
  <2> QED
    BY <2>1 DEF Framed
<1>7. SenderOK /\ ReaderOK
  BY <1>3 DEF SenderOK, ReaderOK, StreamInit, NotSending, Ends
<1>8. SleepersKnown /\ NobodySleepsInVain
  BY DEF SleepersKnown, NobodySleepsInVain, Sleeps, StreamInit, Ends
<1> QED
  BY <1>2, <1>5, <1>6, <1>7, <1>8 DEF StreamInv

LEMMA BeginSendStep ==
    ASSUME StreamParameters, StreamInv, NEW c \in SendCalls, BeginSend(c)
    PROVE  StreamInv'
<1> USE DEF StreamInv
<1>1. at["send"] = "idle" /\ at' \in [Ends -> Places] /\ at'["receive"] = at["receive"]
      /\ at'["send"] \in {"look", "write"}
  BY ToFacts DEF BeginSend, Places, Ends, StreamTypes
<1>2. c.length \in Nat
  BY DEF StreamParameters
<1>3. sending' = [length |-> c.length, xSpace |-> 0, xNextHead |-> 0]
  BY DEF BeginSend, NotSending
<1>4. StreamTypes'
  <2>1. sending' \in [length : Nat, xSpace : Nat, xNextHead : 0..(xLength - 1)]
    <3>1. 0 \in 0..(xLength - 1)
      BY DEF StreamParameters
    <3> QED
      BY <1>2, <1>3, <3>1
  <2> QED
    BY <1>1, <2>1 DEF BeginSend, StreamTypes, ringVars
<1>5. /\ BytesInBuffer' = BytesInBuffer /\ SpacesAvailable' = SpacesAvailable /\ Kept' /\ Framed'
  BY RingAlone DEF BeginSend
<1>6. BytesInBuffer \in Nat /\ SpacesAvailable \in Nat
  BY CountFacts, SMTT(30) DEF StreamTypes, StreamParameters
<1>7. SenderOK'
  BY <1>1, <1>3, <1>5, <1>6 DEF SenderOK
<1>8. ReaderOK'
  BY <1>1, <1>5, <1>6, ReaderAlone, SMTT(30) DEF BeginSend, ringVars, Kept, StreamTypes
<1>9. SleepersKnown' /\ NobodySleepsInVain'
  BY <1>1, <1>5 DEF SleepersKnown, NobodySleepsInVain, Sleeps, Ends, BeginSend, ringVars
<1> QED
  BY <1>4, <1>5, <1>7, <1>8, <1>9

LEMMA LookForSpaceStep ==
    ASSUME StreamParameters, StreamInv, LookForSpace
    PROVE  StreamInv'
<1> USE DEF StreamInv
<1>1. at["send"] = "look" /\ at' \in [Ends -> Places] /\ at'["receive"] = at["receive"]
      /\ at'["send"] \in {"block", "write"}
  BY ToFacts DEF LookForSpace, Places, Ends, StreamTypes
<1>2. /\ BytesInBuffer' = BytesInBuffer /\ SpacesAvailable' = SpacesAvailable /\ Kept' /\ Framed'
      /\ Overhead' = Overhead
  BY RingAlone DEF LookForSpace
<1>3. BytesInBuffer \in Nat /\ SpacesAvailable \in Nat
  <2>1. xHead \in 0..(xLength - 1) /\ xTail \in 0..(xLength - 1)
    BY DEF StreamTypes
  <2>2. BytesInBuffer \in 0..(xLength - 1) /\ SpacesAvailable \in 0..(xLength - 1)
    BY <2>1, CountFacts
  <2> QED
    BY <2>2
<1>4. sending' = [sending EXCEPT !.xSpace = SpacesAvailable]
  BY DEF LookForSpace
<1>5. /\ waitingTask' \in [Ends -> BOOLEAN]
      /\ notified' \in [Ends -> {"NOT_WAITING", "WAITING", "RECEIVED"}]
      /\ waitingTask'["receive"] = waitingTask["receive"] /\ notified'["receive"] = notified["receive"]
      /\ at'["send"] = "block" => /\ waitingTask'["send"]
                                  /\ SpacesAvailable < RequiredSpace(sending.length)
  <2>1. CASE SpacesAvailable < RequiredSpace(sending.length)
    BY <2>1, RegisterFacts DEF LookForSpace, Ends
  <2>2. CASE ~(SpacesAvailable < RequiredSpace(sending.length))
    <3>1. at'["send"] = "write"
      BY <2>2, ToFacts DEF LookForSpace, Places, Ends
    <3> QED
      BY <2>2, <3>1 DEF LookForSpace, StreamTypes
  <2> QED
    BY <2>1, <2>2
<1>6. StreamTypes'
  BY <1>1, <1>3, <1>4, <1>5 DEF LookForSpace, StreamTypes, ringVars
<1>7. SenderOK'
  BY <1>1, <1>2, <1>3, <1>4, SMTT(30) DEF SenderOK, StreamTypes
<1>8. ReaderOK'
  BY <1>1, <1>2, <1>3, ReaderAlone, SMTT(30) DEF LookForSpace, ringVars, Kept, StreamTypes
<1>9. SleepersKnown'
  BY <1>1, <1>5 DEF SleepersKnown, Sleeps, Ends
<1>10. RequiredSpace(sending.length)' = RequiredSpace(sending.length)
  BY <1>2, <1>4 DEF RequiredSpace, StreamTypes, LookForSpace, ringVars
<1>11. NobodySleepsInVain'
  BY <1>1, <1>2, <1>5, <1>10 DEF NobodySleepsInVain, Sleeps, LookForSpace, ringVars
<1> QED
  BY <1>2, <1>6, <1>7, <1>8, <1>9, <1>11

LEMMA SenderGoesOnStep ==
    ASSUME StreamParameters, StreamInv, SenderGoesOn
    PROVE  StreamInv'
<1> USE DEF StreamInv
<1>1. at["send"] = "woken" /\ at' \in [Ends -> Places] /\ at'["receive"] = at["receive"]
      /\ at'["send"] \in {"look", "write"}
  BY ToFacts DEF SenderGoesOn, Places, Ends, StreamTypes
<1>2. /\ BytesInBuffer' = BytesInBuffer /\ SpacesAvailable' = SpacesAvailable /\ Kept' /\ Framed'
  BY RingAlone DEF SenderGoesOn
<1>3. BytesInBuffer \in Nat /\ SpacesAvailable \in Nat
  <2>1. xHead \in 0..(xLength - 1) /\ xTail \in 0..(xLength - 1)
    BY DEF StreamTypes
  <2>2. BytesInBuffer \in 0..(xLength - 1) /\ SpacesAvailable \in 0..(xLength - 1)
    BY <2>1, CountFacts
  <2> QED
    BY <2>2
<1>4. StreamTypes'
  BY <1>1 DEF SenderGoesOn, StreamTypes, ringVars
<1>5. SenderOK'
  BY <1>1, <1>2, <1>3 DEF SenderOK, SenderGoesOn
<1>6. ReaderOK'
  BY <1>1, <1>2, <1>3, ReaderAlone DEF SenderGoesOn, ringVars, Kept, StreamTypes
<1>7. waitingTask'["receive"] = waitingTask["receive"]
  BY DEF SenderGoesOn, StreamTypes, Ends
<1>8. SleepersKnown' /\ NobodySleepsInVain'
  BY <1>1, <1>2, <1>7 DEF SleepersKnown, NobodySleepsInVain, Sleeps, Ends, SenderGoesOn, ringVars
<1> QED
  BY <1>2, <1>4, <1>5, <1>6, <1>8

LEMMA WriteStep ==
    ASSUME StreamParameters, StreamInv, Write
    PROVE  StreamInv'
<1> USE DEF StreamInv
<1> DEFINE space == IF sending.xSpace = 0 THEN SpacesAvailable ELSE sending.xSpace
           n == Written(sending.length, space)
<1>1. at["send"] = "write" /\ at' \in [Ends -> Places] /\ at'["receive"] = at["receive"]
      /\ at'["send"] \in {"idle", "publish"}
  BY ToFacts DEF Write, Places, Ends, StreamTypes
<1>2. BytesInBuffer' = BytesInBuffer /\ SpacesAvailable' = SpacesAvailable /\ Overhead' = Overhead
  BY DEF Write, BytesInBuffer, SpacesAvailable, Overhead
<1>3. /\ BytesInBuffer \in Nat /\ SpacesAvailable \in 0..(xLength - 1) /\ xLength \in Nat \ {0}
      /\ xHead \in 0..(xLength - 1)
  BY CountFacts DEF StreamTypes, StreamParameters
<1>4. space \in Nat /\ space <= SpacesAvailable /\ sending.length \in Nat
  BY <1>3 DEF SenderOK, StreamTypes
<1>5. n \in Nat /\ (n # 0 => Overhead + n <= space)
  <2> HIDE DEF space
  <2> QED
    BY <1>4, WrittenFacts
<1>6. /\ n = 0 => /\ sending' = NotSending /\ pucBuffer' = pucBuffer /\ at'["send"] = "idle"
      /\ n # 0 => /\ pucBuffer' = WriteBytes(Stored(n), xHead) /\ at'["send"] = "publish"
                  /\ sending' = [sending EXCEPT !.length = n,
                                                !.xNextHead = Moved(xHead, Overhead + n)]
  BY ToFacts DEF Write, Places, Ends
<1> HIDE DEF n, space
<1>7. n # 0 => /\ pucBuffer' \in [0..(xLength - 1) -> Nat]
               /\ HeldAt(pucBuffer', unread, xTail) /\ HeldAt(pucBuffer', Stored(n), xHead)
               /\ Overhead + n <= SpacesAvailable
               /\ Moved(xHead, Overhead + n) \in 0..(xLength - 1)
  <2> SUFFICES ASSUME n # 0 PROVE /\ pucBuffer' \in [0..(xLength - 1) -> Nat]
               /\ HeldAt(pucBuffer', unread, xTail) /\ HeldAt(pucBuffer', Stored(n), xHead)
               /\ Overhead + n <= SpacesAvailable
               /\ Moved(xHead, Overhead + n) \in 0..(xLength - 1)
    OBVIOUS
  <2>1. Stored(n) \in Seq(Nat) /\ Len(Stored(n)) = Overhead + n /\ Overhead \in Nat
    BY <1>5, StoredFacts
  <2>2. Overhead + n <= SpacesAvailable /\ Overhead + n \in 0..xLength
    BY <1>3, <1>4, <1>5, <2>1
  <2>3. /\ WriteBytes(Stored(n), xHead) \in [0..(xLength - 1) -> Nat]
        /\ HeldAt(WriteBytes(Stored(n), xHead), unread, xTail)
        /\ HeldAt(WriteBytes(Stored(n), xHead), Stored(n), xHead)
    BY <2>1, <2>2, WriteKeeps
  <2>4. Moved(xHead, Overhead + n) \in 0..(xLength - 1)
    BY <1>3, <2>2, MovedFacts
  <2> QED
    BY <1>6, <2>2, <2>3, <2>4
<1>8. StreamTypes'
  <2>1. pucBuffer' \in [0..(xLength - 1) -> Nat]
    BY <1>5, <1>6, <1>7 DEF StreamTypes
  <2>2. sending' \in [length : Nat, xSpace : Nat, xNextHead : 0..(xLength - 1)]
    <3>1. NotSending \in [length : Nat, xSpace : Nat, xNextHead : 0..(xLength - 1)]
      BY <1>3 DEF NotSending
    <3>2. CASE n = 0
      BY <1>6, <3>1, <3>2
    <3>3. CASE n # 0
      BY <1>5, <1>6, <1>7, <3>3 DEF StreamTypes
    <3> QED
      BY <3>2, <3>3
  <2> QED
    BY <1>1, <2>1, <2>2 DEF Write, StreamTypes
<1>9. Kept'
  BY <1>2, <1>6, <1>7 DEF Kept, HeldAt, Write, Moved
<1>10. Framed'
  BY DEF Framed, Messages, Write
<1>11. SenderOK'
  <2>1. CASE n = 0
    BY <1>1, <1>2, <1>3, <1>6, <2>1 DEF SenderOK, NotSending
  <2>2. CASE n # 0
    <3>1. sending'.length = n /\ sending'.xSpace = sending.xSpace
          /\ sending'.xNextHead = Moved(xHead, Overhead + n)
      BY <1>6, <2>2 DEF StreamTypes
    <3>2. HeldAt(pucBuffer, Stored(sending.length), xHead)'
      <4>1. Stored(sending.length)' = Stored(n)
        BY <3>1 DEF Stored, NewBytes, Write
      <4>2. xHead' = xHead
        BY DEF Write
      <4> QED
        BY <1>7, <2>2, <4>1, <4>2 DEF HeldAt, Moved
    <3>3. xHead' = xHead /\ Moved(xHead, Overhead + sending.length)' = Moved(xHead, Overhead + n)
      BY <1>2, <3>1 DEF Write, Moved
    <3>4. n > 0
      BY <1>5, <2>2
    <3>5. sending.xSpace <= SpacesAvailable
      BY DEF SenderOK
    <3> QED
      BY <1>1, <1>2, <1>6, <1>7, <2>2, <3>1, <3>2, <3>3, <3>4, <3>5 DEF SenderOK
  <2> QED
    BY <2>1, <2>2
<1>12. ReaderOK'
  <2>1. /\ UNCHANGED <<isMessageBuffer, pvRxData, receiving, xTail>> /\ unread' = unread
        /\ Len(unread) \in Nat
    BY DEF Write, StreamTypes
  <2> QED
    BY <1>1, <1>2, <1>3, <2>1, ReaderAlone
<1>13. SleepersKnown' /\ NobodySleepsInVain'
  BY <1>1, <1>2 DEF SleepersKnown, NobodySleepsInVain, Sleeps, Ends, Write
<1> QED
  BY <1>8, <1>9, <1>10, <1>11, <1>12, <1>13

LEMMA PublishStep ==
    ASSUME StreamParameters, StreamInv, Publish
    PROVE  StreamInv'
<1> USE DEF StreamInv
<1> DEFINE n == sending.length
<1>1. at["send"] = "publish" /\ at' \in [Ends -> Places] /\ at'["receive"] = at["receive"]
      /\ at'["send"] = "published"
  BY ToFacts DEF Publish, Places, Ends
<1>2. /\ n \in Nat \ {0} /\ Overhead + n <= SpacesAvailable
      /\ sending.xNextHead = Moved(xHead, Overhead + n)
      /\ HeldAt(pucBuffer, Stored(n), xHead) /\ HeldAt(pucBuffer, unread, xTail)
  <2>1. n \in Nat
    BY DEF StreamTypes
  <2>2. n > 0
    BY <1>1 DEF SenderOK
  <2> QED
    BY <1>1, <2>1, <2>2 DEF SenderOK, Kept
<1>3. /\ isMessageBuffer' = isMessageBuffer /\ xTail' = xTail /\ pucBuffer' = pucBuffer
      /\ xHead' = Moved(xHead, Overhead + n) /\ unread' = unread \o Stored(n)
  BY <1>2 DEF Publish
<1>4. HeldAt(pucBuffer', Stored(n), xHead) /\ HeldAt(pucBuffer', unread, xTail)
  BY <1>2, <1>3
<1> HIDE DEF n
<1>5. /\ xHead' \in 0..(xLength - 1) /\ unread' \in Seq(Nat)
      /\ Kept' /\ Framed'
      /\ BytesInBuffer' = BytesInBuffer + Overhead + n
      /\ BytesInBuffer' \in Nat
      /\ \A i \in 1..Len(unread) : unread'[i] = unread[i]
      /\ Len(unread) \in Nat /\ Len(unread') = Len(unread) + (Overhead + n)
  BY <1>2, <1>3, <1>4, AppendStep
<1>6. nextByte' \in Nat
  <2>1. nextByte + n \in Nat /\ Alphabet \in Nat \ {0} /\ nextByte' = (nextByte + n) % Alphabet
    <3>1. nextByte \in Nat /\ Alphabet \in Nat \ {0}
      BY DEF StreamTypes, StreamParameters
    <3>2. nextByte' = (nextByte + n) % Alphabet
      BY DEF Publish, n
    <3> QED
      BY <1>2, <3>1, <3>2
  <2> QED
    BY <2>1
<1>7. sending' = NotSending
  BY DEF Publish
<1>8. NotSending \in [length : Nat, xSpace : Nat, xNextHead : 0..(xLength - 1)]
  <2>1. 0 \in 0..(xLength - 1)
    BY DEF StreamParameters
  <2> QED
    BY <2>1 DEF NotSending
<1>9. StreamTypes'
  BY <1>1, <1>5, <1>6, <1>7, <1>8 DEF Publish, StreamTypes
<1>10. SenderOK'
  <2>1. SpacesAvailable' \in Nat
    BY <1>9, CountsTyped
  <2> QED
    BY <1>1, <1>7, <2>1 DEF SenderOK, NotSending
<1>11. ReaderOK'
  <2>1. Overhead \in Nat /\ BytesInBuffer \in Nat
    BY CountFacts DEF StreamTypes, StreamParameters, Overhead
  <2>2. BytesInBuffer <= BytesInBuffer' /\ Len(unread) <= Len(unread') /\ Len(unread') \in Nat
    <3> DEFINE count == BytesInBuffer
               more == BytesInBuffer'
               over == Overhead
               new == Len(unread')
    <3>1. count \in Nat /\ over \in Nat /\ more = count + over + n /\ new = Len(unread) + (over + n)
      BY <1>5, <2>1
    <3> HIDE DEF count, more, over, new
    <3>2. count <= more /\ Len(unread) <= new /\ new \in Nat
      BY <1>2, <1>5, <3>1
    <3> QED
      BY <3>2 DEF count, more, new
  <2>3. UNCHANGED <<isMessageBuffer, pvRxData, receiving, xTail>>
    BY DEF Publish
  <2> QED
    BY <1>1, <1>5, <2>1, <2>2, <2>3, ReaderAlone
<1>12. SleepersKnown' /\ NobodySleepsInVain'
  BY <1>1 DEF SleepersKnown, NobodySleepsInVain, Sleeps, Ends, Publish
<1> QED
  BY <1>5, <1>9, <1>10, <1>11, <1>12

LEMMA CheckTriggerStep ==
    ASSUME StreamParameters, StreamInv, CheckTrigger
    PROVE  StreamInv'
<1> USE DEF StreamInv
<1>1. at["send"] = "published" /\ at' \in [Ends -> Places] /\ at'["receive"] = at["receive"]
      /\ at'["send"] \in {"complete", "idle"}
      /\ (Triggered(BytesInBuffer) => at'["send"] = "complete")
  BY ToFacts DEF CheckTrigger, Places, Ends, StreamTypes
<1>2. /\ BytesInBuffer' = BytesInBuffer /\ SpacesAvailable' = SpacesAvailable /\ Kept' /\ Framed'
  BY RingAlone DEF CheckTrigger
<1>3. BytesInBuffer \in Nat /\ SpacesAvailable \in Nat
  <2>1. xHead \in 0..(xLength - 1) /\ xTail \in 0..(xLength - 1)
    BY DEF StreamTypes
  <2>2. BytesInBuffer \in 0..(xLength - 1) /\ SpacesAvailable \in 0..(xLength - 1)
    BY <2>1, CountFacts
  <2> QED
    BY <2>2
<1>4. StreamTypes'
  BY <1>1 DEF CheckTrigger, StreamTypes, ringVars
<1>5. SenderOK'
  BY <1>1, <1>2, <1>3 DEF SenderOK, CheckTrigger
<1>6. ReaderOK'
  BY <1>1, <1>2, <1>3, ReaderAlone DEF CheckTrigger, ringVars, Kept, StreamTypes
<1>7. at'["send"] = "idle" => BytesInBuffer < xTriggerLevelBytes
  <2> DEFINE count == BytesInBuffer
  <2>1. count \in Nat /\ xTriggerLevelBytes \in Nat /\ (count >= xTriggerLevelBytes => at'["send"] = "complete")
    BY <1>1, <1>3 DEF StreamTypes, Triggered
  <2> HIDE DEF count
  <2>2. at'["send"] = "idle" => count < xTriggerLevelBytes
    BY <2>1
  <2> QED
    BY <2>2 DEF count
<1>8. SleepersKnown' /\ NobodySleepsInVain'
  BY <1>1, <1>2, <1>7 DEF SleepersKnown, NobodySleepsInVain, Sleeps, Ends, CheckTrigger, ringVars
<1> QED
  BY <1>2, <1>4, <1>5, <1>6, <1>8

LEMMA CompleteSendStep ==
    ASSUME StreamParameters, StreamInv, CompleteSend
    PROVE  StreamInv'
<1> USE DEF StreamInv
<1>1. at["send"] = "complete" /\ at' \in [Ends -> Places] /\ at'["receive"] = at["receive"]
      /\ at'["send"] = "idle"
  BY ToFacts DEF CompleteSend, Places, Ends, StreamTypes
<1>2. /\ BytesInBuffer' = BytesInBuffer /\ SpacesAvailable' = SpacesAvailable /\ Kept' /\ Framed'
  BY RingAlone DEF CompleteSend
<1>3. BytesInBuffer \in Nat /\ SpacesAvailable \in Nat
  <2>1. xHead \in 0..(xLength - 1) /\ xTail \in 0..(xLength - 1)
    BY DEF StreamTypes
  <2>2. BytesInBuffer \in 0..(xLength - 1) /\ SpacesAvailable \in 0..(xLength - 1)
    BY <2>1, CountFacts
  <2> QED
    BY <2>2
<1>4. /\ waitingTask' \in [Ends -> BOOLEAN]
      /\ notified' \in [Ends -> {"NOT_WAITING", "WAITING", "RECEIVED"}]
      /\ at["receive"] \in {"block", "asleep"} => notified'["receive"] = "RECEIVED"
      /\ notified'["send"] = notified["send"] /\ waitingTask'["send"] = waitingTask["send"]
  BY WakeFacts DEF CompleteSend, Ends
<1>5. StreamTypes'
  BY <1>1, <1>4 DEF CompleteSend, StreamTypes, ringVars
<1>6. SenderOK'
  BY <1>1, <1>2, <1>3 DEF SenderOK, CompleteSend
<1>7. ReaderOK'
  BY <1>1, <1>2, <1>3, ReaderAlone DEF CompleteSend, ringVars, Kept, StreamTypes
<1>8. SleepersKnown' /\ NobodySleepsInVain'
  BY <1>1, <1>2, <1>4 DEF SleepersKnown, NobodySleepsInVain, Sleeps, Ends, CompleteSend, ringVars
<1> QED
  BY <1>2, <1>5, <1>6, <1>7, <1>8

LEMMA SendFromISRStep ==
    ASSUME StreamParameters, StreamInv, NEW length \in Nat, StreamSendFromISR(length)
    PROVE  StreamInv'
<1> USE DEF StreamInv
<1> DEFINE n == Written(length, SpacesAvailable)
<1>1. at["send"] = "idle" /\ at' = at
  BY DEF StreamSendFromISR
<1>2. /\ BytesInBuffer \in Nat /\ SpacesAvailable \in 0..(xLength - 1) /\ xLength \in Nat \ {0}
      /\ xHead \in 0..(xLength - 1)
  <2>1. xHead \in 0..(xLength - 1) /\ xTail \in 0..(xLength - 1)
    BY DEF StreamTypes
  <2>2. BytesInBuffer \in 0..(xLength - 1) /\ SpacesAvailable \in 0..(xLength - 1)
    BY <2>1, CountFacts
  <2>3. xLength \in Nat \ {0}
    BY DEF StreamParameters
  <2> QED
    BY <2>1, <2>2, <2>3
<1>3. n \in Nat \ {0} /\ Overhead + n <= SpacesAvailable
  <2>1. n \in Nat /\ (n # 0 => Overhead + n <= SpacesAvailable)
    <3>1. SpacesAvailable \in Nat
      BY CountsTyped
    <3> QED
      BY <3>1, WrittenFacts
  <2>2. n > 0
    BY DEF StreamSendFromISR
  <2> HIDE DEF n
  <2> QED
    BY <2>1, <2>2
<1>4. /\ isMessageBuffer' = isMessageBuffer /\ xTail' = xTail
      /\ pucBuffer' = WriteBytes(Stored(n), xHead)
      /\ xHead' = Moved(xHead, Overhead + n) /\ unread' = unread \o Stored(n)
      /\ nextByte' = (nextByte + n) % Alphabet
      /\ IF Triggered(BytesInBuffer + Overhead + n) THEN Wake("receive")
         ELSE UNCHANGED <<waitingTask, notified>>
  BY DEF StreamSendFromISR
<1> HIDE DEF n
<1>5. /\ pucBuffer' \in [0..(xLength - 1) -> Nat]
      /\ HeldAt(pucBuffer', unread, xTail) /\ HeldAt(pucBuffer', Stored(n), xHead)
  <2>1. Stored(n) \in Seq(Nat) /\ Len(Stored(n)) = Overhead + n
    BY <1>3, StoredFacts
  <2>2. Len(Stored(n)) <= SpacesAvailable
    BY <1>3, <2>1
  <2> QED
    BY <1>4, <2>1, <2>2, WriteKeeps
<1>6. /\ xHead' \in 0..(xLength - 1) /\ unread' \in Seq(Nat)
      /\ Kept' /\ Framed'
      /\ BytesInBuffer' = BytesInBuffer + Overhead + n
      /\ BytesInBuffer' \in Nat
      /\ \A i \in 1..Len(unread) : unread'[i] = unread[i]
      /\ Len(unread) \in Nat /\ Len(unread') = Len(unread) + (Overhead + n)
  BY <1>3, <1>4, <1>5, AppendStep
<1>7. nextByte' \in Nat
  <2>1. nextByte + n \in Nat /\ Alphabet \in Nat \ {0}
    BY <1>3 DEF StreamTypes, StreamParameters
  <2> QED
    BY <1>4, <2>1
<1>8. /\ waitingTask' \in [Ends -> BOOLEAN]
      /\ notified' \in [Ends -> {"NOT_WAITING", "WAITING", "RECEIVED"}]
      /\ \/ at["receive"] \in {"block", "asleep"} => notified'["receive"] = "RECEIVED"
         \/ /\ BytesInBuffer' < xTriggerLevelBytes
            /\ waitingTask'["receive"] = waitingTask["receive"]
            /\ notified'["receive"] = notified["receive"]
      /\ notified'["send"] = notified["send"] /\ waitingTask'["send"] = waitingTask["send"]
  <2>1. CASE Triggered(BytesInBuffer + Overhead + n)
    BY <1>4, <2>1, WakeFacts DEF Ends
  <2>2. CASE ~Triggered(BytesInBuffer + Overhead + n)
    <3> DEFINE more == BytesInBuffer'
    <3>1. more \in Nat /\ xTriggerLevelBytes \in Nat /\ ~(more >= xTriggerLevelBytes)
      BY <1>6, <2>2 DEF Triggered, StreamTypes
    <3> HIDE DEF more
    <3>2. more < xTriggerLevelBytes
      BY <3>1
    <3> QED
      BY <1>4, <2>2, <3>2 DEF more, StreamTypes
  <2> QED
    BY <2>1, <2>2
<1>9. StreamTypes'
  BY <1>1, <1>5, <1>6, <1>7, <1>8 DEF StreamSendFromISR, StreamTypes
<1>10. SenderOK'
  <2>1. SpacesAvailable' \in Nat
    BY <1>9, CountsTyped
  <2> QED
    BY <1>1, <2>1 DEF SenderOK, NotSending, StreamSendFromISR
<1>11. ReaderOK'
  <2>1. Overhead \in Nat
    BY DEF StreamParameters, Overhead
  <2>2. BytesInBuffer <= BytesInBuffer' /\ Len(unread) <= Len(unread') /\ Len(unread') \in Nat
    <3> DEFINE count == BytesInBuffer
               more == BytesInBuffer'
               over == Overhead
               new == Len(unread')
    <3>1. count \in Nat /\ over \in Nat /\ more = count + over + n /\ new = Len(unread) + (over + n)
      BY <1>2, <1>6, <2>1
    <3> HIDE DEF count, more, over, new
    <3>2. count <= more /\ Len(unread) <= new /\ new \in Nat
      BY <1>3, <1>6, <3>1
    <3> QED
      BY <3>2 DEF count, more, new
  <2>3. UNCHANGED <<isMessageBuffer, pvRxData, receiving, xTail>>
    BY DEF StreamSendFromISR
  <2> QED
    BY <1>1, <1>2, <1>6, <2>2, <2>3, ReaderAlone
<1>12. SleepersKnown' /\ NobodySleepsInVain'
  BY <1>1, <1>8 DEF SleepersKnown, NobodySleepsInVain, Sleeps, Ends, StreamSendFromISR
<1> QED
  BY <1>6, <1>9, <1>10, <1>11, <1>12

LEMMA BeginReceiveStep ==
    ASSUME StreamParameters, StreamInv, NEW c \in ReceiveCalls, BeginReceive(c)
    PROVE  StreamInv'
<1> USE DEF StreamInv
<1>1. at["receive"] = "idle" /\ at' \in [Ends -> Places] /\ at'["send"] = at["send"]
      /\ at'["receive"] = "look"
  BY ToFacts DEF BeginReceive, Places, Ends
<1>2. /\ BytesInBuffer' = BytesInBuffer /\ SpacesAvailable' = SpacesAvailable /\ Kept' /\ Framed'
  BY RingAlone DEF BeginReceive
<1>3. BytesInBuffer \in Nat /\ SpacesAvailable \in Nat
  BY CountsTyped
<1>4. receiving' \in [room : Nat, waits : BOOLEAN, xBytesAvailable : Nat,
                      xNextTail : 0..(xLength - 1)]
  <2>1. c.room \in Nat /\ c.waits \in BOOLEAN /\ 0 \in 0..(xLength - 1)
    BY DEF StreamParameters
  <2>2. receiving' = [room |-> c.room, waits |-> c.waits, xBytesAvailable |-> 0, xNextTail |-> 0]
    BY DEF BeginReceive, NotReceiving
  <2> QED
    BY <2>1, <2>2
<1>5. StreamTypes'
  BY <1>1, <1>4 DEF BeginReceive, StreamTypes, ringVars
<1>6. SenderOK'
  BY <1>1, <1>2, <1>3, SenderAlone DEF BeginReceive, ringVars
<1>7. ReaderOK'
  BY <1>1 DEF ReaderOK
<1>8. SleepersKnown' /\ NobodySleepsInVain'
  <2>1. RequiredSpace(sending.length)' = RequiredSpace(sending.length)
    BY DEF RequiredSpace, BeginReceive, ringVars, Overhead
  <2> QED
    BY <1>1, <1>2, <2>1
       DEF SleepersKnown, NobodySleepsInVain, Sleeps, Ends, BeginReceive, ringVars
<1> QED
  BY <1>2, <1>5, <1>6, <1>7, <1>8

\* A reader that finds no more than the bytes in front of a message finds nothing, and
\* what else it finds are whole messages.
LEMMA WholeMessages ==
    ASSUME StreamParameters, StreamTypes, Kept, Framed, isMessageBuffer
    PROVE  /\ BytesInBuffer <= LengthBytes => BytesInBuffer = 0
           /\ BytesInBuffer > LengthBytes => LengthBytes + unread[1] <= BytesInBuffer
<1> DEFINE count == BytesInBuffer
           first == unread[1]
<1>1. count \in Nat /\ Len(unread) = count /\ LengthBytes \in Nat \ {0}
  BY CountsTyped DEF Kept, StreamParameters
<1>2. count > 0 => first \in Nat \ {0} /\ LengthBytes + first \in 1..count
  <2>1. Len(unread) > 0 => first \in Nat \ {0} /\ LengthBytes + first \in 1..Len(unread)
    BY FirstMessage
  <2> HIDE DEF count, first
  <2> QED
    BY <1>1, <2>1
<1> HIDE DEF count, first
<1>3. /\ count <= LengthBytes => count = 0
      /\ count > LengthBytes => LengthBytes + first <= count
  BY <1>1, <1>2
<1> QED
  BY <1>3 DEF count, first

LEMMA LookForBytesStep ==
    ASSUME StreamParameters, StreamInv, LookForBytes
    PROVE  StreamInv'
<1> USE DEF StreamInv
<1>1. at["receive"] = "look" /\ at' \in [Ends -> Places] /\ at'["send"] = at["send"]
      /\ at'["receive"] \in {"block", "read"}
  BY ToFacts DEF LookForBytes, Places, Ends
<1>2. /\ BytesInBuffer' = BytesInBuffer /\ SpacesAvailable' = SpacesAvailable /\ Kept' /\ Framed'
      /\ Overhead' = Overhead /\ isMessageBuffer' = isMessageBuffer /\ unread' = unread
  BY RingAlone DEF LookForBytes, ringVars
<1>3. BytesInBuffer \in Nat /\ SpacesAvailable \in Nat
  BY CountsTyped
<1>4. receiving' = [receiving EXCEPT !.xBytesAvailable = BytesInBuffer]
  BY DEF LookForBytes
<1>5. /\ waitingTask' \in [Ends -> BOOLEAN]
      /\ notified' \in [Ends -> {"NOT_WAITING", "WAITING", "RECEIVED"}]
      /\ waitingTask'["send"] = waitingTask["send"] /\ notified'["send"] = notified["send"]
      /\ at'["receive"] = "block" => waitingTask'["receive"] /\ BytesInBuffer <= Overhead
  <2>1. CASE receiving.waits /\ BytesInBuffer <= Overhead
    BY <2>1, RegisterFacts DEF LookForBytes, Ends
  <2>2. CASE ~(receiving.waits /\ BytesInBuffer <= Overhead)
    <3>1. at'["receive"] = "read"
      BY <2>2, ToFacts DEF LookForBytes, Places, Ends
    <3> QED
      BY <2>2, <3>1 DEF LookForBytes, StreamTypes
  <2> QED
    BY <2>1, <2>2
<1>6. StreamTypes'
  BY <1>1, <1>3, <1>4, <1>5 DEF LookForBytes, StreamTypes, ringVars
<1>7. SenderOK'
  BY <1>1, <1>2, <1>3, SenderAlone DEF LookForBytes, ringVars
<1>8. receiving'.xBytesAvailable = BytesInBuffer
  BY <1>4 DEF StreamTypes
<1>9. ReaderOK'
  <2>1. isMessageBuffer /\ BytesInBuffer > LengthBytes => LengthBytes + unread[1] <= BytesInBuffer
    BY WholeMessages
  <2>2. BytesInBuffer <= BytesInBuffer
    BY <1>3
  <2> QED
    BY <1>1, <1>2, <1>8, <2>1, <2>2 DEF ReaderOK
<1>10. SleepersKnown'
  BY <1>1, <1>5 DEF SleepersKnown, Sleeps, Ends
<1>11. BytesInBuffer <= Overhead => BytesInBuffer < xTriggerLevelBytes
  <2>1. BytesInBuffer <= Overhead => BytesInBuffer = 0
    <3>1. CASE isMessageBuffer
      BY <3>1, WholeMessages DEF Overhead
    <3>2. CASE ~isMessageBuffer
      BY <1>3, <3>2 DEF Overhead
    <3> QED
      BY <3>1, <3>2
  <2>2. 0 < xTriggerLevelBytes
    BY DEF StreamTypes
  <2> QED
    BY <2>1, <2>2
<1>12. RequiredSpace(sending.length)' = RequiredSpace(sending.length)
  BY <1>2 DEF RequiredSpace, LookForBytes
<1>13. xTriggerLevelBytes' = xTriggerLevelBytes
  BY DEF LookForBytes, ringVars
<1>14. NobodySleepsInVain'
  BY <1>1, <1>2, <1>5, <1>11, <1>12, <1>13 DEF NobodySleepsInVain, Sleeps
<1> QED
  BY <1>2, <1>6, <1>7, <1>9, <1>10, <1>14

LEMMA ReaderGoesOnStep ==
    ASSUME StreamParameters, StreamInv, ReaderGoesOn
    PROVE  StreamInv'
<1> USE DEF StreamInv
<1>1. at["receive"] = "woken" /\ at' \in [Ends -> Places] /\ at'["send"] = at["send"]
      /\ at'["receive"] = "read"
  BY ToFacts DEF ReaderGoesOn, Places, Ends
<1>2. /\ BytesInBuffer' = BytesInBuffer /\ SpacesAvailable' = SpacesAvailable /\ Kept' /\ Framed'
      /\ Overhead' = Overhead /\ isMessageBuffer' = isMessageBuffer /\ unread' = unread
  BY RingAlone DEF ReaderGoesOn, ringVars
<1>3. BytesInBuffer \in Nat /\ SpacesAvailable \in Nat
  BY CountsTyped
<1>4. receiving' = [receiving EXCEPT !.xBytesAvailable = BytesInBuffer]
      /\ waitingTask' = [waitingTask EXCEPT !["receive"] = FALSE]
  BY DEF ReaderGoesOn
<1>5. StreamTypes'
  BY <1>1, <1>3, <1>4 DEF ReaderGoesOn, StreamTypes, ringVars
<1>6. SenderOK'
  BY <1>1, <1>2, <1>3, SenderAlone DEF ReaderGoesOn, ringVars
<1>7. receiving'.xBytesAvailable = BytesInBuffer
  BY <1>4 DEF StreamTypes
<1>8. ReaderOK'
  <2>1. isMessageBuffer /\ BytesInBuffer > LengthBytes => LengthBytes + unread[1] <= BytesInBuffer
    BY WholeMessages
  <2>2. BytesInBuffer <= BytesInBuffer
    BY <1>3
  <2> QED
    BY <1>1, <1>2, <1>7, <2>1, <2>2 DEF ReaderOK
<1>9. waitingTask'["send"] = waitingTask["send"] /\ notified' = notified
  BY <1>4 DEF ReaderGoesOn, StreamTypes, Ends
<1>10. RequiredSpace(sending.length)' = RequiredSpace(sending.length)
  BY <1>2 DEF RequiredSpace, ReaderGoesOn
<1>11. SleepersKnown' /\ NobodySleepsInVain'
  BY <1>1, <1>2, <1>9, <1>10 DEF SleepersKnown, NobodySleepsInVain, Sleeps, Ends
<1> QED
  BY <1>2, <1>5, <1>6, <1>8, <1>11

LEMMA ReadStep ==
    ASSUME StreamParameters, StreamInv, Read
    PROVE  StreamInv'
<1> USE DEF StreamInv
<1> DEFINE bytes == receiving.xBytesAvailable
           n == IF bytes > Overhead THEN Readable(receiving.room, bytes) ELSE 0
<1>1. at["receive"] = "read" /\ at' \in [Ends -> Places] /\ at'["send"] = at["send"]
      /\ at'["receive"] \in {"idle", "consume"}
  BY ToFacts DEF Read, Places, Ends
<1>2. /\ BytesInBuffer' = BytesInBuffer /\ SpacesAvailable' = SpacesAvailable /\ Kept' /\ Framed'
      /\ Overhead' = Overhead /\ isMessageBuffer' = isMessageBuffer /\ unread' = unread
      /\ xTail' = xTail
  BY RingAlone DEF Read, ringVars
<1>3. BytesInBuffer \in Nat /\ SpacesAvailable \in Nat /\ Overhead \in Nat
  BY CountsTyped DEF Overhead, StreamParameters
<1>4. /\ bytes \in Nat /\ receiving.room \in Nat /\ bytes <= BytesInBuffer
      /\ isMessageBuffer /\ bytes > LengthBytes => LengthBytes + unread[1] <= bytes
  BY <1>1 DEF StreamTypes, ReaderOK
<1>5. /\ n \in Nat
      /\ n # 0 => /\ Overhead + n <= Len(unread)
                  /\ isMessageBuffer => n = unread[1]
  <2>1. CASE bytes > Overhead
    <3>1. isMessageBuffer => LengthBytes + unread[1] <= bytes
      BY <1>4, <2>1 DEF Overhead
    <3>2. n = Readable(receiving.room, bytes)
      BY <2>1
    <3> HIDE DEF n, bytes
    <3>3. /\ Readable(receiving.room, bytes) \in Nat
          /\ Readable(receiving.room, bytes) # 0 =>
                /\ Overhead + Readable(receiving.room, bytes) <= Len(unread)
                /\ isMessageBuffer => Readable(receiving.room, bytes) = unread[1]
      BY <1>4, <2>1, <3>1, ReadableFacts
    <3> QED
      BY <3>2, <3>3
  <2>2. CASE ~(bytes > Overhead)
    BY <2>2
  <2> QED
    BY <2>1, <2>2
<1>6. /\ n = 0 => receiving' = NotReceiving /\ pvRxData' = pvRxData /\ at'["receive"] = "idle"
      /\ n # 0 => /\ pvRxData' = ReadBytes(n, Moved(xTail, Overhead))
                  /\ receiving' = [receiving EXCEPT !.xNextTail = Moved(xTail, Overhead + n)]
                  /\ at'["receive"] = "consume"
  BY ToFacts DEF Read, Places, Ends
<1> HIDE DEF n
<1>7. n # 0 => /\ pvRxData' \in Seq(Nat) /\ Len(pvRxData') = n
               /\ \A i \in 1..n : pvRxData'[i] = unread[Overhead + i]
               /\ Moved(xTail, Overhead + n) \in 0..(xLength - 1)
               /\ n > 0
  <2> SUFFICES ASSUME n # 0
               PROVE  /\ pvRxData' \in Seq(Nat) /\ Len(pvRxData') = n
                      /\ \A i \in 1..n : pvRxData'[i] = unread[Overhead + i]
                      /\ Moved(xTail, Overhead + n) \in 0..(xLength - 1)
                      /\ n > 0
    OBVIOUS
  <2>1. /\ pvRxData' \in Seq(Nat) /\ Len(pvRxData') = n
        /\ \A i \in 1..n : pvRxData'[i] = unread[Overhead + i]
    BY <1>5, <1>6, ReadFacts
  <2>2. Moved(xTail, Overhead + n) \in 0..(xLength - 1)
    <3>1. xTail \in 0..(xLength - 1) /\ Len(unread) \in 0..(xLength - 1) /\ xLength \in Nat
      BY CountFacts DEF StreamTypes, Kept, StreamParameters
    <3>2. Overhead + n \in 0..xLength
      BY <1>3, <1>5, <3>1
    <3> QED
      BY <3>1, <3>2, MovedFacts
  <2> QED
    BY <1>5, <2>1, <2>2
<1>8. NotReceiving \in [room : Nat, waits : BOOLEAN, xBytesAvailable : Nat,
                        xNextTail : 0..(xLength - 1)]
  <2>1. 0 \in 0..(xLength - 1)
    BY DEF StreamParameters
  <2> QED
    BY <2>1 DEF NotReceiving
<1>9. receiving' \in [room : Nat, waits : BOOLEAN, xBytesAvailable : Nat,
                      xNextTail : 0..(xLength - 1)]
  BY <1>6, <1>7, <1>8 DEF StreamTypes
<1>10. StreamTypes'
  BY <1>1, <1>6, <1>7, <1>9 DEF Read, StreamTypes, ringVars
<1>11. SenderOK'
  BY <1>1, <1>2, <1>3, SenderAlone DEF Read, ringVars
<1>12. ReaderOK'
  <2>1. CASE n = 0
    BY <1>6, <2>1 DEF ReaderOK
  <2>2. CASE n # 0
    <3>1. receiving'.xNextTail = Moved(xTail, Overhead + n) /\ Len(pvRxData') = n
      BY <1>6, <1>7, <2>2 DEF StreamTypes
    <3>2. receiving'.xNextTail = Moved(xTail, Overhead + Len(pvRxData))'
      BY <1>2, <3>1 DEF Moved
    <3> QED
      BY <1>2, <1>5, <1>6, <1>7, <2>2, <3>1, <3>2 DEF ReaderOK
  <2> QED
    BY <2>1, <2>2
<1>13. RequiredSpace(sending.length)' = RequiredSpace(sending.length)
  BY <1>2 DEF RequiredSpace, Read
<1>14. SleepersKnown' /\ NobodySleepsInVain'
  BY <1>1, <1>2, <1>13 DEF SleepersKnown, NobodySleepsInVain, Sleeps, Ends, Read, ringVars
<1> QED
  BY <1>2, <1>10, <1>11, <1>12, <1>14

LEMMA ConsumeActionStep ==
    ASSUME StreamParameters, StreamInv, Consume
    PROVE  StreamInv'
<1> USE DEF StreamInv
<1> DEFINE n == Len(pvRxData)
<1>1. at["receive"] = "consume" /\ at' \in [Ends -> Places] /\ at'["send"] = at["send"]
      /\ at'["receive"] = "complete"
  BY ToFacts DEF Consume, Places, Ends
<1>2. /\ n \in Nat \ {0} /\ Overhead + n <= Len(unread)
      /\ receiving.xNextTail = Moved(xTail, Overhead + n)
      /\ isMessageBuffer => n = unread[1]
  <2>1. n \in Nat
    BY DEF StreamTypes
  <2>2. n > 0
    BY <1>1 DEF ReaderOK
  <2>3. n \in Nat \ {0}
    BY <2>1, <2>2
  <2> QED
    BY <1>1, <2>3 DEF ReaderOK
<1>3. /\ isMessageBuffer' = isMessageBuffer /\ xHead' = xHead /\ pucBuffer' = pucBuffer
      /\ xTail' = Moved(xTail, Overhead + n)
      /\ unread' = SubSeq(unread, Overhead + n + 1, Len(unread))
  BY <1>2 DEF Consume
<1> HIDE DEF n
<1>4. /\ xTail' \in 0..(xLength - 1) /\ unread' \in Seq(Nat)
      /\ Kept' /\ Framed'
      /\ SpacesAvailable' \in Nat /\ SpacesAvailable <= SpacesAvailable'
  BY <1>2, <1>3, ConsumeStep
<1>5. NotReceiving \in [room : Nat, waits : BOOLEAN, xBytesAvailable : Nat,
                        xNextTail : 0..(xLength - 1)]
  <2>1. 0 \in 0..(xLength - 1)
    BY DEF StreamParameters
  <2> QED
    BY <2>1 DEF NotReceiving
<1>6. StreamTypes'
  <2>1. receiving' = NotReceiving /\ pvRxData' = <<>> /\ <<>> \in Seq(Nat)
    BY DEF Consume
  <2> QED
    BY <1>1, <1>4, <1>5, <2>1 DEF Consume, StreamTypes
<1>7. SenderOK'
  BY <1>1, <1>4, CountsTyped, SenderAlone DEF Consume
<1>8. ReaderOK'
  BY <1>1 DEF ReaderOK
<1>9. SleepersKnown' /\ NobodySleepsInVain'
  BY <1>1 DEF SleepersKnown, NobodySleepsInVain, Sleeps, Ends, Consume
<1> QED
  BY <1>4, <1>6, <1>7, <1>8, <1>9

LEMMA CompleteReceiveStep ==
    ASSUME StreamParameters, StreamInv, CompleteReceive
    PROVE  StreamInv'
<1> USE DEF StreamInv
<1>1. at["receive"] = "complete" /\ at' \in [Ends -> Places] /\ at'["send"] = at["send"]
      /\ at'["receive"] = "idle"
  BY ToFacts DEF CompleteReceive, Places, Ends
<1>2. /\ BytesInBuffer' = BytesInBuffer /\ SpacesAvailable' = SpacesAvailable /\ Kept' /\ Framed'
  BY RingAlone DEF CompleteReceive
<1>3. SpacesAvailable \in Nat
  BY CountsTyped
<1>4. /\ waitingTask' \in [Ends -> BOOLEAN]
      /\ notified' \in [Ends -> {"NOT_WAITING", "WAITING", "RECEIVED"}]
      /\ at["send"] \in {"block", "asleep"} => notified'["send"] = "RECEIVED"
      /\ notified'["receive"] = notified["receive"] /\ waitingTask'["receive"] = waitingTask["receive"]
  BY WakeFacts DEF CompleteReceive, Ends
<1>5. StreamTypes'
  BY <1>1, <1>4 DEF CompleteReceive, StreamTypes, ringVars
<1>6. SenderOK'
  BY <1>1, <1>2, <1>3, SenderAlone DEF CompleteReceive, ringVars
<1>7. ReaderOK'
  BY <1>1 DEF ReaderOK
<1>8. SleepersKnown' /\ NobodySleepsInVain'
  BY <1>1, <1>4 DEF SleepersKnown, NobodySleepsInVain, Sleeps, Ends
<1> QED
  BY <1>2, <1>5, <1>6, <1>7, <1>8

LEMMA ReceiveFromISRStep ==
    ASSUME StreamParameters, StreamInv, NEW room \in Nat, StreamReceiveFromISR(room)
    PROVE  StreamInv'
<1> USE DEF StreamInv
<1> DEFINE n == Readable(room, BytesInBuffer)
<1>1. at["receive"] = "idle" /\ at' = at /\ BytesInBuffer > Overhead /\ n > 0
  BY DEF StreamReceiveFromISR
<1>2. /\ n \in Nat \ {0} /\ Overhead + n <= Len(unread)
      /\ isMessageBuffer => n = unread[1]
  <2>1. BytesInBuffer \in Nat /\ BytesInBuffer <= BytesInBuffer
    BY CountsTyped
  <2>2. isMessageBuffer => LengthBytes + unread[1] <= BytesInBuffer
    BY <1>1, WholeMessages DEF Overhead
  <2>3. n \in Nat /\ (n # 0 => /\ Overhead + n <= Len(unread)
                               /\ isMessageBuffer => n = unread[1])
    BY <1>1, <2>1, <2>2, ReadableFacts
  <2> HIDE DEF n
  <2>4. n # 0
    BY <1>1, <2>3
  <2> QED
    BY <2>3, <2>4
<1>3. /\ isMessageBuffer' = isMessageBuffer /\ xHead' = xHead /\ pucBuffer' = pucBuffer
      /\ xTail' = Moved(xTail, Overhead + n)
      /\ unread' = SubSeq(unread, Overhead + n + 1, Len(unread))
  BY DEF StreamReceiveFromISR
<1> HIDE DEF n
<1>4. /\ xTail' \in 0..(xLength - 1) /\ unread' \in Seq(Nat)
      /\ Kept' /\ Framed'
      /\ SpacesAvailable' \in Nat /\ SpacesAvailable <= SpacesAvailable'
  BY <1>2, <1>3, ConsumeStep
<1>5. /\ waitingTask' \in [Ends -> BOOLEAN]
      /\ notified' \in [Ends -> {"NOT_WAITING", "WAITING", "RECEIVED"}]
      /\ at["send"] \in {"block", "asleep"} => notified'["send"] = "RECEIVED"
      /\ notified'["receive"] = notified["receive"] /\ waitingTask'["receive"] = waitingTask["receive"]
  BY WakeFacts DEF StreamReceiveFromISR, Ends
<1>6. StreamTypes'
  BY <1>4, <1>5 DEF StreamReceiveFromISR, StreamTypes
<1>7. SenderOK'
  BY <1>4, CountsTyped, SenderAlone DEF StreamReceiveFromISR
<1>8. ReaderOK'
  BY <1>1 DEF ReaderOK
<1>9. SleepersKnown' /\ NobodySleepsInVain'
  BY <1>1, <1>5 DEF SleepersKnown, NobodySleepsInVain, Sleeps, Ends
<1> QED
  BY <1>4, <1>6, <1>7, <1>8, <1>9

LEMMA ResetStep ==
    ASSUME StreamParameters, StreamInv, Reset
    PROVE  StreamInv'
<1> USE DEF StreamInv
<1>1. /\ at["receive"] = "idle" /\ at["send"] # "publish" /\ at' = at
      /\ \A e \in Ends : ~waitingTask[e]
      /\ xHead' = 0 /\ xTail' = 0 /\ unread' = <<>>
      /\ UNCHANGED <<isMessageBuffer, pucBuffer, xTriggerLevelBytes, waitingTask, notified,
                     sending, receiving, pvRxData, nextByte>>
  BY DEF Reset
<1>2. xLength \in Nat \ {0} /\ 0 \in 0..(xLength - 1)
  BY DEF StreamParameters
<1>3. StreamTypes'
  BY <1>1, <1>2, SMTT(60) DEF StreamTypes
<1>4. BytesInBuffer' = 0 /\ SpacesAvailable' = xLength - 1
  <2>1. BytesInBuffer' = BytesFrom(0, 0) /\ SpacesAvailable' = SpacesFrom(0, 0)
    BY <1>1 DEF BytesInBuffer, SpacesAvailable, BytesFrom, SpacesFrom
  <2>2. 0 >= 0 => BytesFrom(0, 0) = 0 - 0 /\ SpacesFrom(0, 0) = xLength - 1 - (0 - 0)
    BY <1>2, BytesAndSpaces
  <2> QED
    BY <1>2, <2>1, <2>2
<1>5. Kept'
  BY <1>1, <1>4 DEF Kept, HeldAt
<1>6. Framed'
  <2>1. Messages(unread', {0})
    BY <1>1 DEF Messages
  <2>2. \E B \in SUBSET Nat : Messages(unread', B)
    BY <2>1
  <2> QED
    BY <2>2 DEF Framed, Messages
<1>7. SenderOK'
  <2>1. sending.xSpace <= xLength - 1
    <3> DEFINE spaces == SpacesAvailable
    <3>1. spaces \in 0..(xLength - 1) /\ sending.xSpace \in Nat /\ sending.xSpace <= spaces
      BY CountFacts DEF StreamTypes, SenderOK
    <3> HIDE DEF spaces
    <3> QED
      BY <1>2, <3>1
  <2>2. NotSending' = NotSending
    BY DEF NotSending
  <2> QED
    BY <1>1, <1>4, <2>1, <2>2 DEF SenderOK
<1>8. ReaderOK'
  BY <1>1 DEF ReaderOK
<1>9. SleepersKnown' /\ NobodySleepsInVain'
  BY <1>1 DEF SleepersKnown, NobodySleepsInVain, Sleeps, Ends
<1> QED
  BY <1>3, <1>5, <1>6, <1>7, <1>8, <1>9

LEMMA SetTriggerLevelStep ==
    ASSUME StreamParameters, StreamInv, NEW level \in TriggerLevels, SetTriggerLevel(level)
    PROVE  StreamInv'
<1> USE DEF StreamInv
<1>1. /\ at["receive"] = "idle" /\ at' = at
      /\ xTriggerLevelBytes' = IF level = 0 THEN 1 ELSE level
      /\ UNCHANGED <<isMessageBuffer, pucBuffer, xHead, xTail, waitingTask, notified,
                     sending, receiving, pvRxData, unread, nextByte>>
  BY DEF SetTriggerLevel
<1>2. xTriggerLevelBytes' \in Nat \ {0}
  BY <1>1 DEF StreamParameters
<1>3. StreamTypes'
  BY <1>1, <1>2 DEF StreamTypes
<1>4. /\ BytesInBuffer' = BytesInBuffer /\ SpacesAvailable' = SpacesAvailable
      /\ Overhead' = Overhead
  BY <1>1 DEF BytesInBuffer, SpacesAvailable, Overhead
<1>5. Kept' /\ Framed'
  BY <1>1, <1>4 DEF Kept, HeldAt, Framed, Messages, Moved
<1>6. SenderOK'
  BY <1>1, <1>4, CountsTyped, SenderAlone
<1>7. ReaderOK'
  BY <1>1 DEF ReaderOK
<1>8. RequiredSpace(sending.length)' = RequiredSpace(sending.length)
  BY <1>1, <1>4 DEF RequiredSpace
<1>9. SleepersKnown' /\ NobodySleepsInVain'
  BY <1>1, <1>4, <1>8 DEF SleepersKnown, NobodySleepsInVain, Sleeps, Ends
<1> QED
  BY <1>3, <1>5, <1>6, <1>7, <1>9

\* To sleep, to be woken and to be late: only where the one end is, and what it was told.
LEMMA SleepStep ==
    ASSUME StreamParameters, StreamInv, NEW e \in Ends, Block(e) \/ TimeIsUp(e) \/ Awake(e)
    PROVE  StreamInv'
<1> USE DEF StreamInv
<1>1. /\ UNCHANGED <<ringVars, waitingTask, sending, receiving, pvRxData, unread, nextByte>>
      /\ UNCHANGED <<isMessageBuffer, pucBuffer, xHead, xTail, xTriggerLevelBytes>>
  BY DEF Block, TimeIsUp, Awake, ringVars
<1>2. /\ at' \in [Ends -> Places] /\ at'[e] \in {"asleep", "awake", "woken"}
      /\ \A d \in Ends \ {e} : at'[d] = at[d]
  BY ToFacts DEF Block, TimeIsUp, Awake, Places
<1>3. /\ notified' \in [Ends -> {"NOT_WAITING", "WAITING", "RECEIVED"}]
      /\ \A d \in Ends \ {e} : notified'[d] = notified[d]
  BY DEF Block, TimeIsUp, Awake, StreamTypes
<1>4. Sleeps(e)' => Sleeps(e)
  <2>1. at'[e] = "asleep" => at[e] = "block" /\ notified[e] # "RECEIVED"
    BY ToFacts DEF Block, TimeIsUp, Awake, Places
  <2> QED
    BY <1>2, <2>1 DEF Sleeps
<1>5. \A d \in Ends : Sleeps(d)' => Sleeps(d)
  BY <1>2, <1>3, <1>4 DEF Sleeps
<1>6. /\ BytesInBuffer' = BytesInBuffer /\ SpacesAvailable' = SpacesAvailable /\ Kept' /\ Framed'
      /\ Overhead' = Overhead
  BY <1>1, RingAlone
<1>7. BytesInBuffer \in Nat /\ SpacesAvailable \in Nat
  BY CountsTyped
<1>8. StreamTypes'
  BY <1>1, <1>2, <1>3 DEF StreamTypes
<1>9. CASE e = "send"
  <2>1. at'["receive"] = at["receive"]
    BY <1>2, <1>9 DEF Ends
  <2>2. SenderOK'
    BY <1>1, <1>2, <1>6, <1>9 DEF SenderOK
  <2>3. ReaderOK'
    BY <1>1, <1>6, <1>7, <2>1, ReaderAlone DEF Kept, StreamTypes
  <2>4. RequiredSpace(sending.length)' = RequiredSpace(sending.length)
    BY <1>1, <1>6 DEF RequiredSpace
  <2>5. at["send"] \notin {"published", "complete"}
    BY <1>9 DEF Block, TimeIsUp, Awake
  <2>6. SleepersKnown' /\ NobodySleepsInVain'
    BY <1>1, <1>5, <1>6, <2>1, <2>4, <2>5 DEF SleepersKnown, NobodySleepsInVain, Ends
  <2> QED
    BY <1>6, <1>8, <2>2, <2>3, <2>6
<1>10. CASE e = "receive"
  <2>1. at'["send"] = at["send"]
    BY <1>2, <1>10 DEF Ends
  <2>2. SenderOK'
    BY <1>1, <1>6, <1>7, <2>1, SenderAlone
  <2>3. ReaderOK'
    BY <1>2, <1>10 DEF ReaderOK
  <2>4. RequiredSpace(sending.length)' = RequiredSpace(sending.length)
    BY <1>1, <1>6 DEF RequiredSpace
  <2>5. at["receive"] # "complete"
    BY <1>10 DEF Block, TimeIsUp, Awake
  <2>6. SleepersKnown' /\ NobodySleepsInVain'
    BY <1>1, <1>5, <1>6, <2>1, <2>4, <2>5 DEF SleepersKnown, NobodySleepsInVain, Ends
  <2> QED
    BY <1>6, <1>8, <2>2, <2>3, <2>6
<1> QED
  BY <1>9, <1>10 DEF Ends

LEMMA StreamNextInv ==
    ASSUME StreamParameters, StreamInv, StreamNext
    PROVE  StreamInv'
<1>1. CASE \E c \in SendCalls : BeginSend(c) \/ StreamSendFromISR(c.length)
  <2>1. \A c \in SendCalls : c.length \in Nat
    BY DEF StreamParameters
  <2> QED
    BY <1>1, <2>1, BeginSendStep, SendFromISRStep
<1>2. CASE LookForSpace \/ SenderGoesOn \/ Write \/ Publish \/ CheckTrigger \/ CompleteSend
  BY <1>2, LookForSpaceStep, SenderGoesOnStep, WriteStep, PublishStep, CheckTriggerStep,
     CompleteSendStep
<1>3. CASE \E c \in ReceiveCalls : BeginReceive(c) \/ StreamReceiveFromISR(c.room)
  <2>1. \A c \in ReceiveCalls : c.room \in Nat
    BY DEF StreamParameters
  <2> QED
    BY <1>3, <2>1, BeginReceiveStep, ReceiveFromISRStep
<1>4. CASE LookForBytes \/ ReaderGoesOn \/ Read \/ Consume \/ CompleteReceive
  BY <1>4, LookForBytesStep, ReaderGoesOnStep, ReadStep, ConsumeActionStep, CompleteReceiveStep
<1>5. CASE \E e \in Ends : Block(e) \/ TimeIsUp(e) \/ Awake(e)
  BY <1>5, SleepStep
<1>6. CASE Reset
  BY <1>6, ResetStep
<1>7. CASE \E level \in TriggerLevels : SetTriggerLevel(level)
  BY <1>7, SetTriggerLevelStep
<1> QED
  BY <1>1, <1>2, <1>3, <1>4, <1>5, <1>6, <1>7 DEF StreamNext

LEMMA StreamStutterInv ==
    ASSUME StreamInv, UNCHANGED streamVars
    PROVE  StreamInv'
<1>1. UNCHANGED <<isMessageBuffer, pucBuffer, xHead, xTail, xTriggerLevelBytes, waitingTask,
                  notified, at, sending, receiving, pvRxData, unread, nextByte>>
  BY DEF streamVars, ringVars
<1>2. /\ BytesInBuffer' = BytesInBuffer /\ SpacesAvailable' = SpacesAvailable
      /\ Overhead' = Overhead
      /\ RequiredSpace(sending.length)' = RequiredSpace(sending.length)
      /\ Stored(sending.length)' = Stored(sending.length)
  BY <1>1 DEF BytesInBuffer, SpacesAvailable, Overhead, RequiredSpace, Stored, NewBytes
<1>3. StreamTypes' /\ Kept' /\ Framed'
  BY <1>1, <1>2 DEF StreamInv, StreamTypes, Kept, HeldAt, Framed, Messages, Moved
<1>4. SenderOK'
  BY <1>1, <1>2 DEF StreamInv, SenderOK, HeldAt, Moved
<1>5. ReaderOK'
  BY <1>1, <1>2 DEF StreamInv, ReaderOK, Moved
<1>6. SleepersKnown' /\ NobodySleepsInVain'
  BY <1>1, <1>2 DEF StreamInv, SleepersKnown, NobodySleepsInVain, Sleeps
<1> QED
  BY <1>3, <1>4, <1>5, <1>6 DEF StreamInv

\* The ring is read back as it was written.
LEMMA InvGivesWhole ==
    ASSUME StreamParameters, StreamInv
    PROVE  StreamIsWhole
<1> USE DEF StreamInv
<1>1. /\ Len(unread) = BytesInBuffer /\ unread \in Seq(Nat) /\ HeldAt(pucBuffer, unread, xTail)
      /\ pvRxData \in Seq(Nat) /\ isMessageBuffer \in BOOLEAN
  BY DEF Kept, StreamTypes
<1> DEFINE read == ReadBytes(BytesInBuffer, xTail)
<1>2. read = [i \in 1..Len(unread) |-> pucBuffer[Moved(xTail, i - 1)]]
  BY <1>1 DEF ReadBytes
<1>3. \A i \in 1..Len(unread) : pucBuffer[Moved(xTail, i - 1)] = unread[i]
  BY <1>1 DEF HeldAt
<1> HIDE DEF read
<1>4. unread = [i \in 1..Len(unread) |-> unread[i]]
  BY <1>1
<1>5. read = unread
  BY <1>2, <1>3, <1>4, Zenon
<1>6. ASSUME at["receive"] = "consume"
      PROVE  pvRxData = SubSeq(unread, Overhead + 1, Overhead + Len(pvRxData))
  <2> DEFINE n == Len(pvRxData)
             over == Overhead
             part == SubSeq(unread, over + 1, over + n)
  <2>1. /\ n \in Nat /\ n > 0 /\ over \in Nat /\ over + n <= Len(unread) /\ Len(unread) \in Nat
        /\ \A i \in 1..n : pvRxData[i] = unread[over + i]
    BY <1>1, <1>6 DEF ReaderOK, Overhead, StreamParameters
  <2> HIDE DEF n, over
  <2>2. part \in Seq(Nat) /\ Len(part) = n /\ \A i \in 1..n : part[i] = unread[over + i]
    <3>1. over \in 0..Len(unread) /\ n \in 0..(Len(unread) - over)
      BY <2>1
    <3> QED
      BY <1>1, <3>1, PartOf
  <2>3. Len(pvRxData) = n
    BY DEF n
  <2> HIDE DEF part
  <2>4. pvRxData = part
    <3>1. Len(pvRxData) = Len(part) /\ \A i \in 1..Len(pvRxData) : pvRxData[i] = part[i]
      BY <2>1, <2>2, <2>3
    <3> QED
      BY <1>1, <2>2, <3>1, SeqEqual
  <2> QED
    BY <2>4 DEF part, over, n
<1>7. at["receive"] = "consume" /\ isMessageBuffer => Len(pvRxData) = unread[1]
  BY DEF ReaderOK
<1> QED
  BY <1>5, <1>6, <1>7 DEF StreamIsWhole, read

LEMMA StreamSpecInv == StreamParameters => (StreamSpec => []StreamInv)
<1> SUFFICES ASSUME StreamParameters PROVE StreamSpec => []StreamInv
  OBVIOUS
<1>1. StreamInit => StreamInv
  BY StreamInitInv
<1>2. StreamInv /\ [StreamNext]_streamVars => StreamInv'
  BY StreamNextInv, StreamStutterInv
<1> QED
  BY <1>1, <1>2, PTL DEF StreamSpec

\* The ring of a stream or message buffer holds what was written and not yet read, byte
\* for byte and in its order, whatever writer, reader and interrupts do in between, and a
\* read returns the oldest bytes, or exactly one whole message (prvWriteBytesToBuffer,
\* prvReadBytesFromBuffer, xStreamBufferSend, xStreamBufferReceive).
THEOREM BytesComeOutAsTheyWentIn == StreamParameters => (StreamSpec => []StreamIsWhole)
<1> SUFFICES ASSUME StreamParameters PROVE StreamSpec => []StreamIsWhole
  OBVIOUS
<1>1. StreamInv => StreamIsWhole
  BY InvGivesWhole
<1> QED
  BY <1>1, StreamSpecInv, PTL

\* No wake-up is lost between the look at the counts and the sleep: a reader that sleeps
\* has less than the trigger level to read, and a sender that sleeps too little space,
\* unless the other end is just about to wake it (prvBytesInBuffer and the critical
\* section of xStreamBufferReceive, sbSEND_COMPLETED and sbRECEIVE_COMPLETED).
THEOREM SleepersAreWoken == StreamParameters => (StreamSpec => []NobodySleepsInVain)
<1> SUFFICES ASSUME StreamParameters PROVE StreamSpec => []NobodySleepsInVain
  OBVIOUS
<1>1. StreamInv => NobodySleepsInVain
  BY DEF StreamInv
<1> QED
  BY <1>1, StreamSpecInv, PTL

===============================================================================
