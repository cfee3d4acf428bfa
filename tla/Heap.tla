--------------------------------- MODULE Heap ---------------------------------
(***************************************************************************)
(* heap_4.c, from which every task, queue and timer is created: blocks,    *)
(* each behind its header, and a list of the free ones by address.  The    *)
(* first that is large enough is taken and, when it leaves enough, split;  *)
(* a block that is given back grows together with its free neighbours.     *)
(* The scheduler is suspended meanwhile, so that each call is one step.    *)
(***************************************************************************)
EXTENDS Integers, FiniteSets

CONSTANTS
    ucHeap,                 \* the address of the array
    configTOTAL_HEAP_SIZE,
    portBYTE_ALIGNMENT,
    xHeapStructSize,        \* the size of a header, aligned
    heapSIZE_MAX,           \* the greatest size_t
    Requests                \* the sizes asked for

ASSUME HeapAssumption ==
    /\ ucHeap \in Nat /\ configTOTAL_HEAP_SIZE \in Nat
    /\ portBYTE_ALIGNMENT \in Nat \ {0}
    /\ xHeapStructSize \in Nat \ {0} /\ xHeapStructSize % portBYTE_ALIGNMENT = 0
    /\ heapSIZE_MAX \in Nat /\ Requests \subseteq 0..heapSIZE_MAX

AlignDown(x) == x - (x % portBYTE_ALIGNMENT)
AlignUp(x) == AlignDown(x + (portBYTE_ALIGNMENT - 1))

\* prvHeapInit: the first block, and the marker at the end.
pxFirst == AlignUp(ucHeap)
pxEnd == AlignDown(ucHeap + configTOTAL_HEAP_SIZE - xHeapStructSize)

ASSUME RoomAssumption == pxFirst \in Nat /\ pxEnd \in Nat /\ pxFirst < pxEnd

\* The head of the list, which is at no address of the heap.
xStart == -1

VARIABLES
    xBlockSize,         \* of every block, by its address
    pxNextFreeBlock,    \* of xStart and every free block
    xFreeBytesRemaining, xMinimumEverFreeBytesRemaining,
    asked               \* history: what was asked for, of every allocated block

heapVars == <<xBlockSize, pxNextFreeBlock, xFreeBytesRemaining,
              xMinimumEverFreeBytesRemaining, asked>>

Blocks == DOMAIN xBlockSize
Allocated == DOMAIN asked
FreeBlocks == DOMAIN pxNextFreeBlock \ {xStart}

HeapInit ==
    /\ xBlockSize = [b \in {pxFirst} |-> pxEnd - pxFirst]
    /\ pxNextFreeBlock = [b \in {xStart, pxFirst} |-> IF b = xStart THEN pxFirst ELSE pxEnd]
    /\ xFreeBytesRemaining = pxEnd - pxFirst
    /\ xMinimumEverFreeBytesRemaining = pxEnd - pxFirst
    /\ asked = [b \in {} |-> 0]

\* Variant of SizeWithHeader without the looks for an overflow.
SizeWraps(wanted) ==
    IF wanted = 0 THEN 0 ELSE AlignUp(wanted + xHeapStructSize) % (heapSIZE_MAX + 1)

\* What a request takes with its header, or 0: nothing was asked for, or more
\* than a size_t can say.
SizeWithHeader(wanted) ==
    LET size == AlignUp(wanted + xHeapStructSize)
    IN  IF wanted = 0 \/ size > heapSIZE_MAX THEN 0 ELSE size

\* heapBLOCK_SIZE_IS_VALID: the top bit is the mark of an allocated block.
Valid(size) == 2 * size <= heapSIZE_MAX

heapMINIMUM_BLOCK_SIZE == 2 * xHeapStructSize

\* Variant of Insertion that does not look behind the block.
InsertionForwardOnly(sizes, list, before, block) ==
    LET after == list[before]
        joins == block + sizes[block] = after /\ after # pxEnd
    IN  [sizes |-> [b \in IF joins THEN DOMAIN sizes \ {after} ELSE DOMAIN sizes |->
                       IF b = block /\ joins THEN sizes[b] + sizes[after] ELSE sizes[b]],
         list |-> [b \in (DOMAIN list \cup {block}) \ (IF joins THEN {after} ELSE {}) |->
                     IF b = block THEN (IF joins THEN list[after] ELSE after)
                     ELSE IF b = before THEN block ELSE list[b]]]

\* prvInsertBlockIntoFreeList, behind the block before: one block is made of
\* those that touch.
Insertion(sizes, list, before, block) ==
    LET after == list[before]
        joinsBefore == before # xStart /\ before + sizes[before] = block
        joinsAfter == block + sizes[block] = after /\ after # pxEnd
        whole == IF joinsBefore THEN before ELSE block
        gone == (IF joinsBefore THEN {block} ELSE {}) \cup (IF joinsAfter THEN {after} ELSE {})
        length == sizes[block] + (IF joinsBefore THEN sizes[before] ELSE 0)
                               + (IF joinsAfter THEN sizes[after] ELSE 0)
    IN  [sizes |-> [b \in DOMAIN sizes \ gone |-> IF b = whole THEN length ELSE sizes[b]],
         list |-> [b \in (DOMAIN list \cup {block}) \ gone |->
                     IF b = whole THEN (IF joinsAfter THEN list[after] ELSE after)
                     ELSE IF b = before THEN block ELSE list[b]]]

\* Where the loop over the list stops.
Precedes(list, b, block) == b \in DOMAIN list /\ b < block /\ block <= list[b]

\* The first block of the list that is large enough, and the one before it.
FirstFit(previous, size) ==
    LET fits == { b \in FreeBlocks : xBlockSize[b] >= size }
    IN  /\ pxNextFreeBlock[previous] \in fits
        /\ \A b \in fits : pxNextFreeBlock[previous] <= b

\* Taken out of the list.
Unlinked(previous, block) ==
    [b \in DOMAIN pxNextFreeBlock \ {block} |->
        IF b = previous THEN pxNextFreeBlock[block] ELSE pxNextFreeBlock[b]]

\* Variant of Account that looks at the least before the block is taken off.
AccountBefore(remaining) ==
    /\ xFreeBytesRemaining' = remaining
    /\ xMinimumEverFreeBytesRemaining' =
          IF xFreeBytesRemaining < xMinimumEverFreeBytesRemaining
          THEN xFreeBytesRemaining ELSE xMinimumEverFreeBytesRemaining

Account(remaining) ==
    /\ xFreeBytesRemaining' = remaining
    /\ xMinimumEverFreeBytesRemaining' =
          IF remaining < xMinimumEverFreeBytesRemaining
          THEN remaining ELSE xMinimumEverFreeBytesRemaining

\* The block goes to the caller as it is,
TakeWhole(block, list) ==
    /\ UNCHANGED xBlockSize
    /\ pxNextFreeBlock' = list
    /\ Account(xFreeBytesRemaining - xBlockSize[block])

\* or without what it has left over.
Split(block, size, list) ==
    LET rest == block + size
        sizes == [b \in Blocks \cup {rest} |->
                    IF b = block THEN size
                    ELSE IF b = rest THEN xBlockSize[block] - size ELSE xBlockSize[b]]
    IN  \E before \in DOMAIN list :
            /\ Precedes(list, before, rest)
            /\ xBlockSize' = Insertion(sizes, list, before, rest).sizes
            /\ pxNextFreeBlock' = Insertion(sizes, list, before, rest).list
            /\ Account(xFreeBytesRemaining - size)

\* pvPortMalloc, when it does not return NULL.
pvPortMalloc(wanted) ==
    LET size == SizeWithHeader(wanted)
    IN  /\ size > 0 /\ Valid(size) /\ size <= xFreeBytesRemaining
        /\ \E previous \in DOMAIN pxNextFreeBlock :
             /\ FirstFit(previous, size)
             /\ LET block == pxNextFreeBlock[previous]
                IN  /\ IF xBlockSize[block] - size > heapMINIMUM_BLOCK_SIZE
                       THEN Split(block, size, Unlinked(previous, block))
                       ELSE TakeWhole(block, Unlinked(previous, block))
                    /\ asked' = [b \in Allocated \cup {block} |->
                                   IF b = block THEN wanted ELSE asked[b]]

\* vPortFree
vPortFree(block) ==
    /\ block \in Allocated
    /\ xFreeBytesRemaining' = xFreeBytesRemaining + xBlockSize[block]
    /\ \E before \in DOMAIN pxNextFreeBlock :
         /\ Precedes(pxNextFreeBlock, before, block)
         /\ xBlockSize' = Insertion(xBlockSize, pxNextFreeBlock, before, block).sizes
         /\ pxNextFreeBlock' = Insertion(xBlockSize, pxNextFreeBlock, before, block).list
    /\ asked' = [b \in Allocated \ {block} |-> asked[b]]
    /\ UNCHANGED xMinimumEverFreeBytesRemaining

HeapNext ==
    \/ \E wanted \in Requests : pvPortMalloc(wanted)
    \/ \E block \in Allocated : vPortFree(block)

HeapSpec == HeapInit /\ [][HeapNext]_heapVars

-------------------------------------------------------------------------------
\* The blocks lie side by side from the beginning to the marker at the end;
Tiled ==
    /\ pxFirst \in Blocks
    /\ \A b \in Blocks : b + xBlockSize[b] \in Blocks \cup {pxEnd}
    /\ \A b, c \in Blocks : b < c => b + xBlockSize[b] <= c

\* the list leads through all the free ones, and past every address;
Linked ==
    /\ Blocks = FreeBlocks \cup Allocated /\ FreeBlocks \cap Allocated = {}
    /\ \A p \in DOMAIN pxNextFreeBlock :
          /\ p < pxNextFreeBlock[p] /\ pxNextFreeBlock[p] \in FreeBlocks \cup {pxEnd}
          /\ \A f \in FreeBlocks : f <= p \/ pxNextFreeBlock[p] <= f
    /\ \A x \in pxFirst..pxEnd :
          \E p \in DOMAIN pxNextFreeBlock : Precedes(pxNextFreeBlock, p, x)

\* and no two of them touch.
Coalesced == \A f \in FreeBlocks : f + xBlockSize[f] \notin FreeBlocks

\* The counters: what is free, byte by byte, and no more than ever was.
FreeBytes == UNION { b..(b + xBlockSize[b] - 1) : b \in FreeBlocks }
BytesCounted ==
    /\ xFreeBytesRemaining = Cardinality(FreeBytes)
    /\ xMinimumEverFreeBytesRemaining \in 0..xFreeBytesRemaining

\* Whatever is allocated and given back in whatever order, memory is neither lost
\* nor left in pieces that could be one, nor miscounted.
HeapIsSound == Tiled /\ Linked /\ Coalesced /\ BytesCounted

Memory == INSTANCE Allocator
    WITH First <- pxFirst, Last <- pxEnd - 1,
         held <- { [at |-> b + xHeapStructSize, bytes |-> asked[b]] : b \in Allocated }

\* Every caller has what it asked for, for itself alone: heap_4 implements the
\* abstract allocator.
MemoryIsExclusive == Memory!Spec
===============================================================================
