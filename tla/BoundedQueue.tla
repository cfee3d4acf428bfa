----------------------------- MODULE BoundedQueue -----------------------------
(***************************************************************************)
(* What a queue of the kernel promises to the tasks and handlers of the    *)
(* program: items come out in the order in which they went in, each once,  *)
(* and a queue of length 1 may be overwritten (a mailbox).                 *)
(***************************************************************************)
EXTENDS Naturals, Sequences

CONSTANTS Items, NoItem

VARIABLES
    bound,          \* the length the queue was created with
    contents,
    taken           \* the item last handed out

Init == bound \in Nat \ {0} /\ contents = <<>> /\ taken = NoItem

Put(x) ==
    /\ Len(contents) < bound
    /\ contents' = Append(contents, x)
    /\ UNCHANGED <<bound, taken>>

Replace(x) ==
    /\ bound = 1
    /\ contents' = <<x>>
    /\ UNCHANGED <<bound, taken>>

Get ==
    /\ contents # <<>>
    /\ taken' = Head(contents)
    /\ contents' = Tail(contents)
    /\ UNCHANGED bound

Look ==
    /\ contents # <<>>
    /\ taken' = Head(contents)
    /\ UNCHANGED <<bound, contents>>

Next == Get \/ Look \/ \E x \in Items : Put(x) \/ Replace(x)

Spec == Init /\ [][Next]_<<bound, contents, taken>>
===============================================================================
