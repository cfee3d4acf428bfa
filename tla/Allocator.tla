------------------------------ MODULE Allocator -------------------------------
(* What pvPortMalloc and vPortFree promise to their callers: a piece of       *)
(* memory of the size they asked for that nobody else has, until they give it *)
(* back.                                                                      *)
EXTENDS Naturals

CONSTANTS First, Last       \* the bytes of the heap

VARIABLE held               \* [at, bytes] of every piece

Apart(p, q) == p.at + p.bytes <= q.at \/ q.at + q.bytes <= p.at

Init == held = {}

Allocate(piece) ==
    /\ piece.bytes > 0
    /\ First <= piece.at /\ piece.at + piece.bytes <= Last + 1
    /\ \A p \in held : Apart(piece, p)
    /\ held' = held \cup {piece}

Release(piece) == piece \in held /\ held' = held \ {piece}

Next ==
    \/ \E piece \in held : Release(piece)
    \/ \E piece \in held' : Allocate(piece)

Spec == Init /\ [][Next]_held
===============================================================================
