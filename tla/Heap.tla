--------------------------------- MODULE Heap ---------------------------------
(***************************************************************************)
(* What operator new and delete promise their callers: every live block    *)
(* lies inside the heap, is as long as was asked for, and overlaps no      *)
(* other live block.  How the space is found is left open; an allocation   *)
(* may fail.  MemoryManager implements this.                               *)
(***************************************************************************)
EXTENDS Integers

CONSTANTS Start, HeapSize, RequestSizes

VARIABLE live     \* the length of each live block, by its address

InHeap(p, n) == Start <= p /\ p + n <= Start + HeapSize
Apart(p, n, q, m) == p + n <= q \/ q + m <= p

HeapInit == live = [p \in {} |-> 0]

Allocate(size) ==
    \E p \in Start .. Start + HeapSize, n \in 0 .. HeapSize :
        /\ n >= size
        /\ p \notin DOMAIN live
        /\ InHeap(p, n)
        /\ \A q \in DOMAIN live : Apart(p, n, q, live[q])
        /\ live' = [q \in DOMAIN live \cup {p} |-> IF q = p THEN n ELSE live[q]]

Release(p) ==
    /\ p \in DOMAIN live
    /\ live' = [q \in DOMAIN live \ {p} |-> live[q]]

HeapNext ==
    \/ \E size \in RequestSizes : Allocate(size)
    \/ \E p \in DOMAIN live : Release(p)

HeapSpec == HeapInit /\ [][HeapNext]_live
=============================================================================
