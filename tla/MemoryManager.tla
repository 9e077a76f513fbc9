---------------------------- MODULE MemoryManager ----------------------------
(***************************************************************************)
(* The kernel heap, memorymanagement.cpp: a doubly linked list of chunks,  *)
(* each a header followed by its bytes, allocated first-fit and coalesced  *)
(* with its free neighbours when freed.  Addresses are numbers and the     *)
(* null pointer is 0, as in the code.  A header that a merge has taken out *)
(* of the list stays in memory but is out of reach, so it is not kept.     *)
(***************************************************************************)
EXTENDS Integers, FiniteSets

CONSTANTS
    Start, HeapSize,   \* the region given to the constructor
    Header,            \* sizeof(MemoryChunk), 16 on i386
    RequestSizes       \* the sizes callers ask for

ASSUME HeapAssumption ==
    /\ Start \in Nat \ {0}
    /\ HeapSize \in Nat
    /\ Header \in Nat \ {0}
    /\ RequestSizes \subseteq Nat

Null == 0

VARIABLES
    chunks,   \* address of a header -> [next, prev, allocated, size]
    first     \* head of the list, Null if the region is too small

vars == <<chunks, first>>

Address == Start .. Start + HeapSize
Chunk == [next : Address \cup {Null}, prev : Address \cup {Null},
          allocated : BOOLEAN, size : 0 .. HeapSize]

TypeOK ==
    /\ DOMAIN chunks \subseteq Address
    /\ \A a \in DOMAIN chunks : chunks[a] \in Chunk
    /\ first \in {Start, Null}

Init ==
    IF HeapSize < Header
    THEN first = Null /\ chunks = [a \in {} |-> 0]
    ELSE /\ first = Start
         /\ chunks = [a \in {Start} |->
                        [next |-> Null, prev |-> Null, allocated |-> FALSE,
                         size |-> HeapSize - Header]]

\* The list is in address order, so the first chunk the search meets is the
\* one of lowest address.  It asks for more than size, not for size itself.
Fits(size) ==
    {a \in DOMAIN chunks : chunks[a].size > size /\ ~chunks[a].allocated}

\* Mutant of Split: the new header's own bytes are not taken off.
SplitWithoutHeader(a, size) ==
    LET old == chunks[a]
        temp == a + Header + size
    IN  [b \in DOMAIN chunks \cup {temp} |->
           IF b = a THEN [old EXCEPT !.next = temp, !.size = size,
                                     !.allocated = TRUE]
           ELSE IF b = temp
           THEN [next |-> old.next, prev |-> a, allocated |-> FALSE,
                 size |-> old.size - size]
           ELSE IF b = old.next THEN [chunks[b] EXCEPT !.prev = temp]
           ELSE chunks[b]]

\* Mutant of Split: the chunk that follows keeps its old prev.
SplitStalePrev(a, size) ==
    LET old == chunks[a]
        temp == a + Header + size
    IN  [b \in DOMAIN chunks \cup {temp} |->
           IF b = a THEN [old EXCEPT !.next = temp, !.size = size,
                                     !.allocated = TRUE]
           ELSE IF b = temp
           THEN [next |-> old.next, prev |-> a, allocated |-> FALSE,
                 size |-> old.size - size - Header]
           ELSE chunks[b]]

\* The chunks with the rest of a's bytes made a chunk of its own.
Split(a, size) ==
    LET old == chunks[a]
        temp == a + Header + size
    IN  [b \in DOMAIN chunks \cup {temp} |->
           IF b = a THEN [old EXCEPT !.next = temp, !.size = size,
                                     !.allocated = TRUE]
           ELSE IF b = temp
           THEN [next |-> old.next, prev |-> a, allocated |-> FALSE,
                 size |-> old.size - size - Header]
           ELSE IF b = old.next THEN [chunks[b] EXCEPT !.prev = temp]
           ELSE chunks[b]]

malloc(size) ==
    \E a \in Fits(size) :
        /\ \A b \in Fits(size) : a <= b
        /\ chunks' = IF chunks[a].size >= size + Header + 1
                     THEN Split(a, size)
                     ELSE [chunks EXCEPT ![a].allocated = TRUE]
        /\ UNCHANGED first

\* The chunks h with the successor of a merged into a.
MergeNext(h, a) ==
    LET gone == h[a].next
        after == h[gone].next
    IN  [b \in DOMAIN h \ {gone} |->
           IF b = a THEN [h[a] EXCEPT !.next = after,
                                      !.size = @ + h[gone].size + Header]
           ELSE IF b = after THEN [h[b] EXCEPT !.prev = a]
           ELSE h[b]]

\* Mutant of MergeIfFree: free merges with one neighbour only.
MergeNever(h, a) == h

FreeAt(h, a) == a # Null /\ ~h[a].allocated
MergeIfFree(h, a) == IF FreeAt(h, h[a].next) THEN MergeNext(h, a) ELSE h

\* free(ptr) of a live block: merge into a free predecessor, then take in a
\* free successor of what that gives.
free(a) ==
    LET marked == [chunks EXCEPT ![a].allocated = FALSE]
        before == chunks[a].prev
    IN  /\ chunks[a].allocated
        /\ chunks' = IF FreeAt(marked, before)
                     THEN MergeIfFree(MergeNext(marked, before), before)
                     ELSE MergeIfFree(marked, a)
        /\ UNCHANGED first

\* Callers free only what they hold; the code does not check it.
Next ==
    \/ \E size \in RequestSizes : malloc(size)
    \/ \E a \in DOMAIN chunks : free(a)

Spec == Init /\ [][Next]_vars

-----------------------------------------------------------------------------
(* Properties *)

End(a) == a + Header + chunks[a].size

\* The list is well formed and exact: each chunk ends where the next begins, the last ends
\* with the region, and prev and next agree.  So no byte is lost or shared,
\* whatever sequence of malloc and free led here.
ChunksTileHeap ==
    /\ TypeOK
    /\ \A a \in DOMAIN chunks :
         /\ chunks[a].next = IF End(a) = Start + HeapSize THEN Null ELSE End(a)
         /\ chunks[a].next # Null =>
              /\ chunks[a].next \in DOMAIN chunks
              /\ chunks[chunks[a].next].prev = a
         /\ IF a = first THEN chunks[a].prev = Null
            ELSE /\ chunks[a].prev \in DOMAIN chunks
                 /\ chunks[chunks[a].prev].next = a
    /\ \A a, b \in DOMAIN chunks : a < b => End(a) <= b
    /\ first # Null => first \in DOMAIN chunks

\* Coalescing is complete: two neighbours are never both free, so free space
\* is never refused because an earlier free left it in pieces.
NoFreeNeighbours ==
    \A a \in DOMAIN chunks :
        ~chunks[a].allocated => ~FreeAt(chunks, chunks[a].next)

\* The live blocks as their owners see them: address and length.
LiveBlocks ==
    LET held == {a \in DOMAIN chunks : chunks[a].allocated}
    IN  [p \in {a + Header : a \in held} |-> chunks[p - Header].size]

\* The allocator hands out disjoint blocks inside the heap (module Heap).
Abstract == INSTANCE Heap WITH live <- LiveBlocks
ImplementsHeap == Abstract!HeapSpec
=============================================================================
