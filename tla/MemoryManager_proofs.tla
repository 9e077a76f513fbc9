------------------------- MODULE MemoryManager_proofs -------------------------
(***************************************************************************)
(* Proofs about MemoryManager, for every heap, header and request size:    *)
(* the chunks tile the heap, coalescing is complete, and the allocator     *)
(* implements Heap, which promises blocks that do not overlap.             *)
(***************************************************************************)
EXTENDS MemoryManager, TLAPS

-----------------------------------------------------------------------------
(* Lists of chunks *)

Limit == Start + HeapSize
EndOf(h, a) == a + Header + h[a].size

\* ChunksTileHeap of any list h that starts at f, in parts.
Typed(h) == DOMAIN h \subseteq Address /\ \A a \in DOMAIN h : h[a] \in Chunk
NextRight(h) ==
    \A a \in DOMAIN h :
        /\ h[a].next = IF EndOf(h, a) = Limit THEN Null ELSE EndOf(h, a)
        /\ h[a].next # Null => h[a].next \in DOMAIN h /\ h[h[a].next].prev = a
PrevRight(h, f) ==
    \A a \in DOMAIN h :
        IF a = f THEN h[a].prev = Null
        ELSE h[a].prev \in DOMAIN h /\ h[h[a].prev].next = a
Disjoint(h) == \A a, b \in DOMAIN h : a < b => EndOf(h, a) <= b
Tiles(h, f) ==
    /\ Typed(h) /\ NextRight(h) /\ PrevRight(h, f) /\ Disjoint(h)
    /\ f \in {Start, Null} /\ (f # Null => f \in DOMAIN h)

LEMMA TilesHeap == ChunksTileHeap <=> Tiles(chunks, first)
BY DEF ChunksTileHeap, Tiles, Typed, NextRight, PrevRight, Disjoint, TypeOK, End, EndOf, Limit

\* What is known of the numbers in such a list.
LEMMA Numbers ==
    ASSUME NEW h, NEW f, Tiles(h, f), NEW a \in DOMAIN h
    PROVE  /\ a \in Nat /\ a > 0 /\ Header \in Nat /\ Header > 0 /\ Limit \in Nat
           /\ Start \in Nat /\ Start > 0 /\ Start <= a
           /\ h[a].size \in Nat /\ h[a].size <= HeapSize
           /\ h[a].allocated \in BOOLEAN
           /\ h[a].next \in Nat /\ h[a].prev \in Nat
           /\ EndOf(h, a) \in Nat /\ a < EndOf(h, a) /\ EndOf(h, a) <= Limit
<1>1. /\ Header \in Nat /\ Header > 0 /\ Start \in Nat /\ Start > 0
      /\ HeapSize \in Nat /\ Limit \in Nat
  BY SMT, HeapAssumption DEF Limit
<1>2. a \in Address /\ h[a] \in Chunk
  BY DEF Tiles, Typed
<1>3. /\ a \in Nat /\ a > 0 /\ Start <= a
      /\ h[a].size \in Nat /\ h[a].size <= HeapSize /\ h[a].allocated \in BOOLEAN
      /\ h[a].next \in Nat /\ h[a].prev \in Nat
  BY SMT, <1>1, <1>2 DEF Address, Chunk, Null
<1>4. EndOf(h, a) \in Nat /\ a < EndOf(h, a)
  BY SMT, <1>1, <1>3 DEF EndOf
<1>5. EndOf(h, a) = Limit \/ EndOf(h, a) \in Address
  <2>1. EndOf(h, a) # Null
    BY SMT, <1>3, <1>4 DEF Null
  <2> QED
    BY <2>1 DEF Tiles, Typed, NextRight
<1>6. EndOf(h, a) <= Limit
  BY SMT, <1>1, <1>4, <1>5 DEF Address, Limit
<1> QED
  BY <1>1, <1>3, <1>4, <1>6

\* A chunk's successor, if any, begins where it ends, and so on.
LEMMA Successor ==
    ASSUME NEW h, NEW f, Tiles(h, f), NEW a \in DOMAIN h, h[a].next # Null
    PROVE  /\ h[a].next \in DOMAIN h /\ h[a].next = EndOf(h, a)
           /\ h[h[a].next].prev = a /\ h[a].next > a /\ h[a].next # f
<1>1. h[a].next \in DOMAIN h /\ h[a].next = EndOf(h, a) /\ h[h[a].next].prev = a
  BY DEF Tiles, NextRight
<1>2. h[a].next > a /\ a # Null
  BY SMT, <1>1, Numbers DEF Null
<1>3. h[a].next # f
  BY <1>1, <1>2 DEF Tiles, PrevRight
<1> QED
  BY <1>1, <1>2, <1>3

-----------------------------------------------------------------------------
(* Merging *)

\* MergeNext, field by field.
LEMMA MergeFields ==
    ASSUME NEW h, NEW f, Tiles(h, f), NEW a \in DOMAIN h, h[a].next # Null
    PROVE  LET gone == h[a].next
               g == MergeNext(h, a)
           IN  /\ DOMAIN g = DOMAIN h \ {gone}
               /\ a \in DOMAIN g
               /\ g[a].next = h[gone].next /\ g[a].prev = h[a].prev
               /\ g[a].allocated = h[a].allocated
               /\ g[a].size = h[a].size + h[gone].size + Header
<1>1. h[a].next # a
  BY SMT, Successor, Numbers
<1>2. \A b \in DOMAIN h : h[b] \in Chunk
  BY DEF Tiles, Typed
<1> QED
  BY <1>1, <1>2 DEF MergeNext, Chunk

LEMMA MergeOthers ==
    ASSUME NEW h, NEW f, Tiles(h, f), NEW a, NEW b \in DOMAIN h,
           b # a, b # h[a].next
    PROVE  /\ MergeNext(h, a)[b].next = h[b].next
           /\ MergeNext(h, a)[b].size = h[b].size
           /\ MergeNext(h, a)[b].allocated = h[b].allocated
           /\ MergeNext(h, a)[b].prev =
                IF b = h[h[a].next].next THEN a ELSE h[b].prev
<1>1. h[b] \in Chunk
  BY DEF Tiles, Typed
<1> QED
  BY <1>1 DEF MergeNext, Chunk

LEMMA MergeEnds ==
    ASSUME NEW h, NEW f, Tiles(h, f), NEW a \in DOMAIN h, h[a].next # Null
    PROVE  /\ EndOf(MergeNext(h, a), a) = EndOf(h, h[a].next)
           /\ \A b \in DOMAIN MergeNext(h, a) :
                b # a => EndOf(MergeNext(h, a), b) = EndOf(h, b)
<1> DEFINE gone == h[a].next
           g == MergeNext(h, a)
<1>1. gone \in DOMAIN h /\ gone = EndOf(h, a)
  BY Successor
<1>2. /\ a \in Nat /\ Header \in Nat /\ h[a].size \in Nat /\ h[gone].size \in Nat
  BY <1>1, Numbers
<1>3. EndOf(g, a) = EndOf(h, gone)
  <2>1. g[a].size = h[a].size + h[gone].size + Header
    BY MergeFields
  <2> QED
    BY SMT, <1>1, <1>2, <2>1 DEF EndOf
<1>4. \A b \in DOMAIN g : b # a => EndOf(g, b) = EndOf(h, b)
  <2>1. ASSUME NEW b \in DOMAIN g, b # a PROVE g[b].size = h[b].size
    <3>1. DOMAIN g = DOMAIN h \ {gone}
      BY MergeFields
    <3> QED
      BY <2>1, <3>1, MergeOthers
  <2> HIDE DEF g
  <2> QED
    BY <2>1 DEF EndOf
<1> QED
  BY <1>3, <1>4

\* Taking a chunk's successor into it keeps the list right.
LEMMA MergeTiles ==
    ASSUME NEW h, NEW f, Tiles(h, f), NEW a \in DOMAIN h, h[a].next # Null
    PROVE  Tiles(MergeNext(h, a), f)
<1> DEFINE gone == h[a].next
           after == h[gone].next
           g == MergeNext(h, a)
<1>1. /\ gone \in DOMAIN h /\ gone = EndOf(h, a) /\ h[gone].prev = a
      /\ gone > a /\ gone # f
  BY Successor
<1>2. after # Null => /\ after \in DOMAIN h /\ after = EndOf(h, gone)
                      /\ h[after].prev = gone /\ after > gone /\ after # f
  BY <1>1, Successor
<1>3. /\ DOMAIN g = DOMAIN h \ {gone} /\ a \in DOMAIN g
      /\ g[a].next = after /\ g[a].prev = h[a].prev
  BY MergeFields
<1>4. \A b \in DOMAIN g : b # a =>
        /\ g[b].next = h[b].next
        /\ g[b].prev = IF b = after THEN a ELSE h[b].prev
  <2> SUFFICES ASSUME NEW b \in DOMAIN g, b # a
               PROVE  /\ g[b].next = h[b].next
                      /\ g[b].prev = IF b = after THEN a ELSE h[b].prev
    OBVIOUS
  <2>1. b \in DOMAIN h /\ b # h[a].next
    BY <1>3
  <2> QED
    BY <2>1, MergeOthers
<1>5. /\ EndOf(g, a) = EndOf(h, gone)
      /\ \A b \in DOMAIN g : b # a => EndOf(g, b) = EndOf(h, b)
  BY MergeEnds
<1>6. \A b \in DOMAIN h : h[b].next # Null =>
        /\ h[b].next \in DOMAIN h /\ h[h[b].next].prev = b
        /\ h[b].next > b
  BY Successor
<1>7. a \in Nat /\ gone \in Nat /\ after \in Nat /\ a > 0
  BY <1>1, Numbers
<1>8. after # Null => after \in DOMAIN g /\ after # a
  BY SMT, <1>1, <1>2, <1>3, <1>7
<1>9. Typed(g)
  <2>1. DOMAIN g \subseteq Address
    BY <1>3 DEF Tiles, Typed
  <2>2. ASSUME NEW b \in DOMAIN g PROVE g[b] \in Chunk
    <3>1. h[b] \in Chunk /\ h[gone] \in Chunk /\ h[a] \in Chunk /\ a \in Address
      BY <1>1, <1>3, <2>2 DEF Tiles, Typed
    <3>2. h[a].size + h[gone].size + Header \in 0 .. HeapSize
      <4>1. a + Header + h[a].size = gone /\ gone + Header + h[gone].size <= Limit
        BY <1>1, Numbers DEF EndOf
      <4>2. /\ Start \in Nat /\ Start <= a /\ Header \in Nat
            /\ h[a].size \in Nat /\ h[gone].size \in Nat
        BY <1>1, Numbers
      <4>3. HeapSize \in Nat
        BY HeapAssumption
      <4> QED
        BY SMT, <1>7, <4>1, <4>2, <4>3 DEF Limit
    <3>3. after \in Address \cup {Null}
      BY <3>1 DEF Chunk
    <3> QED
      BY <3>1, <3>2, <3>3, <1>3 DEF MergeNext, Chunk
  <2> QED
    BY <2>1, <2>2 DEF Typed
<1> HIDE DEF g
<1>10. NextRight(g)
  <2> SUFFICES ASSUME NEW b \in DOMAIN g
               PROVE  /\ g[b].next = IF EndOf(g, b) = Limit THEN Null ELSE EndOf(g, b)
                      /\ g[b].next # Null =>
                           g[b].next \in DOMAIN g /\ g[g[b].next].prev = b
    BY DEF NextRight
  <2>1. \A c \in DOMAIN h :
          h[c].next = IF EndOf(h, c) = Limit THEN Null ELSE EndOf(h, c)
    BY DEF Tiles, NextRight
  <2>2. CASE b = a
    BY <2>1, <2>2, <1>1, <1>3, <1>4, <1>5, <1>8
  <2>3. CASE b # a
    <3>1. g[b].next = h[b].next /\ b \in DOMAIN h /\ b # gone
      BY <2>3, <1>3, <1>4
    <3>2. g[b].next = IF EndOf(g, b) = Limit THEN Null ELSE EndOf(g, b)
      BY <2>1, <2>3, <3>1, <1>5
    <3>3. ASSUME h[b].next # Null
          PROVE  h[b].next \in DOMAIN g /\ g[h[b].next].prev = b
      <4>1. h[b].next \in DOMAIN h /\ h[h[b].next].prev = b
        BY <3>1, <3>3, <1>6
      <4>2. h[b].next # gone /\ h[b].next # after
        BY <4>1, <3>1, <3>3, <2>3, <1>1, <1>2
      <4> QED
        BY <4>1, <4>2, <1>3, <1>4
    <3> QED
      BY <3>1, <3>2, <3>3
  <2> QED
    BY <2>2, <2>3
<1>11. PrevRight(g, f)
  <2> SUFFICES ASSUME NEW b \in DOMAIN g
               PROVE  IF b = f THEN g[b].prev = Null
                      ELSE g[b].prev \in DOMAIN g /\ g[g[b].prev].next = b
    BY DEF PrevRight
  <2>1. /\ b \in DOMAIN h /\ b # gone
        /\ IF b = f THEN h[b].prev = Null
           ELSE h[b].prev \in DOMAIN h /\ h[h[b].prev].next = b
    BY <1>3 DEF Tiles, PrevRight
  <2>2. b # Null
    BY SMT, <2>1, Numbers DEF Null
  <2>3. CASE b = f
    BY <2>1, <2>2, <2>3, <1>2, <1>3, <1>4
  <2>4. CASE b # f /\ b = after
    BY <2>2, <2>4, <1>3, <1>4, <1>8
  <2>5. CASE b # f /\ b # after
    <3>1. h[b].prev \in DOMAIN h /\ h[h[b].prev].next = b
      BY <2>1, <2>5
    <3>2. h[b].prev # gone /\ h[b].prev # a
      BY <3>1, <2>1, <2>5
    <3> QED
      BY <3>1, <3>2, <2>5, <1>3, <1>4
  <2> QED
    BY <2>3, <2>4, <2>5
<1>12. Disjoint(g)
  <2> SUFFICES ASSUME NEW b \in DOMAIN g, NEW c \in DOMAIN g, b < c
               PROVE  EndOf(g, b) <= c
    BY DEF Disjoint
  <2>1. b \in DOMAIN h /\ c \in DOMAIN h /\ c # gone
    BY <1>3
  <2>2. EndOf(h, b) <= c
    BY <2>1 DEF Tiles, Disjoint
  <2>3. CASE b = a
    <3>1. gone < c
      BY SMT, <1>1, <1>7, <2>1, <2>2, <2>3, Numbers
    <3> QED
      BY <3>1, <1>1, <1>5, <2>1, <2>3 DEF Tiles, Disjoint
  <2>4. CASE b # a
    BY <2>2, <2>4, <1>5
  <2> QED
    BY <2>3, <2>4
<1>13. f \in {Start, Null} /\ (f # Null => f \in DOMAIN g)
  BY <1>1, <1>3 DEF Tiles
<1>14. Tiles(g, f)
  BY <1>9, <1>10, <1>11, <1>12, <1>13 DEF Tiles
<1> QED
  BY <1>14 DEF g

-----------------------------------------------------------------------------
(* Marking and splitting *)

\* malloc's and free's allocated = true, false.
Mark(h, a, v) == [h EXCEPT ![a].allocated = v]

LEMMA MarkFields ==
    ASSUME NEW h, NEW f, Tiles(h, f), NEW a, NEW v \in BOOLEAN,
           NEW b \in DOMAIN h
    PROVE  /\ Mark(h, a, v)[b] \in Chunk
           /\ Mark(h, a, v)[b].next = h[b].next
           /\ Mark(h, a, v)[b].prev = h[b].prev
           /\ Mark(h, a, v)[b].size = h[b].size
           /\ Mark(h, a, v)[b].allocated = IF b = a THEN v ELSE h[b].allocated
<1>1. h[b] \in Chunk
  BY DEF Tiles, Typed
<1> QED
  BY <1>1 DEF Mark, Chunk

LEMMA MarkDomain == ASSUME NEW h, NEW a, NEW v PROVE DOMAIN Mark(h, a, v) = DOMAIN h
BY DEF Mark

LEMMA MarkTiles ==
    ASSUME NEW h, NEW f, Tiles(h, f), NEW a \in DOMAIN h, NEW v \in BOOLEAN
    PROVE  Tiles(Mark(h, a, v), f)
<1> DEFINE g == Mark(h, a, v)
<1>1. /\ DOMAIN g = DOMAIN h
      /\ \A b \in DOMAIN h : /\ g[b] \in Chunk /\ g[b].next = h[b].next
                             /\ g[b].prev = h[b].prev /\ g[b].size = h[b].size
  BY MarkFields, MarkDomain
<1> HIDE DEF g
<1>2. \A b \in DOMAIN h : EndOf(g, b) = EndOf(h, b)
  BY <1>1 DEF EndOf
<1>3. Typed(g)
  BY <1>1 DEF Tiles, Typed
<1>4. NextRight(g)
  BY <1>1, <1>2 DEF Tiles, NextRight
<1>5. PrevRight(g, f)
  BY <1>1 DEF Tiles, PrevRight
<1>6. Disjoint(g)
  BY <1>1, <1>2 DEF Tiles, Disjoint
<1>7. Tiles(g, f)
  BY <1>1, <1>3, <1>4, <1>5, <1>6 DEF Tiles
<1> QED
  BY <1>7 DEF g

\* A chunk that malloc may split has room for its bytes and a new header.
Room(a, size) == size \in Nat /\ chunks[a].size >= size + Header + 1

\* Where the new header goes.
Cut(a, size) == a + Header + size

LEMMA SplitPlace ==
    ASSUME Tiles(chunks, first), NEW a \in DOMAIN chunks, NEW size, Room(a, size)
    PROVE  /\ Cut(a, size) \in Address /\ Cut(a, size) \notin DOMAIN chunks
           /\ a < Cut(a, size) /\ Cut(a, size) < EndOf(chunks, a)
           /\ size \in 0 .. HeapSize
           /\ chunks[a].size - size - Header \in 0 .. HeapSize
<1>1. /\ a \in Nat /\ Header \in Nat /\ Header > 0 /\ Start \in Nat /\ Start <= a
      /\ Limit \in Nat /\ chunks[a].size \in Nat /\ chunks[a].size <= HeapSize
      /\ EndOf(chunks, a) \in Nat /\ EndOf(chunks, a) <= Limit
  BY Numbers
<1>2. size \in Nat /\ chunks[a].size >= size + Header + 1
  BY DEF Room
<1>3. HeapSize \in Nat
  BY HeapAssumption
<1>4. a < a + Header + size /\ a + Header + size < EndOf(chunks, a)
  BY SMT, <1>1, <1>2 DEF EndOf
<1>5. a + Header + size \in Address
  BY SMT, <1>1, <1>2, <1>3, <1>4 DEF Address, Limit
<1>6. a + Header + size \notin DOMAIN chunks
  <2> SUFFICES ASSUME a + Header + size \in DOMAIN chunks PROVE FALSE
    OBVIOUS
  <2>1. EndOf(chunks, a) <= a + Header + size
    BY <1>4 DEF Tiles, Disjoint
  <2>2. EndOf(chunks, a) \in Nat
    BY Numbers
  <2> QED
    BY SMT, <1>1, <1>2, <1>4, <2>1, <2>2
<1>7. size \in 0 .. HeapSize /\ chunks[a].size - size - Header \in 0 .. HeapSize
  BY SMT, <1>1, <1>2, <1>3
<1> QED
  BY <1>4, <1>5, <1>6, <1>7 DEF Cut

LEMMA SplitTypes ==
    ASSUME Tiles(chunks, first), NEW a \in DOMAIN chunks, NEW size, Room(a, size)
    PROVE  /\ chunks[a] \in Chunk /\ a \in Address
           /\ Cut(a, size) \in Address /\ size \in 0 .. HeapSize
           /\ chunks[a].size - size - Header \in 0 .. HeapSize
           /\ Cut(a, size) # a
<1>1. Cut(a, size) # a
  BY SMT, SplitPlace, Numbers DEF Cut
<1> QED
  BY <1>1, SplitPlace DEF Tiles, Typed

LEMMA SplitFront ==
    ASSUME Tiles(chunks, first), NEW a \in DOMAIN chunks, NEW size, Room(a, size)
    PROVE  /\ Split(a, size)[a] \in Chunk
           /\ Split(a, size)[a].next = Cut(a, size)
           /\ Split(a, size)[a].prev = chunks[a].prev
           /\ Split(a, size)[a].size = size
           /\ Split(a, size)[a].allocated = TRUE
BY SplitTypes DEF Split, Chunk, Cut

LEMMA SplitBack ==
    ASSUME Tiles(chunks, first), NEW a \in DOMAIN chunks, NEW size, Room(a, size)
    PROVE  /\ Split(a, size)[Cut(a, size)] \in Chunk
           /\ Split(a, size)[Cut(a, size)].next = chunks[a].next
           /\ Split(a, size)[Cut(a, size)].prev = a
           /\ Split(a, size)[Cut(a, size)].size = chunks[a].size - size - Header
           /\ Split(a, size)[Cut(a, size)].allocated = FALSE
BY SplitTypes DEF Split, Chunk, Cut

LEMMA SplitEnds ==
    ASSUME Tiles(chunks, first), NEW a \in DOMAIN chunks, NEW size, Room(a, size)
    PROVE  /\ EndOf(Split(a, size), a) = Cut(a, size)
           /\ EndOf(Split(a, size), Cut(a, size)) = EndOf(chunks, a)
<1>1. Split(a, size)[Cut(a, size)].size = chunks[a].size - size - Header
  BY SplitTypes DEF Split, Chunk, Cut
<1>2. Split(a, size)[a].size = size
  BY SplitFront
<1>3. a \in Nat /\ Header \in Nat /\ chunks[a].size \in Nat /\ size \in Nat
  BY Numbers DEF Room
<1>4. Cut(a, size) + Header + (chunks[a].size - size - Header)
        = a + Header + chunks[a].size
  BY SMT, <1>3 DEF Cut
<1> QED
  BY <1>1, <1>2, <1>4 DEF EndOf, Cut

LEMMA SplitDomain ==
    ASSUME NEW a, NEW size
    PROVE  DOMAIN Split(a, size) = DOMAIN chunks \cup {Cut(a, size)}
BY DEF Split, Cut

LEMMA SplitOthers ==
    ASSUME Tiles(chunks, first), NEW a \in DOMAIN chunks, NEW size, Room(a, size),
           NEW b \in DOMAIN chunks, b # a
    PROVE  LET g == Split(a, size)
           IN  /\ g[b].next = chunks[b].next /\ g[b].size = chunks[b].size
               /\ g[b].allocated = chunks[b].allocated
               /\ g[b].prev = IF b = chunks[a].next THEN Cut(a, size)
                              ELSE chunks[b].prev
               /\ g[b] \in Chunk
<1>1. chunks[b] \in Chunk /\ Cut(a, size) \in Address
      /\ b # Cut(a, size)
  BY SplitPlace DEF Tiles, Typed
<1> QED
  BY <1>1 DEF Split, Chunk, Cut

\* Splitting a chunk keeps the list right.
LEMMA SplitTiles ==
    ASSUME Tiles(chunks, first), NEW a \in DOMAIN chunks, NEW size, Room(a, size)
    PROVE  Tiles(Split(a, size), first)
<1> DEFINE temp == Cut(a, size)
           g == Split(a, size)
           after == chunks[a].next
<1>1. /\ temp \in Address /\ temp \notin DOMAIN chunks /\ a < temp
      /\ temp < EndOf(chunks, a)
  BY SplitPlace
<1>2. /\ DOMAIN g = DOMAIN chunks \cup {temp} /\ temp # a
      /\ g[a].next = temp /\ g[a].prev = chunks[a].prev
      /\ g[temp].next = after /\ g[temp].prev = a
      /\ g[a] \in Chunk /\ g[temp] \in Chunk
  <2>1. g[a].next = temp /\ g[a].prev = chunks[a].prev /\ g[a] \in Chunk
    BY SplitFront
  <2>2. DOMAIN g = DOMAIN chunks \cup {temp}
    BY SplitDomain
  <2>3. g[temp].next = after /\ g[temp].prev = a /\ g[temp] \in Chunk
    BY SplitBack
  <2> QED
    BY <2>1, <2>2, <2>3, SplitTypes
<1>3. /\ EndOf(g, a) = temp /\ EndOf(g, temp) = EndOf(chunks, a)
  BY SplitEnds
<1>4. ASSUME NEW b \in DOMAIN chunks, b # a
      PROVE  /\ g[b].next = chunks[b].next
             /\ g[b].prev = IF b = after THEN temp ELSE chunks[b].prev
             /\ g[b] \in Chunk /\ EndOf(g, b) = EndOf(chunks, b)
  <2>1. /\ g[b].next = chunks[b].next /\ g[b].size = chunks[b].size
        /\ g[b].prev = IF b = after THEN temp ELSE chunks[b].prev
        /\ g[b] \in Chunk
    BY <1>4, SplitOthers
  <2>2. EndOf(g, b) = EndOf(chunks, b)
    BY <2>1 DEF EndOf
  <2> QED
    BY <2>1, <2>2
<1>5. after # Null => /\ after \in DOMAIN chunks /\ after = EndOf(chunks, a)
                      /\ chunks[after].prev = a /\ after > a /\ after # first
  BY Successor
<1>6. /\ a \in Nat /\ EndOf(chunks, a) \in Nat /\ EndOf(chunks, a) <= Limit
      /\ Limit \in Nat /\ a > 0 /\ Start \in Nat /\ Start <= a
  BY Numbers
<1>7. temp \in Nat
  BY SMT, <1>1, HeapAssumption DEF Address
<1>8. temp # Null /\ temp # Limit /\ temp # first
  <2>1. first \in {Start, Null}
    BY DEF Tiles
  <2> QED
    BY SMT, <1>1, <1>6, <1>7, <2>1 DEF Null
<1>9. after # a
  BY SMT, <1>5, <1>6 DEF Null
<1> HIDE DEF g, temp
<1>10. Typed(g)
  BY <1>1, <1>2, <1>4 DEF Tiles, Typed
<1>11. NextRight(g)
  <2> SUFFICES ASSUME NEW b \in DOMAIN g
               PROVE  /\ g[b].next = IF EndOf(g, b) = Limit THEN Null ELSE EndOf(g, b)
                      /\ g[b].next # Null =>
                           g[b].next \in DOMAIN g /\ g[g[b].next].prev = b
    BY DEF NextRight
  <2>1. \A c \in DOMAIN chunks :
          /\ chunks[c].next = IF EndOf(chunks, c) = Limit THEN Null ELSE EndOf(chunks, c)
          /\ chunks[c].next # Null =>
               chunks[c].next \in DOMAIN chunks /\ chunks[chunks[c].next].prev = c
    BY DEF Tiles, NextRight
  <2>2. CASE b = a
    BY <2>2, <1>2, <1>3, <1>8
  <2>3. CASE b = temp
    BY <2>1, <2>3, <1>2, <1>3, <1>4, <1>5, <1>9
  <2>4. CASE b # a /\ b # temp
    <3>1. b \in DOMAIN chunks /\ g[b].next = chunks[b].next
      BY <2>4, <1>2, <1>4
    <3>2. g[b].next = IF EndOf(g, b) = Limit THEN Null ELSE EndOf(g, b)
      BY <2>1, <2>4, <3>1, <1>4
    <3>3. ASSUME chunks[b].next # Null
          PROVE  chunks[b].next \in DOMAIN g /\ g[chunks[b].next].prev = b
      <4>1. /\ chunks[b].next \in DOMAIN chunks
            /\ chunks[chunks[b].next].prev = b
        BY <2>1, <3>1, <3>3
      <4>2. chunks[b].next # after
        BY <4>1, <2>4, <3>3, <1>5
      <4> QED
        BY <4>1, <4>2, <1>2, <1>4
    <3> QED
      BY <3>1, <3>2, <3>3
  <2> QED
    BY <2>2, <2>3, <2>4
<1>12. PrevRight(g, first)
  <2> SUFFICES ASSUME NEW b \in DOMAIN g
               PROVE  IF b = first THEN g[b].prev = Null
                      ELSE g[b].prev \in DOMAIN g /\ g[g[b].prev].next = b
    BY DEF PrevRight
  <2>1. \A c \in DOMAIN chunks :
          IF c = first THEN chunks[c].prev = Null
          ELSE chunks[c].prev \in DOMAIN chunks /\ chunks[chunks[c].prev].next = c
    BY DEF Tiles, PrevRight
  <2>2. CASE b = temp
    BY <2>2, <1>2, <1>8
  <2>3. CASE b = a
    <3>1. chunks[b].prev # a \/ b = first
      BY <2>1, <2>3, <1>9
    <3> QED
      BY <2>1, <2>3, <3>1, <1>2, <1>4
  <2>4. CASE b # a /\ b # temp /\ b = after
    <3>1. b # Null
      BY SMT, <2>4, <1>2, Numbers DEF Null
    <3> QED
      BY <2>4, <3>1, <1>2, <1>4, <1>5
  <2>5. CASE b # a /\ b # temp /\ b # after
    <3>1. b \in DOMAIN chunks /\ g[b].prev = chunks[b].prev
      BY <2>5, <1>2, <1>4
    <3>2. b # first => chunks[b].prev # a
      BY <2>1, <2>5, <3>1
    <3> QED
      BY <2>1, <3>1, <3>2, <1>2, <1>4
  <2> QED
    BY <2>2, <2>3, <2>4, <2>5
<1>13. Disjoint(g)
  <2> SUFFICES ASSUME NEW b \in DOMAIN g, NEW c \in DOMAIN g, b < c
               PROVE  EndOf(g, b) <= c
    BY DEF Disjoint
  <2>1. \A d, e \in DOMAIN chunks : d < e => EndOf(chunks, d) <= e
    BY DEF Tiles, Disjoint
  <2>2. \A d \in DOMAIN chunks : d \in Nat /\ EndOf(chunks, d) \in Nat
    BY Numbers
  <2>3. CASE c = temp
    <3>1. CASE b = a
      BY SMT, <2>3, <3>1, <1>3, <1>7
    <3>2. CASE b # a
      <4>1. b \in DOMAIN chunks /\ b < temp
        BY SMT, <2>3, <1>2, <1>7
      <4>2. EndOf(chunks, b) <= a \/ EndOf(chunks, a) <= b
        BY SMT, <2>1, <2>2, <4>1, <3>2
      <4>3. EndOf(chunks, b) <= temp
        BY SMT, <2>2, <4>1, <4>2, <1>1, <1>6, <1>7
      <4> QED
        BY <4>1, <4>3, <2>3, <3>2, <1>4
    <3> QED
      BY <3>1, <3>2
  <2>4. CASE c # temp /\ b = temp
    <3>1. c \in DOMAIN chunks /\ a < c
      BY SMT, <2>2, <2>4, <1>1, <1>2, <1>6, <1>7
    <3> QED
      BY <2>1, <2>4, <3>1, <1>3
  <2>5. CASE c # temp /\ b = a
    <3>1. c \in DOMAIN chunks /\ EndOf(chunks, a) <= c
      BY <2>1, <2>5, <1>2
    <3> QED
      BY SMT, <2>2, <2>5, <3>1, <1>1, <1>3, <1>6, <1>7
  <2>6. CASE c # temp /\ b # temp /\ b # a
    BY <2>1, <2>6, <1>2, <1>4
  <2> QED
    BY <2>3, <2>4, <2>5, <2>6
<1>14. first \in {Start, Null} /\ (first # Null => first \in DOMAIN g)
  BY <1>2 DEF Tiles
<1>15. Tiles(g, first)
  BY <1>10, <1>11, <1>12, <1>13, <1>14 DEF Tiles
<1> QED
  BY <1>15 DEF g

-----------------------------------------------------------------------------
(* The operations *)

\* malloc takes a free chunk of more than size bytes, whole or split.
LEMMA MallocCases ==
    ASSUME Tiles(chunks, first), NEW size \in RequestSizes, malloc(size)
    PROVE  /\ first' = first
           /\ \E a \in DOMAIN chunks :
                /\ chunks[a].allocated = FALSE /\ chunks[a].size > size
                /\ \/ Room(a, size) /\ chunks' = Split(a, size)
                   \/ chunks' = Mark(chunks, a, TRUE)
<1>1. PICK a \in Fits(size) :
        chunks' = IF chunks[a].size >= size + Header + 1
                  THEN Split(a, size) ELSE [chunks EXCEPT ![a].allocated = TRUE]
  BY DEF malloc
<1>2. size \in Nat
  BY HeapAssumption
<1>3. a \in DOMAIN chunks /\ chunks[a].size > size /\ ~chunks[a].allocated
  BY DEF Fits
<1>4. chunks[a].allocated = FALSE
  BY <1>3, Numbers
<1>5. \/ Room(a, size) /\ chunks' = Split(a, size)
      \/ chunks' = Mark(chunks, a, TRUE)
  BY <1>1, <1>2 DEF Room, Mark
<1> QED
  BY <1>3, <1>4, <1>5 DEF malloc

\* free unmarks a chunk, then takes it into its predecessor if that is free,
\* and what that gives takes in its successor if that is free.
LEMMA FreeCases ==
    ASSUME Tiles(chunks, first), NEW a \in DOMAIN chunks, free(a)
    PROVE  LET marked == Mark(chunks, a, FALSE)
               before == chunks[a].prev
           IN  /\ first' = first /\ chunks[a].allocated = TRUE
               /\ \/ /\ FreeAt(marked, before) /\ before \in DOMAIN marked
                     /\ marked[before].next = a
                     /\ chunks' = MergeIfFree(MergeNext(marked, before), before)
                  \/ /\ ~FreeAt(marked, before)
                     /\ chunks' = MergeIfFree(marked, a)
<1> DEFINE marked == Mark(chunks, a, FALSE)
           before == chunks[a].prev
<1>1. first' = first /\ chunks[a].allocated = TRUE
  BY Numbers DEF free
<1>2. ASSUME FreeAt(marked, before)
      PROVE  before \in DOMAIN marked /\ marked[before].next = a
  <2>1. before # Null
    BY <1>2 DEF FreeAt
  <2>2. before \in DOMAIN chunks /\ chunks[before].next = a
    BY <2>1 DEF Tiles, PrevRight
  <2> HIDE DEF before
  <2>3. marked[before].next = chunks[before].next
    <3>1. chunks[before] \in Chunk
      BY <2>2 DEF Tiles, Typed
    <3> QED
      BY <2>2, <3>1 DEF Mark, Chunk
  <2>4. DOMAIN marked = DOMAIN chunks
    BY MarkDomain
  <2> QED
    BY <2>2, <2>3, <2>4
<1>3. chunks' = IF FreeAt(marked, before)
                THEN MergeIfFree(MergeNext(marked, before), before)
                ELSE MergeIfFree(marked, a)
  BY DEF free, Mark
<1> HIDE DEF marked
<1>4. \/ /\ FreeAt(marked, before) /\ before \in DOMAIN marked
         /\ marked[before].next = a
         /\ chunks' = MergeIfFree(MergeNext(marked, before), before)
      \/ /\ ~FreeAt(marked, before)
         /\ chunks' = MergeIfFree(marked, a)
  BY <1>2, <1>3
<1> QED
  BY <1>1, <1>4 DEF marked

LEMMA MergeIfFreeTiles ==
    ASSUME NEW h, NEW f, Tiles(h, f), NEW a \in DOMAIN h
    PROVE  Tiles(MergeIfFree(h, a), f)
<1>1. CASE FreeAt(h, h[a].next)
  BY <1>1, MergeTiles DEF FreeAt, MergeIfFree
<1>2. CASE ~FreeAt(h, h[a].next)
  BY <1>2 DEF MergeIfFree
<1> QED
  BY <1>1, <1>2

\* The chunk that merging leaves is still in the list.
LEMMA MergedStays ==
    ASSUME NEW h, NEW f, Tiles(h, f), NEW a \in DOMAIN h, h[a].next # Null
    PROVE  a \in DOMAIN MergeNext(h, a)
BY MergeFields

LEMMA InitTiles == Init => Tiles(chunks, first)
<1> SUFFICES ASSUME Init PROVE Tiles(chunks, first)
  OBVIOUS
<1>1. CASE HeapSize < Header
  <2>1. first = Null /\ DOMAIN chunks = {}
    BY <1>1 DEF Init
  <2> QED
    BY <2>1 DEF Tiles, Typed, NextRight, PrevRight, Disjoint
<1>2. CASE ~(HeapSize < Header)
  <2>1. /\ first = Start /\ DOMAIN chunks = {Start}
        /\ chunks[Start] = [next |-> Null, prev |-> Null, allocated |-> FALSE,
                            size |-> HeapSize - Header]
    BY <1>2 DEF Init
  <2>2. HeapSize - Header \in 0 .. HeapSize /\ Start \in Address
    BY SMT, <1>2, HeapAssumption DEF Address
  <2>3. EndOf(chunks, Start) = Limit
    BY SMT, <2>1, HeapAssumption DEF EndOf, Limit
  <2>4. Typed(chunks)
    <3>1. [next |-> Null, prev |-> Null, allocated |-> FALSE,
           size |-> HeapSize - Header] \in Chunk
      BY <2>2 DEF Chunk
    <3> QED
      BY <2>1, <2>2, <3>1 DEF Typed
  <2>5. NextRight(chunks) /\ PrevRight(chunks, first)
    BY <2>1, <2>3 DEF NextRight, PrevRight
  <2>6. Disjoint(chunks)
    BY SMT, <2>1, HeapAssumption DEF Disjoint
  <2> QED
    BY <2>1, <2>4, <2>5, <2>6 DEF Tiles
<1> QED
  BY <1>1, <1>2

LEMMA NextTiles == Tiles(chunks, first) /\ [Next]_vars => Tiles(chunks, first)'
<1> SUFFICES ASSUME Tiles(chunks, first), [Next]_vars
             PROVE  Tiles(chunks', first')
  BY DEF Tiles, Typed, NextRight, PrevRight, Disjoint, EndOf
<1>1. CASE UNCHANGED vars
  BY <1>1 DEF vars
<1>2. ASSUME NEW size \in RequestSizes, malloc(size)
      PROVE  Tiles(chunks', first')
  BY <1>2, MallocCases, SplitTiles, MarkTiles
<1>3. ASSUME NEW a \in DOMAIN chunks, free(a)
      PROVE  Tiles(chunks', first')
  <2> DEFINE marked == Mark(chunks, a, FALSE)
             before == chunks[a].prev
  <2>1. Tiles(marked, first) /\ a \in DOMAIN marked
    BY MarkTiles, MarkDomain
  <2>2. /\ first' = first
        /\ \/ /\ FreeAt(marked, before) /\ before \in DOMAIN marked
              /\ marked[before].next = a
              /\ chunks' = MergeIfFree(MergeNext(marked, before), before)
           \/ chunks' = MergeIfFree(marked, a)
    BY <1>3, FreeCases
  <2>3. a # Null
    BY SMT, Numbers DEF Null
  <2> HIDE DEF marked
  <2>4. CASE /\ before \in DOMAIN marked /\ marked[before].next = a
             /\ chunks' = MergeIfFree(MergeNext(marked, before), before)
    <3>1. /\ Tiles(MergeNext(marked, before), first)
          /\ before \in DOMAIN MergeNext(marked, before)
      BY <2>1, <2>3, <2>4, MergeTiles, MergedStays
    <3> QED
      BY <2>2, <2>4, <3>1, MergeIfFreeTiles
  <2>5. CASE chunks' = MergeIfFree(marked, a)
    BY <2>1, <2>2, <2>5, MergeIfFreeTiles
  <2> QED
    BY <2>2, <2>4, <2>5
<1> QED
  BY <1>1, <1>2, <1>3 DEF Next

\* The chunks tile the heap at all times.
THEOREM HeapTiled == Spec => []ChunksTileHeap
<1>1. Init => ChunksTileHeap
  BY InitTiles, TilesHeap
<1>2. ChunksTileHeap /\ [Next]_vars => ChunksTileHeap'
  <2> SUFFICES ASSUME ChunksTileHeap, [Next]_vars PROVE ChunksTileHeap'
    OBVIOUS
  <2>1. Tiles(chunks, first)'
    BY TilesHeap, NextTiles
  <2> QED
    BY <2>1, TilesHeap, PTL
<1> QED
  BY <1>1, <1>2, PTL DEF Spec

-----------------------------------------------------------------------------
(* Coalescing *)

\* NoFreeNeighbours of any list h, and of h but for the successor of a.
Coalesced(h) ==
    \A b \in DOMAIN h : ~h[b].allocated => ~FreeAt(h, h[b].next)
CoalescedBut(h, a) ==
    \A b \in DOMAIN h : b # a /\ ~h[b].allocated => ~FreeAt(h, h[b].next)

\* A chunk of which two are left is gone: MergeIfFree finishes the coalescing.
LEMMA MergeIfFreeCoalesces ==
    ASSUME NEW h, NEW f, Tiles(h, f), NEW a \in DOMAIN h,
           ~h[a].allocated, CoalescedBut(h, a)
    PROVE  Coalesced(MergeIfFree(h, a))
<1>1. CASE ~FreeAt(h, h[a].next)
  BY <1>1 DEF MergeIfFree, CoalescedBut, Coalesced
<1>2. CASE FreeAt(h, h[a].next)
  <2> DEFINE gone == h[a].next
             g == MergeNext(h, a)
  <2>1. h[a].next # Null /\ ~h[gone].allocated
    BY <1>2 DEF FreeAt
  <2>2. gone \in DOMAIN h /\ gone # a
    BY SMT, <2>1, Successor, Numbers
  <2>3. DOMAIN g = DOMAIN h \ {gone}
    BY <2>1, MergeFields
  <2>4. Tiles(g, f)
    BY <2>1, MergeTiles
  <2>5. g[a].next = h[gone].next
    <3>1. h[a] \in Chunk
      BY DEF Tiles, Typed
    <3> QED
      BY <2>2, <3>1 DEF MergeNext, Chunk
  <2>6. g[a].allocated = h[a].allocated
    BY <2>1, MergeFields
  <2>7. ASSUME NEW b \in DOMAIN g, b # a
        PROVE  g[b].next = h[b].next /\ g[b].allocated = h[b].allocated
    BY <2>3, <2>7, MergeOthers
  <2>8. \A b \in DOMAIN g : g[b].next # Null => g[b].next \in DOMAIN g
    BY <2>4, Successor
  <2> HIDE DEF g
  <2>9. Coalesced(g)
    <3> SUFFICES ASSUME NEW b \in DOMAIN g, ~g[b].allocated, g[b].next # Null,
                        ~g[g[b].next].allocated
                 PROVE  FALSE
      BY DEF Coalesced, FreeAt
    <3> DEFINE x == g[b].next
    <3>1. x \in DOMAIN g
      BY <2>8
    <3>2. ~h[x].allocated
      BY <3>1, <2>6, <2>7
    <3>3. CASE b = a
      BY <3>2, <3>3, <2>1, <2>2, <2>5 DEF CoalescedBut, FreeAt
    <3>4. CASE b # a
      BY <3>2, <3>4, <2>3, <2>7 DEF CoalescedBut, FreeAt
    <3> QED
      BY <3>3, <3>4
  <2> QED
    BY <1>2, <2>9 DEF g, MergeIfFree
<1> QED
  BY <1>1, <1>2

LEMMA AllocateCoalesced ==
    ASSUME Tiles(chunks, first), Coalesced(chunks), NEW a \in DOMAIN chunks
    PROVE  Coalesced(Mark(chunks, a, TRUE))
<1> DEFINE g == Mark(chunks, a, TRUE)
<1>1. \A b \in DOMAIN chunks :
        /\ g[b].next = chunks[b].next
        /\ g[b].allocated = IF b = a THEN TRUE ELSE chunks[b].allocated
  <2>1. \A b \in DOMAIN chunks : chunks[b] \in Chunk
    BY DEF Tiles, Typed
  <2> QED
    BY <2>1 DEF Mark, Chunk
<1>2. DOMAIN g = DOMAIN chunks
  BY MarkDomain
<1>3. \A b \in DOMAIN chunks :
        chunks[b].next # Null => chunks[b].next \in DOMAIN chunks
  BY Successor
<1> HIDE DEF g
<1>4. Coalesced(g)
  BY <1>1, <1>2, <1>3 DEF Coalesced, FreeAt
<1> QED
  BY <1>4 DEF g

LEMMA SplitCoalesced ==
    ASSUME Tiles(chunks, first), Coalesced(chunks), NEW a \in DOMAIN chunks,
           ~chunks[a].allocated, NEW size, Room(a, size)
    PROVE  Coalesced(Split(a, size))
<1> DEFINE g == Split(a, size)
           temp == Cut(a, size)
<1>1. g[a].allocated = TRUE
  BY SplitFront
<1>2. g[temp].next = chunks[a].next
  BY SplitBack
<1>3. ASSUME NEW b \in DOMAIN chunks, b # a
      PROVE  g[b].next = chunks[b].next /\ g[b].allocated = chunks[b].allocated
  BY <1>3, SplitOthers
<1>4. DOMAIN g = DOMAIN chunks \cup {temp}
  BY SplitDomain
<1>5. \A b \in DOMAIN chunks : chunks[b].next # Null =>
        chunks[b].next \in DOMAIN chunks /\ chunks[b].next # b
  <2>1. \A b \in DOMAIN chunks : chunks[b].next # Null =>
          chunks[b].next \in DOMAIN chunks /\ chunks[b].next > b /\ b \in Nat
    BY Successor, Numbers
  <2> QED
    BY SMT, <2>1
<1> HIDE DEF g, temp
<1>6. Coalesced(g)
  <2> SUFFICES ASSUME NEW b \in DOMAIN g, ~g[b].allocated, g[b].next # Null,
                      ~g[g[b].next].allocated
               PROVE  FALSE
    BY DEF Coalesced, FreeAt
  <2>1. b # a
    BY <1>1
  <2>2. CASE b \in DOMAIN chunks
    BY <2>1, <2>2, <1>1, <1>3, <1>5 DEF Coalesced, FreeAt
  <2>3. CASE b = temp
    BY <2>3, <1>2, <1>3, <1>5 DEF Coalesced, FreeAt
  <2> QED
    BY <2>2, <2>3, <1>4
<1> QED
  BY <1>6 DEF g

\* What free merges: the marked chunk's predecessor, or the chunk itself, is
\* free and the only chunk that may have a free successor.
LEMMA FreeCoalesced ==
    ASSUME Tiles(chunks, first), Coalesced(chunks), NEW a \in DOMAIN chunks, free(a)
    PROVE  Coalesced(chunks')
<1> DEFINE marked == Mark(chunks, a, FALSE)
           before == chunks[a].prev
<1>1. \A b \in DOMAIN chunks :
        /\ marked[b].next = chunks[b].next
        /\ marked[b].prev = chunks[b].prev
        /\ marked[b].allocated = IF b = a THEN FALSE ELSE chunks[b].allocated
  <2>1. \A b \in DOMAIN chunks : chunks[b] \in Chunk
    BY DEF Tiles, Typed
  <2> QED
    BY <2>1 DEF Mark, Chunk
<1>2. DOMAIN marked = DOMAIN chunks /\ Tiles(marked, first)
  BY MarkDomain, MarkTiles
<1>3. \/ /\ FreeAt(marked, before) /\ before \in DOMAIN marked
         /\ marked[before].next = a
         /\ chunks' = MergeIfFree(MergeNext(marked, before), before)
      \/ /\ ~FreeAt(marked, before)
         /\ chunks' = MergeIfFree(marked, a)
  BY FreeCases
<1>4. \A b \in DOMAIN chunks : chunks[b].next # Null =>
        chunks[b].next \in DOMAIN chunks /\ chunks[chunks[b].next].prev = b
  BY Successor
<1>5. a # Null
  BY SMT, Numbers DEF Null
<1>6. \A b \in DOMAIN chunks : b # Null
  BY SMT, Numbers DEF Null
<1> HIDE DEF marked, before
<1>7. CASE /\ FreeAt(marked, before) /\ before \in DOMAIN marked
           /\ marked[before].next = a
           /\ chunks' = MergeIfFree(MergeNext(marked, before), before)
  <2> DEFINE g == MergeNext(marked, before)
  <2>1. Tiles(g, first)
    BY <1>2, <1>5, <1>7, MergeTiles
  <2>2. before \in DOMAIN g
    BY <1>2, <1>5, <1>7, MergedStays
  <2>3. DOMAIN g = DOMAIN marked \ {a}
    BY <1>2, <1>5, <1>7, MergeFields
  <2>4. g[before].allocated = marked[before].allocated
    BY <1>2, <1>5, <1>7, MergeFields
  <2>5. ASSUME NEW b \in DOMAIN g, b # before
        PROVE  g[b].next = marked[b].next /\ g[b].allocated = marked[b].allocated
    BY <2>3, <2>5, <1>2, <1>7, MergeOthers
  <2>6. \A b \in DOMAIN g : g[b].next # Null => g[b].next \in DOMAIN g
    BY <2>1, Successor
  <2> HIDE DEF g
  <2>7. CoalescedBut(g, before)
    <3> SUFFICES ASSUME NEW b \in DOMAIN g, b # before, ~g[b].allocated,
                        g[b].next # Null, ~g[g[b].next].allocated
                 PROVE  FALSE
      BY DEF CoalescedBut, FreeAt
    <3> DEFINE x == g[b].next
    <3>1. x \in DOMAIN g /\ ~marked[x].allocated
      BY <2>4, <2>5, <2>6
    <3>2. ~chunks[x].allocated /\ ~chunks[b].allocated /\ chunks[b].next = x
      BY <3>1, <1>1, <1>2, <2>3, <2>5
    <3> QED
      BY <3>2, <1>2, <2>3 DEF Coalesced, FreeAt
  <2>8. ~g[before].allocated
    BY <1>7, <2>4 DEF FreeAt
  <2>9. Coalesced(MergeIfFree(g, before))
    BY <2>1, <2>2, <2>7, <2>8, MergeIfFreeCoalesces
  <2> QED
    BY <1>7, <2>9 DEF g
<1>8. CASE ~FreeAt(marked, before) /\ chunks' = MergeIfFree(marked, a)
  <2>1. CoalescedBut(marked, a)
    <3> SUFFICES ASSUME NEW b \in DOMAIN marked, b # a, ~marked[b].allocated,
                        marked[b].next # Null, ~marked[marked[b].next].allocated
                 PROVE  FALSE
      BY DEF CoalescedBut, FreeAt
    <3>1. ~chunks[b].allocated /\ chunks[b].next = marked[b].next
      BY <1>1, <1>2
    <3>2. CASE marked[b].next = a
      <4>1. before = b
        BY <3>1, <3>2, <1>2, <1>4, <1>5 DEF before
      <4> QED
        BY <4>1, <1>6, <1>2, <1>8 DEF FreeAt
    <3>3. CASE marked[b].next # a
      BY <3>1, <3>3, <1>1, <1>2, <1>4 DEF Coalesced, FreeAt
    <3> QED
      BY <3>2, <3>3
  <2>2. ~marked[a].allocated
    BY <1>1
  <2> QED
    BY <2>1, <2>2, <1>2, <1>8, MergeIfFreeCoalesces
<1> QED
  BY <1>3, <1>7, <1>8

LEMMA InitCoalesced == Init => Coalesced(chunks)
<1> SUFFICES ASSUME Init PROVE Coalesced(chunks)
  OBVIOUS
<1>1. \A b \in DOMAIN chunks : chunks[b].next = Null
  <2>1. CASE HeapSize < Header
    BY <2>1 DEF Init
  <2>2. CASE ~(HeapSize < Header)
    BY <2>2 DEF Init
  <2> QED
    BY <2>1, <2>2
<1> QED
  BY <1>1 DEF Coalesced, FreeAt

LEMMA NextCoalesced ==
    Tiles(chunks, first) /\ Coalesced(chunks) /\ [Next]_vars => Coalesced(chunks)'
<1> SUFFICES ASSUME Tiles(chunks, first), Coalesced(chunks), [Next]_vars
             PROVE  Coalesced(chunks')
  BY DEF Coalesced, FreeAt
<1>1. CASE UNCHANGED vars
  BY <1>1 DEF vars
<1>2. ASSUME NEW size \in RequestSizes, malloc(size) PROVE Coalesced(chunks')
  <2>1. PICK a \in DOMAIN chunks :
          /\ chunks[a].allocated = FALSE
          /\ \/ Room(a, size) /\ chunks' = Split(a, size)
             \/ chunks' = Mark(chunks, a, TRUE)
    BY <1>2, MallocCases
  <2>2. CASE Room(a, size) /\ chunks' = Split(a, size)
    BY <2>1, <2>2, SplitCoalesced
  <2>3. CASE chunks' = Mark(chunks, a, TRUE)
    BY <2>3, AllocateCoalesced
  <2> QED
    BY <2>1, <2>2, <2>3
<1>3. ASSUME NEW a \in DOMAIN chunks, free(a) PROVE Coalesced(chunks')
  BY <1>3, FreeCoalesced
<1> QED
  BY <1>1, <1>2, <1>3 DEF Next

\* Two neighbours are never both free.
THEOREM HeapCoalesced == Spec => []NoFreeNeighbours
<1>1. Init => Tiles(chunks, first) /\ Coalesced(chunks)
  BY InitTiles, InitCoalesced
<1>2. Tiles(chunks, first) /\ Coalesced(chunks) /\ [Next]_vars
        => Tiles(chunks, first)' /\ Coalesced(chunks)'
  BY NextTiles, NextCoalesced
<1>3. Coalesced(chunks) => NoFreeNeighbours
  BY DEF Coalesced, NoFreeNeighbours
<1> QED
  BY <1>1, <1>2, <1>3, PTL DEF Spec

-----------------------------------------------------------------------------
(* Implementing Heap *)

\* LiveBlocks of any list.
Held(h) == {a \in DOMAIN h : h[a].allocated}
Live(h) == [p \in {a + Header : a \in Held(h)} |-> h[p - Header].size]

LEMMA LiveBlocksLive == LiveBlocks = Live(chunks)
BY DEF LiveBlocks, Live, Held

LEMMA LiveDomain ==
    ASSUME NEW h, NEW p
    PROVE  p \in DOMAIN Live(h) <=> \E a \in Held(h) : p = a + Header
<1>1. DOMAIN Live(h) = {a + Header : a \in Held(h)}
  BY DEF Live
<1>2. p \in {a + Header : a \in Held(h)} <=> \E a \in Held(h) : p = a + Header
  BY Zenon
<1> QED
  BY <1>1, <1>2, Zenon

LEMMA LiveAt ==
    ASSUME NEW h, NEW f, Tiles(h, f), NEW a \in Held(h)
    PROVE  Live(h)[a + Header] = h[a].size
<1>1. a \in DOMAIN h
  BY DEF Held
<1>2. \A p \in {b + Header : b \in Held(h)} : Live(h)[p] = h[p - Header].size
  BY DEF Live
<1>3. PICK p \in {b + Header : b \in Held(h)} : p = a + Header
  BY Zenon
<1>4. Live(h)[p] = h[p - Header].size
  BY <1>2
<1>5. p - Header = a
  BY SMT, <1>1, <1>3, Numbers
<1> QED
  BY <1>3, <1>4, <1>5, Zenon

\* Nothing changes for the callers when the same chunks are held.
LEMMA SameLive ==
    ASSUME NEW h, NEW f, Tiles(h, f), NEW g, Held(g) = Held(h),
           \A a \in Held(h) : g[a].size = h[a].size
    PROVE  Live(g) = Live(h)
<1>1. \A p \in {a + Header : a \in Held(h)} : p - Header \in Held(h)
  <2>1. \A a \in Held(h) : a \in Nat /\ Header \in Nat
    BY Numbers DEF Held
  <2> QED
    BY SMT, <2>1
<1> QED
  BY <1>1 DEF Live

\* Merging a free chunk with a free chunk is nothing to the callers.
LEMMA MergeIfFreeHeld ==
    ASSUME NEW h, NEW f, Tiles(h, f), NEW a \in DOMAIN h, ~h[a].allocated
    PROVE  /\ Held(MergeIfFree(h, a)) = Held(h)
           /\ \A b \in Held(h) : MergeIfFree(h, a)[b].size = h[b].size
<1>1. CASE ~FreeAt(h, h[a].next)
  BY <1>1 DEF MergeIfFree
<1>2. CASE FreeAt(h, h[a].next)
  <2> DEFINE gone == h[a].next
             g == MergeNext(h, a)
  <2>1. h[a].next # Null /\ ~h[gone].allocated
    BY <1>2 DEF FreeAt
  <2>2. DOMAIN g = DOMAIN h \ {gone}
    BY <2>1, MergeFields
  <2>3. g[a].allocated = h[a].allocated
    BY <2>1, MergeFields
  <2>4. ASSUME NEW b \in DOMAIN h, b # a, b # gone
        PROVE  g[b].allocated = h[b].allocated /\ g[b].size = h[b].size
    BY <2>4, MergeOthers
  <2> HIDE DEF g
  <2>5. Held(g) = Held(h) /\ \A b \in Held(h) : g[b].size = h[b].size
    BY <2>1, <2>2, <2>3, <2>4 DEF Held
  <2> QED
    BY <1>2, <2>5 DEF g, MergeIfFree
<1> QED
  BY <1>1, <1>2

\* Heap's Allocate, from what h shows its callers to what g does.
Allocates(h, g, size) ==
    \E p \in Start .. Start + HeapSize, n \in 0 .. HeapSize :
        /\ n >= size
        /\ p \notin DOMAIN Live(h)
        /\ Start <= p /\ p + n <= Start + HeapSize
        /\ \A q \in DOMAIN Live(h) : p + n <= q \/ q + Live(h)[q] <= p
        /\ Live(g) = [q \in DOMAIN Live(h) \cup {p} |->
                        IF q = p THEN n ELSE Live(h)[q]]

\* A list that holds one chunk more is a step of Heap's Allocate.
LEMMA AllocateStep ==
    ASSUME NEW h, Tiles(h, first), NEW g, Tiles(g, first),
           NEW a \in DOMAIN g, a \notin Held(h), Held(g) = Held(h) \cup {a},
           \A b \in Held(h) : g[b].size = h[b].size,
           NEW size \in Nat, g[a].size >= size
    PROVE  Allocates(h, g, size)
<1> DEFINE p == a + Header
           n == g[a].size
<1>1. /\ a \in Nat /\ Header \in Nat /\ Header > 0 /\ Start \in Nat /\ Start <= a
      /\ Limit \in Nat /\ g[a].size \in Nat /\ g[a].size <= HeapSize
      /\ EndOf(g, a) \in Nat /\ EndOf(g, a) <= Limit
  BY Numbers
<1>2. HeapSize \in Nat
  BY HeapAssumption
<1>3. p + n = EndOf(g, a)
  BY DEF EndOf
<1>4. /\ p \in Start .. Start + HeapSize /\ n \in 0 .. HeapSize /\ n >= size
      /\ Start <= p /\ p + n <= Start + HeapSize
  BY SMT, <1>1, <1>2 DEF EndOf, Limit
<1>5. \A b \in Held(h) : /\ b \in DOMAIN g /\ b # a /\ b \in Nat
                         /\ Live(h)[b + Header] = h[b].size
                         /\ h[b].size = g[b].size /\ h[b].size \in Nat
                         /\ EndOf(g, b) \in Nat
  <2> SUFFICES ASSUME NEW b \in Held(h)
               PROVE  /\ b \in DOMAIN g /\ b # a /\ b \in Nat
                      /\ Live(h)[b + Header] = h[b].size
                      /\ h[b].size = g[b].size /\ h[b].size \in Nat
                      /\ EndOf(g, b) \in Nat
    OBVIOUS
  <2>1. b \in DOMAIN g /\ b \in DOMAIN h
    BY DEF Held
  <2>2. b \in Nat /\ EndOf(g, b) \in Nat /\ h[b].size \in Nat
    BY <2>1, Numbers
  <2>3. Live(h)[b + Header] = h[b].size
    BY LiveAt
  <2> QED
    BY <2>1, <2>2, <2>3
<1>6. p \notin DOMAIN Live(h)
  <2>1. \A b \in Held(h) : b + Header # p
    BY SMT, <1>1, <1>5
  <2> QED
    BY <2>1, LiveDomain, Zenon
<1>7. \A q \in DOMAIN Live(h) : p + n <= q \/ q + Live(h)[q] <= p
  <2> SUFFICES ASSUME NEW b \in Held(h)
               PROVE  p + n <= b + Header \/ b + Header + g[b].size <= p
    <3> SUFFICES ASSUME NEW q \in DOMAIN Live(h)
                 PROVE  p + n <= q \/ q + Live(h)[q] <= p
      OBVIOUS
    <3>1. PICK b \in Held(h) : q = b + Header
      BY LiveDomain, Zenon
    <3>2. Live(h)[q] = g[b].size
      BY <3>1, <1>5
    <3> QED
      BY <3>1, <3>2
  <2>1. EndOf(g, a) <= b \/ EndOf(g, b) <= a
    <3>1. a < b \/ b < a
      BY SMT, <1>1, <1>5
    <3> QED
      BY <3>1, <1>5 DEF Tiles, Disjoint
  <2>2. b + Header + g[b].size = EndOf(g, b)
    BY DEF EndOf
  <2>3. b \in Nat /\ EndOf(g, b) \in Nat
    BY <1>5
  <2> QED
    BY SMT, <1>1, <1>3, <2>1, <2>2, <2>3
<1>8. Live(g) = [q \in DOMAIN Live(h) \cup {p} |-> IF q = p THEN n ELSE Live(h)[q]]
  <2>1. DOMAIN Live(g) = DOMAIN Live(h) \cup {p}
    <3>1. ASSUME NEW q
          PROVE  q \in DOMAIN Live(g) <=> q \in DOMAIN Live(h) \cup {p}
      <4>1. /\ q \in DOMAIN Live(g) <=> \E b \in Held(g) : q = b + Header
            /\ q \in DOMAIN Live(h) <=> \E b \in Held(h) : q = b + Header
        BY LiveDomain
      <4> QED
        BY <4>1, Zenon
    <3> QED
      BY <3>1
  <2>2. Live(g)[p] = n
    BY LiveAt
  <2>3. ASSUME NEW q \in DOMAIN Live(h) PROVE Live(g)[q] = Live(h)[q]
    <3>1. PICK b \in Held(h) : q = b + Header
      BY LiveDomain, Zenon
    <3>2. Live(g)[b + Header] = g[b].size
      BY LiveAt
    <3> QED
      BY <3>1, <3>2, <1>5
  <2>4. Live(g) = [q \in DOMAIN Live(g) |-> Live(g)[q]]
    BY DEF Live
  <2> QED
    BY <2>1, <2>2, <2>3, <2>4, <1>6
<1> QED
  BY <1>4, <1>6, <1>7, <1>8 DEF Allocates

\* A list that holds one chunk less is a step of Heap's Release.
LEMMA ReleaseStep ==
    ASSUME NEW h, Tiles(h, first), NEW g, NEW f, Tiles(g, f), NEW a \in Held(h),
           Held(g) = Held(h) \ {a}, \A b \in Held(g) : g[b].size = h[b].size
    PROVE  /\ a + Header \in DOMAIN Live(h)
           /\ Live(g) = [q \in DOMAIN Live(h) \ {a + Header} |-> Live(h)[q]]
<1>1. a + Header \in DOMAIN Live(h)
  BY LiveDomain, Zenon
<1>2. \A b \in Held(h) : b \in Nat /\ Header \in Nat
  BY Numbers DEF Held
<1>3. \A b \in Held(g) : b + Header # a + Header
  BY SMT, <1>2
<1>4. DOMAIN Live(g) = DOMAIN Live(h) \ {a + Header}
  <2>1. ASSUME NEW q
        PROVE  q \in DOMAIN Live(g) <=> q \in DOMAIN Live(h) \ {a + Header}
    <3>1. /\ q \in DOMAIN Live(g) <=> \E b \in Held(g) : q = b + Header
          /\ q \in DOMAIN Live(h) <=> \E b \in Held(h) : q = b + Header
      BY LiveDomain
    <3> QED
      BY <3>1, <1>3, Zenon
  <2> QED
    BY <2>1
<1>5. ASSUME NEW q \in DOMAIN Live(g) PROVE Live(g)[q] = Live(h)[q]
  <2>1. PICK b \in Held(g) : q = b + Header
    BY LiveDomain, Zenon
  <2>2. Live(g)[b + Header] = g[b].size /\ Live(h)[b + Header] = h[b].size
    BY LiveAt
  <2> QED
    BY <2>1, <2>2
<1>6. Live(g) = [q \in DOMAIN Live(g) |-> Live(g)[q]]
  BY DEF Live
<1> QED
  BY <1>1, <1>4, <1>5, <1>6

LEMMA MallocAllocates ==
    ASSUME Tiles(chunks, first), Tiles(chunks', first'),
           NEW size \in RequestSizes, malloc(size)
    PROVE  Abstract!Allocate(size)
<1>1. PICK a \in DOMAIN chunks :
        /\ chunks[a].allocated = FALSE /\ chunks[a].size > size
        /\ \/ Room(a, size) /\ chunks' = Split(a, size)
           \/ chunks' = Mark(chunks, a, TRUE)
  BY MallocCases
<1>2. first' = first /\ size \in Nat
  BY MallocCases, HeapAssumption
<1>3. /\ a \in DOMAIN chunks' /\ a \notin Held(chunks)
      /\ Held(chunks') = Held(chunks) \cup {a}
      /\ \A b \in Held(chunks) : chunks'[b].size = chunks[b].size
      /\ chunks'[a].size >= size
  <2>1. CASE Room(a, size) /\ chunks' = Split(a, size)
    <3>1. chunks'[a].allocated = TRUE /\ chunks'[a].size = size
      BY <2>1, SplitFront
    <3>2. chunks'[Cut(a, size)].allocated = FALSE
      <4>1. Cut(a, size) # a
        BY <2>1, SplitTypes
      <4> QED
        BY <2>1, <4>1 DEF Split, Cut
    <3>3. DOMAIN chunks' = DOMAIN chunks \cup {Cut(a, size)}
      BY <2>1, SplitDomain
    <3>4. ASSUME NEW b \in DOMAIN chunks, b # a
          PROVE  /\ chunks'[b].allocated = chunks[b].allocated
                 /\ chunks'[b].size = chunks[b].size
      BY <2>1, <3>4, SplitOthers
    <3>5. size >= size
      BY SMT, <1>2
    <3> QED
      BY <1>1, <3>1, <3>2, <3>3, <3>4, <3>5 DEF Held
  <2>2. CASE chunks' = Mark(chunks, a, TRUE)
    <3>1. \A b \in DOMAIN chunks :
            /\ chunks'[b].size = chunks[b].size
            /\ chunks'[b].allocated = IF b = a THEN TRUE ELSE chunks[b].allocated
      <4>1. \A b \in DOMAIN chunks : chunks[b] \in Chunk
        BY DEF Tiles, Typed
      <4> QED
        BY <2>2, <4>1 DEF Mark, Chunk
    <3>2. DOMAIN chunks' = DOMAIN chunks
      BY <2>2, MarkDomain
    <3>3. chunks'[a].size >= size
      <4>1. chunks[a].size \in Nat
        BY Numbers
      <4>2. chunks'[a].size = chunks[a].size
        BY <3>1
      <4> QED
        BY SMT, <1>1, <1>2, <4>1, <4>2
    <3> QED
      BY <1>1, <3>1, <3>2, <3>3 DEF Held
  <2> QED
    BY <1>1, <2>1, <2>2
<1>4. Tiles(chunks', first)
  BY <1>2
<1>5. Allocates(chunks, chunks', size)
  BY <1>2, <1>3, <1>4, AllocateStep
<1>6. LiveBlocks = Live(chunks) /\ LiveBlocks' = Live(chunks')
  BY DEF LiveBlocks, Live, Held
<1> QED
  BY <1>5, <1>6
     DEF Allocates, Abstract!Allocate, Abstract!InHeap, Abstract!Apart

LEMMA FreeReleases ==
    ASSUME Tiles(chunks, first), Tiles(chunks', first'),
           NEW a \in DOMAIN chunks, free(a)
    PROVE  \E p \in DOMAIN LiveBlocks : Abstract!Release(p)
<1> DEFINE marked == Mark(chunks, a, FALSE)
           before == chunks[a].prev
<1>1. chunks[a].allocated = TRUE
  BY FreeCases
<1>2. Tiles(marked, first) /\ a \in DOMAIN marked
  BY MarkTiles, MarkDomain
<1>3. /\ \A b \in DOMAIN chunks :
           /\ marked[b].size = chunks[b].size
           /\ marked[b].allocated = IF b = a THEN FALSE ELSE chunks[b].allocated
      /\ DOMAIN marked = DOMAIN chunks
  <2>1. \A b \in DOMAIN chunks : chunks[b] \in Chunk
    BY DEF Tiles, Typed
  <2> QED
    BY <2>1 DEF Mark, Chunk
<1>4. \/ /\ FreeAt(marked, before) /\ before \in DOMAIN marked
         /\ marked[before].next = a
         /\ chunks' = MergeIfFree(MergeNext(marked, before), before)
      \/ /\ ~FreeAt(marked, before)
         /\ chunks' = MergeIfFree(marked, a)
  BY FreeCases
<1>5. a # Null
  BY SMT, Numbers DEF Null
<1> HIDE DEF marked, before
<1>6. a \in Held(chunks) /\ Held(marked) = Held(chunks) \ {a} /\ ~marked[a].allocated
  BY <1>1, <1>3 DEF Held
<1>7. /\ Held(chunks') = Held(marked)
      /\ \A b \in Held(marked) : chunks'[b].size = marked[b].size
  <2>1. CASE /\ FreeAt(marked, before) /\ before \in DOMAIN marked
             /\ marked[before].next = a
             /\ chunks' = MergeIfFree(MergeNext(marked, before), before)
    <3> DEFINE g == MergeIfFree(marked, before)
    <3>1. g = MergeNext(marked, before)
      BY <2>1, <1>5, <1>6 DEF MergeIfFree, FreeAt
    <3>2. /\ Held(g) = Held(marked)
          /\ \A b \in Held(marked) : g[b].size = marked[b].size
      BY <2>1, <1>2, MergeIfFreeHeld DEF FreeAt
    <3>3. Tiles(g, first) /\ before \in DOMAIN g
      BY <2>1, <3>1, <1>2, <1>5, MergeTiles, MergedStays
    <3>4. ~g[before].allocated
      <4>1. before \in DOMAIN marked /\ marked[before].next # Null
        BY <2>1, <1>5
      <4>2. MergeNext(marked, before)[before].allocated = marked[before].allocated
        BY <4>1, <1>2, MergeFields
      <4> QED
        BY <2>1, <3>1, <4>2 DEF FreeAt
    <3>5. chunks' = MergeIfFree(g, before)
      BY <2>1, <3>1
    <3> HIDE DEF g
    <3>6. /\ Held(chunks') = Held(g)
          /\ \A b \in Held(g) : chunks'[b].size = g[b].size
      BY <3>3, <3>4, <3>5, MergeIfFreeHeld
    <3> QED
      BY <3>2, <3>6
  <2>2. CASE chunks' = MergeIfFree(marked, a)
    BY <2>2, <1>2, <1>6, MergeIfFreeHeld
  <2> QED
    BY <1>4, <2>1, <2>2
<1>8. /\ Held(chunks') = Held(chunks) \ {a}
      /\ \A b \in Held(chunks') : chunks'[b].size = chunks[b].size
  BY <1>3, <1>6, <1>7 DEF Held
<1>9. /\ a + Header \in DOMAIN Live(chunks)
      /\ Live(chunks') = [q \in DOMAIN Live(chunks) \ {a + Header} |->
                            Live(chunks)[q]]
  BY <1>6, <1>8, ReleaseStep
<1>10. LiveBlocks = Live(chunks) /\ LiveBlocks' = Live(chunks')
  BY DEF LiveBlocks, Live, Held
<1> QED
  BY <1>9, <1>10 DEF Abstract!Release

\* The kernel's allocator hands out disjoint blocks inside the heap.
THEOREM HeapImplemented == Spec => ImplementsHeap
<1>1. Init => Abstract!HeapInit
  <2> SUFFICES ASSUME Init PROVE LiveBlocks = [p \in {} |-> 0]
    BY DEF Abstract!HeapInit
  <2>1. \A a \in DOMAIN chunks : chunks[a].allocated = FALSE
    <3>1. CASE HeapSize < Header
      BY <3>1 DEF Init
    <3>2. CASE ~(HeapSize < Header)
      BY <3>2 DEF Init
    <3> QED
      BY <3>1, <3>2
  <2>2. {a \in DOMAIN chunks : chunks[a].allocated} = {}
    BY <2>1
  <2> QED
    BY <2>2 DEF LiveBlocks
<1>2. Tiles(chunks, first) /\ Tiles(chunks, first)' /\ [Next]_vars
        => [Abstract!HeapNext]_LiveBlocks
  <2> SUFFICES ASSUME Tiles(chunks, first), Tiles(chunks, first)', [Next]_vars
               PROVE  [Abstract!HeapNext]_LiveBlocks
    OBVIOUS
  <2>0. Tiles(chunks', first')
    BY DEF Tiles, Typed, NextRight, PrevRight, Disjoint, EndOf
  <2>1. CASE UNCHANGED vars
    BY <2>1 DEF vars, LiveBlocks
  <2>2. ASSUME NEW size \in RequestSizes, malloc(size) PROVE Abstract!HeapNext
    BY <2>0, <2>2, MallocAllocates DEF Abstract!HeapNext
  <2>3. ASSUME NEW a \in DOMAIN chunks, free(a) PROVE Abstract!HeapNext
    BY <2>0, <2>3, FreeReleases DEF Abstract!HeapNext
  <2> QED
    BY <2>1, <2>2, <2>3 DEF Next
<1>3. Spec => []Tiles(chunks, first)
  BY InitTiles, NextTiles, PTL DEF Spec
<1> QED
  BY <1>1, <1>2, <1>3, PTL DEF Spec, ImplementsHeap, Abstract!HeapSpec
=============================================================================
