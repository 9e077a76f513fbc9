------------------------- MODULE FatFileSystem_proofs -------------------------
(***************************************************************************)
(* Theorems about an image, for every size of the image and of a block's   *)
(* table.  For files of any length and commands killed anywhere:           *)
(*   FirstBlocksApart      no two listed entries begin at one block;       *)
(*   FreeCountNeverTooHigh the superblock counts no block that is not      *)
(*                         free, unless its 16-bit count wraps;            *)
(*   FreeCountIsExact      without a crash it counts them exactly.         *)
(* While no full table is lengthened and files have at most a block:       *)
(*   WalksStayInside       every walk ends at the entry marked last;       *)
(*   FinishedWorkIsThere   finished work is found and reads as written,    *)
(*                         wherever other commands are killed;             *)
(*   SuperblockCounts      the superblock counts the entries.              *)
(* TablesGrowWhenFull says when a table is lengthened; on a small image it *)
(* never is (SmallImagesKeepWork, SmallImagesCount).                       *)
(* A command's writes are planned in todo, so the invariants are about an  *)
(* image and the writes to come: Linked and Owned say that each block has  *)
(* at most one predecessor or entry, Allots that the writes to come give   *)
(* away blocks that are free, in an order that is safe to cut, and         *)
(* Counted that the counts they write go with their FATs; Tables says what *)
(* the directories look like, Fine that each write fits to them, Promises  *)
(* that what it makes is there after the last one, and Settles that the    *)
(* superblock then agrees with the entries.                                *)
(***************************************************************************)
EXTENDS FatFileSystem, FiniteSetTheorems, SequenceTheorems, WellFoundedInduction, TLAPS

-----------------------------------------------------------------------------
(* Induction *)

\* Every set of natural numbers that is not empty has a least element.
LEMMA Least ==
    ASSUME NEW S, S \subseteq Nat, S # {}
    PROVE  \E n \in S : \A m \in S : n <= m
<1>1. PICK n \in S : \A m \in S : <<m, n>> \notin OpToRel(<, Nat)
  BY NatLessThanWellFounded, WFMin, Zenon
<1>2. \A m \in S : ~(m < n)
  BY <1>1, Zenon DEF OpToRel
<1>3. \A m, k \in Nat : ~(m < k) => k <= m
  BY SMT
<1> QED
  BY <1>2, <1>3

\* A set that has 0, and with each number the next, has all of them.
LEMMA SetInduction ==
    ASSUME NEW S, 0 \in S, \A n \in Nat : n \in S => n + 1 \in S
    PROVE  Nat \subseteq S
<1> SUFFICES ASSUME Nat \ S # {} PROVE FALSE
  OBVIOUS
<1>1. PICK n \in Nat \ S : \A m \in Nat \ S : n <= m
  BY Least
<1>2. n - 1 \in Nat /\ n - 1 + 1 = n /\ ~(n <= n - 1)
  BY SMT
<1> QED
  BY <1>1, <1>2

LEMMA MinIsLeast ==
    ASSUME NEW S, S \subseteq Nat, S # {}
    PROVE  Min(S) \in S /\ \A m \in S : Min(S) <= m
BY Least DEF Min

LEMMA FirstNumbers ==
    ASSUME NEW n \in Nat
    PROVE  IsFiniteSet(0 .. n - 1) /\ Cardinality(0 .. n - 1) = n
<1>1. 0 \in Int /\ n - 1 \in Int /\ (IF 0 > n - 1 THEN 0 ELSE n - 1 - 0 + 1) = n
  BY SMT
<1> QED
  BY <1>1, FS_Interval, Zenon

-----------------------------------------------------------------------------
(* The blocks and slots of a table *)

LEMMA Sizes == NumBlocks \in Nat \ {0} /\ EntriesPerBlock \in Nat \ {0}
<1>1. NumBlocks \in 1 .. uint16 - 1 /\ EntriesPerBlock \in Nat \ {0}
  BY Zenon, FatAssumption
<1>2. PICK n : n = uint16 - 1 /\ n \in Int
  BY SMT DEF uint16
<1>3. NumBlocks \in 1 .. n
  BY <1>1, <1>2
<1>4. NumBlocks \in Nat \ {0}
  BY SMT, <1>2, <1>3
<1> QED
  BY <1>1, <1>4

After(v) == IF v \in Blocks THEN fat[v] ELSE FAT_ENTRY_END

\* The function that Chain describes exists.
LEMMA ChainIs ==
    ASSUME NEW b
    PROVE  Chain(b) = [c \in 0 .. NumBlocks |->
                          IF c = 0 THEN b ELSE After(Chain(b)[c - 1])]
<1> DEFINE Fits(g, n) == g = [c \in 0 .. n |-> IF c = 0 THEN b ELSE After(g[c - 1])]
           Good == {n \in Nat : \E g : Fits(g, n)}
<1>1. 0 \in Good
  <2> DEFINE g == [c \in 0 .. 0 |-> b]
  <2>1. Fits(g, 0)
    BY SMT
  <2> QED
    BY <2>1
<1>2. ASSUME NEW n \in Nat, n \in Good PROVE n + 1 \in Good
  <2>1. PICK g : Fits(g, n)
    BY <1>2
  <2> DEFINE h == [c \in 0 .. n + 1 |-> IF c = 0 THEN b ELSE After(g[c - 1])]
  <2>2. ASSUME NEW c \in 0 .. n + 1, c # 0 PROVE h[c - 1] = g[c - 1]
    <3>1. c - 1 \in 0 .. n /\ c - 1 \in 0 .. n + 1
      BY SMT, <2>2
    <3>2. g[c - 1] = IF c - 1 = 0 THEN b ELSE After(g[c - 1 - 1])
      BY <2>1, <3>1
    <3> QED
      BY <3>1, <3>2
  <2>3. Fits(h, n + 1)
    BY <2>2
  <2>4. n + 1 \in Nat
    BY SMT
  <2> QED
    BY <2>3, <2>4, Zenon
<1>3. NumBlocks \in Good
  <2> HIDE DEF Good
  <2> QED
    BY <1>1, <1>2, SetInduction, Sizes
<1>4. PICK g : Fits(g, NumBlocks)
  BY <1>3
<1>5. Chain(b) = CHOOSE f : Fits(f, NumBlocks)
  BY Zenon DEF Chain, After
<1>6. Fits(Chain(b), NumBlocks)
  BY <1>4, <1>5, Zenon
<1> QED
  BY <1>6

\* The places of a chain that hold a block are its first ones.
ChainLength(b) == Cardinality({c \in 0 .. NumBlocks - 1 : Chain(b)[c] \in Blocks})

LEMMA ChainIsPrefix ==
    ASSUME NEW b, NEW c \in 0 .. NumBlocks, Chain(b)[c] \in Blocks
    PROVE  \A d \in 0 .. c : Chain(b)[d] \in Blocks
<1> SUFFICES ASSUME NEW e \in 0 .. c, Chain(b)[e] \notin Blocks PROVE FALSE
  OBVIOUS
<1> DEFINE Late == {d \in Nat : e < d /\ d <= c /\ Chain(b)[d] \in Blocks}
<1>1. c \in Late
  BY SMT
<1>2. PICK d \in Late : \A m \in Late : d <= m
  BY <1>1, Least
<1>3. /\ d \in 0 .. NumBlocks /\ d # 0 /\ d - 1 \in Nat /\ d - 1 <= c
      /\ ~(d <= d - 1)
      /\ d - 1 # e => e < d - 1
  BY SMT, <1>2, Sizes
<1>4. Chain(b)[d] = After(Chain(b)[d - 1])
  BY <1>3, ChainIs
<1>5. FAT_ENTRY_END \notin Blocks
  BY SMT, Sizes DEF FAT_ENTRY_END, Blocks
<1>6. Chain(b)[d - 1] \in Blocks
  BY <1>2, <1>4, <1>5 DEF After
<1>7. d - 1 # e
  BY <1>6
<1>8. d - 1 \in Late
  BY <1>3, <1>6, <1>7
<1> QED
  BY <1>2, <1>3, <1>8

LEMMA ChainInBlocks ==
    ASSUME NEW b
    PROVE  /\ ChainLength(b) \in 0 .. NumBlocks
           /\ \A c \in 0 .. ChainLength(b) - 1 : Chain(b)[c] \in Blocks
           /\ b \in Blocks => ChainLength(b) > 0
<1> DEFINE S == {c \in 0 .. NumBlocks - 1 : Chain(b)[c] \in Blocks}
<1>1. /\ IsFiniteSet(0 .. NumBlocks - 1)
      /\ Cardinality(0 .. NumBlocks - 1) = NumBlocks
  BY FirstNumbers, Sizes
<1>2. IsFiniteSet(S) /\ Cardinality(S) <= NumBlocks
  BY <1>1, FS_Subset
<1>3. Cardinality(S) \in Nat
  BY <1>2, FS_CardinalityType
<1>4. ChainLength(b) = Cardinality(S)
  BY DEF ChainLength
<1>5. ASSUME NEW c \in 0 .. ChainLength(b) - 1, Chain(b)[c] \notin Blocks PROVE FALSE
  <2>1. c \in 0 .. NumBlocks - 1 /\ c \in Nat /\ 0 .. c - 1 = 0 .. (c - 1)
    BY SMT, <1>2, <1>3, <1>4, Sizes
  <2>2. ASSUME NEW d \in S PROVE d \in 0 .. c - 1
    <3>1. d \in 0 .. NumBlocks /\ d \in Nat
      BY SMT, Sizes
    <3>2. ~(c <= d)
      BY <3>1, <1>5, ChainIsPrefix, SMT, <2>1
    <3> QED
      BY SMT, <3>1, <3>2, <2>1
  <2>3. IsFiniteSet(0 .. c - 1) /\ Cardinality(0 .. c - 1) = c
    BY <2>1, FirstNumbers
  <2>4. Cardinality(S) <= c
    BY <2>2, <2>3, FS_Subset
  <2> QED
    BY SMT, <2>4, <1>3, <1>4, <2>1
<1>6. ASSUME b \in Blocks PROVE Cardinality(S) > 0
  <2>1. 0 \in 0 .. NumBlocks /\ 0 \in 0 .. NumBlocks - 1
    BY SMT, Sizes
  <2>2. Chain(b)[0] = b
    BY <2>1, ChainIs
  <2>3. S # {}
    BY <2>1, <2>2, <1>6
  <2>4. Cardinality(S) # 0
    BY <2>3, <1>2, FS_EmptySet
  <2> QED
    BY SMT, <2>4, <1>3
<1> QED
  BY SMT, <1>2, <1>3, <1>4, <1>5, <1>6, Sizes

\* Where entries are, and the slots among them that a walk can come to.
Spots == [block : Places, index : 1 .. EntriesPerBlock]
Walked == [block : Blocks, index : 1 .. EntriesPerBlock]

LEMMA Division ==
    ASSUME NEW a \in Nat, NEW e \in Nat \ {0}, NEW l \in Nat, a < l * e
    PROVE  /\ a \div e \in 0 .. l - 1
           /\ 1 + (a % e) \in 1 .. e
<1> DEFINE q == a \div e
<1>1. q \in Nat /\ a % e \in 0 .. e - 1 /\ e * q <= a
  BY SMT
<1> HIDE DEF q
<1>2. ~(l <= q)
  <2>1. l <= q => l * e <= e * q
    BY SMT, <1>1
  <2>2. l * e \in Int /\ e * q \in Int
    BY SMT, <1>1
  <2> QED
    BY SMT, <2>1, <2>2, <1>1
<1>3. q \in 0 .. l - 1 /\ 1 + (a % e) \in 1 .. e
  BY SMT, <1>1, <1>2
<1> QED
  BY <1>3 DEF q

LEMMA SlotsAreWalked ==
    ASSUME NEW b
    PROVE  /\ Slots(b) \in Seq(Walked)
           /\ b \in Blocks => Len(Slots(b)) > 0
           /\ \A k \in DOMAIN Slots(b) :
                \E c \in 0 .. NumBlocks : Slots(b)[k].block = Chain(b)[c]
<1> DEFINE l == ChainLength(b)
           e == EntriesPerBlock
<1>1. /\ l \in Nat /\ (b \in Blocks => l > 0)
      /\ \A c \in 0 .. l - 1 : c \in 0 .. NumBlocks /\ Chain(b)[c] \in Blocks
  BY ChainInBlocks, SMT, Sizes
<1>2. Slots(b) = [k \in 1 .. l * e |-> [block |-> Chain(b)[(k - 1) \div e],
                                     index |-> 1 + ((k - 1) % e)]]
  BY DEF Slots, ChainLength
<1> HIDE DEF l
<1>3. e \in Nat \ {0}
  BY Sizes
<1> HIDE DEF e
<1>4. ASSUME NEW k \in 1 .. l * e
      PROVE  /\ [block |-> Chain(b)[(k - 1) \div e], index |-> 1 + ((k - 1) % e)] \in Walked
             /\ (k - 1) \div e \in 0 .. NumBlocks
  <2>1. k - 1 \in Nat /\ k - 1 < l * e
    BY SMT, <1>1, <1>3
  <2>2. (k - 1) \div e \in 0 .. l - 1 /\ 1 + ((k - 1) % e) \in 1 .. e
    BY <2>1, <1>1, <1>3, Division
  <2> QED
    BY <2>2, <1>1 DEF Walked, e
<1>5. l * e \in Nat /\ (l > 0 => l * e > 0)
  BY SMT, <1>1, <1>3
<1>6. Slots(b) \in [1 .. l * e -> Walked]
  BY <1>2, <1>4
<1>7. Slots(b) \in Seq(Walked) /\ Len(Slots(b)) = l * e
  BY <1>5, <1>6, SMT
<1> QED
  BY <1>1, <1>2, <1>4, <1>5, <1>7

\* What a walk comes to are slots of the table, and at least one.
LEMMA WalkIsStart ==
    ASSUME NEW b
    PROVE  /\ Walk(b) \in Seq(Walked)
           /\ b \in Blocks => Len(Walk(b)) > 0
           /\ Len(Walk(b)) <= Len(Slots(b))
           /\ \A k \in DOMAIN Walk(b) : k \in DOMAIN Slots(b) /\ Walk(b)[k] = Slots(b)[k]
<1> DEFINE slots == Slots(b)
           ends == {k \in DOMAIN slots : EntryAt(slots[k]) = Junk
                                           \/ EntryAt(slots[k]).last}
<1>1. slots \in Seq(Walked) /\ (b \in Blocks => Len(slots) > 0)
  BY SlotsAreWalked
<1>2. Walk(b) = IF ends = {} THEN slots ELSE SubSeq(slots, 1, Min(ends))
  BY DEF Walk
<1>3. CASE ends = {}
  BY <1>1, <1>2, <1>3
<1>4. CASE ends # {}
  <2>1. DOMAIN slots = 1 .. Len(slots) /\ Len(slots) \in Nat
    BY <1>1
  <2>2. ends \subseteq Nat
    BY <2>1
  <2>3. Min(ends) \in ends
    BY <1>4, <2>2, MinIsLeast
  <2>4. Min(ends) \in 1 .. Len(slots)
    BY <2>1, <2>3
  <2> DEFINE m == Min(ends)
  <2> HIDE DEF m, slots
  <2>5. m \in 1 .. Len(slots)
    BY <2>4 DEF m
  <2>6. Walk(b) = SubSeq(slots, 1, m)
    BY <1>2, <1>4 DEF m
  <2>7. \A i \in 1 .. m : slots[i] \in Walked
    BY <1>1, <2>1, <2>5
  <2>8. /\ SubSeq(slots, 1, m) \in Seq(Walked)
        /\ Len(SubSeq(slots, 1, m)) = m
        /\ \A i \in 1 .. m : SubSeq(slots, 1, m)[i] = slots[i]
    BY SMT, <1>1, <2>1, <2>5, <2>7
  <2>9. DOMAIN SubSeq(slots, 1, m) = 1 .. m
    BY <2>8
  <2> QED
    BY SMT, <2>1, <2>5, <2>6, <2>8, <2>9 DEF slots
<1> QED
  BY <1>3, <1>4

\* The blocks that the FAT does not call free.  A FAT links no block to a free
\* one, and the root has its block.
Taken(f) == {b \in Blocks : f[b] # FAT_ENTRY_EMPTY}
Linked(f) == /\ RootBlock \in Taken(f)
             /\ \A b \in Taken(f) : f[b] \in Blocks => f[b] \in Taken(f)

LEMMA ChainIsTaken ==
    ASSUME Linked(fat), NEW b \in Taken(fat), NEW c \in 0 .. NumBlocks,
           Chain(b)[c] \in Blocks
    PROVE  Chain(b)[c] \in Taken(fat)
<1> DEFINE S == {d \in Nat : d \in 0 .. NumBlocks /\ Chain(b)[d] \in Blocks
                                => Chain(b)[d] \in Taken(fat)}
<1>1. 0 \in S
  <2>1. 0 \in 0 .. NumBlocks
    BY SMT, Sizes
  <2>2. Chain(b)[0] = b
    BY <2>1, ChainIs
  <2> QED
    BY <2>2
<1>2. ASSUME NEW d \in Nat, d \in S, NEW k, k = d + 1 PROVE k \in S
  <2>1. k \in Nat
    BY SMT, <1>2
  <2> SUFFICES ASSUME k \in 0 .. NumBlocks, Chain(b)[k] \in Blocks
               PROVE  Chain(b)[k] \in Taken(fat)
    BY <2>1
  <2>2. d \in 0 .. NumBlocks /\ k # 0 /\ k - 1 = d
    BY SMT, <1>2, Sizes
  <2>3. Chain(b)[k] = After(Chain(b)[k - 1])
    BY <2>2, ChainIs
  <2>4. FAT_ENTRY_END \notin Blocks
    BY SMT, Sizes DEF FAT_ENTRY_END, Blocks
  <2>5. Chain(b)[d] \in Blocks /\ Chain(b)[k] = fat[Chain(b)[d]]
    BY <2>2, <2>3, <2>4, Zenon DEF After
  <2>6. Chain(b)[d] \in Taken(fat)
    BY <1>2, <2>2, <2>5
  <2> QED
    BY <2>5, <2>6 DEF Linked
<1> HIDE DEF S
<1>3. c \in S
  BY <1>1, SetInduction, Sizes, <1>2
<1> QED
  BY <1>3 DEF S

\* No slot of a table lies in a free block.
LEMMA SlotsAreTaken ==
    ASSUME Linked(fat), NEW b \in Taken(fat)
    PROVE  \A k \in DOMAIN Slots(b) : Slots(b)[k].block \in Taken(fat)
<1> TAKE k \in DOMAIN Slots(b)
<1>1. Slots(b)[k] \in Walked
  BY SlotsAreWalked
<1>2. Slots(b)[k].block \in Blocks
  BY <1>1 DEF Walked
<1> QED
  BY <1>2, SlotsAreWalked, ChainIsTaken

-----------------------------------------------------------------------------
(* Types *)

Given0 == Passwords \cup {NoPassword}
Entries == [name : Names \cup {Unnamed}, kind : {"none", "file", "dir"},
            first : Blocks, size : Nat, active : BOOLEAN, last : BOOLEAN,
            mode : SUBSET {"r", "w"}, locked : BOOLEAN, pw : Given0]
Pieces == [id : {l.id : l \in LinuxFiles} \cup {""}, no : Nat]
Contents == {c \in [kind : {"zeroed", "table", "data"}, entries : Seq(Entries),
                    piece : Pieces] : Len(c.entries) <= EntriesPerBlock}
Superblocks == [numFiles : Nat, numDirs : Nat, numFree : Nat, rootSize : Nat]
Fats == [Blocks -> Blocks \cup {FAT_ENTRY_EMPTY, FAT_ENTRY_END}]
Writes == [to : {"sb"}, sb : Superblocks]
            \cup [to : {"fat"}, fat : Fats]
            \cup [to : {"entry"}, slot : Spots, entry : Entries]
            \cup [to : {"name"}, slot : Spots, name : Names]
            \cup [to : {"block"}, place : Places, content : Contents]

Typed ==
    /\ sb \in Superblocks
    /\ fat \in Fats
    /\ DOMAIN disk = Places /\ \A p \in Places : disk[p] \in Contents
    /\ todo \in Seq(Writes)

LEMMA WriteIs ==
    ASSUME NEW w \in Writes
    PROVE  /\ w.to \in {"sb", "fat", "entry", "name", "block"}
           /\ w.to = "sb" => w.sb \in Superblocks
           /\ w.to = "fat" => w.fat \in Fats
           /\ w.to = "entry" => w.slot \in Spots /\ w.entry \in Entries
           /\ w.to = "name" => w.slot \in Spots /\ w.name \in Names
           /\ w.to = "block" => w.place \in Places /\ w.content \in Contents
BY DEF Writes

LEMMA PutIs ==
    /\ \A s \in Superblocks : PutSuperblock(s) \in Writes
    /\ \A f \in Fats : PutFat(f) \in Writes
    /\ \A s \in Spots, e \in Entries : PutEntry(s, e) \in Writes
    /\ \A s \in Spots, n \in Names : PutName(s, n) \in Writes
    /\ \A p \in Places, c \in Contents : PutBlock(p, c) \in Writes
BY DEF Writes, PutSuperblock, PutFat, PutEntry, PutName, PutBlock

LEMMA WalkedAreSpots == Walked \subseteq Spots
<1>1. Blocks \subseteq Places
  BY SMT, Sizes DEF Blocks, Places
<1> QED
  BY <1>1 DEF Walked, Spots

LEMMA JunkIs ==
    /\ Indicator \in Entries /\ Junk \in Entries
    /\ ~Indicator.active /\ ~Junk.active
<1>1. 0 \in Blocks
  BY SMT, Sizes DEF Blocks
<1> QED
  BY <1>1 DEF Indicator, Junk, Entries, Given0

\* Whether there are bytes of an entry at a slot.
HasEntry(s) == s.index \in DOMAIN disk[s.block].entries

LEMMA EntryIs ==
    ASSUME Typed, NEW s \in Spots
    PROVE  /\ EntryAt(s) \in Entries
           /\ EntryAt(s).active => HasEntry(s)
<1>1. disk[s.block].entries \in Seq(Entries)
  BY DEF Typed, Contents, Spots
<1> QED
  BY <1>1, JunkIs DEF EntryAt, HasEntry

\* An entry written over another, or behind the last one.
LEMMA EntryWritten ==
    ASSUME Typed, NEW s \in Spots, NEW e \in Entries,
           disk' = [disk EXCEPT ![s.block] = Changed(s.block, s.index, e)]
    PROVE  /\ DOMAIN disk' = Places /\ \A p \in Places : disk'[p] \in Contents
           /\ \E t \in Spots :
                /\ HasEntry(s) => t = s
                /\ ~HasEntry(s) => EntryAt(s) = Junk
                /\ \A u \in Spots :
                     /\ EntryAt(u)' = IF u = t THEN e ELSE EntryAt(u)
                     /\ HasEntry(u) => HasEntry(u)'
<1> DEFINE b == s.block
           es == disk[b].entries
<1>1. b \in Places /\ s.index \in 1 .. EntriesPerBlock /\ s = [block |-> b, index |-> s.index]
  BY DEF Spots
<1>2. es \in Seq(Entries) /\ Len(es) <= EntriesPerBlock
  BY <1>1 DEF Typed, Contents
<1>3. /\ DOMAIN disk' = Places
      /\ \A p \in Places : p # b => disk'[p] = disk[p]
      /\ disk'[b] = Changed(b, s.index, e)
  BY <1>1 DEF Typed
<1>4. NoPiece \in Pieces
  BY DEF NoPiece, Pieces
<1>5. \A es2 \in Seq(Entries) : Len(es2) <= EntriesPerBlock => TableOf(es2) \in Contents
  BY <1>4 DEF TableOf, Contents
<1>6. \A u \in Spots : u.block # b => EntryAt(u)' = EntryAt(u) /\ HasEntry(u)' = HasEntry(u)
  BY <1>3 DEF Spots, EntryAt, HasEntry
<1>7. CASE HasEntry(s)
  <2>1. disk'[b] = TableOf([es EXCEPT ![s.index] = e])
    BY <1>3, <1>7 DEF Changed, HasEntry
  <2>2. /\ [es EXCEPT ![s.index] = e] \in Seq(Entries)
        /\ Len([es EXCEPT ![s.index] = e]) = Len(es)
        /\ DOMAIN [es EXCEPT ![s.index] = e] = DOMAIN es
    BY <1>2, <1>7, ExceptSeq DEF HasEntry
  <2>3. disk'[b].entries = [es EXCEPT ![s.index] = e]
    BY <2>1 DEF TableOf
  <2>4. ASSUME NEW u \in Spots, u.block = b
        PROVE  /\ EntryAt(u)' = IF u = s THEN e ELSE EntryAt(u)
               /\ HasEntry(u)' <=> HasEntry(u)
    <3>1. u = s <=> u.index = s.index
      BY <2>4, <1>1 DEF Spots
    <3>2. HasEntry(u)' <=> HasEntry(u)
      BY <2>2, <2>3, <2>4 DEF HasEntry
    <3>3. EntryAt(u)' = IF HasEntry(u)' THEN disk'[b].entries[u.index] ELSE Junk
      BY <2>4 DEF EntryAt, HasEntry
    <3>4. EntryAt(u) = IF HasEntry(u) THEN es[u.index] ELSE Junk
      BY <2>4 DEF EntryAt, HasEntry
    <3>5. u.index \in DOMAIN es =>
             [es EXCEPT ![s.index] = e][u.index] = IF u.index = s.index THEN e ELSE es[u.index]
      BY <1>7 DEF HasEntry
    <3>6. HasEntry(u) <=> u.index \in DOMAIN es
      BY <2>4 DEF HasEntry
    <3>7. u = s => HasEntry(u)
      BY <1>7
    <3> HIDE DEF es
    <3> QED
      BY <2>3, <3>1, <3>2, <3>3, <3>4, <3>5, <3>6, <3>7
  <2> QED
    BY <1>2, <1>3, <1>5, <1>6, <1>7, <2>1, <2>2, <2>4 DEF Typed
<1>8. CASE ~HasEntry(s)
  <2> DEFINE n == Len(es) + 1
             t == [block |-> b, index |-> n]
  <2>1. disk'[b] = TableOf(Append(es, e))
    BY <1>3, <1>8 DEF Changed, HasEntry
  <2>2. /\ Append(es, e) \in Seq(Entries)
        /\ Len(Append(es, e)) = n
        /\ DOMAIN es = 1 .. Len(es) /\ DOMAIN Append(es, e) = 1 .. n
        /\ \A i \in 1 .. Len(es) : Append(es, e)[i] = es[i]
        /\ Append(es, e)[n] = e
        /\ Len(es) \in Nat
    BY <1>2, AppendProperties
  <2>3. disk'[b].entries = Append(es, e)
    BY <2>1 DEF TableOf
  <2>4. n \in 1 .. EntriesPerBlock
    BY SMT, <1>1, <1>2, <2>2, Sizes, <1>8 DEF HasEntry
  <2>5. t \in Spots
    BY <1>1, <2>4 DEF Spots
  <2>6. ASSUME NEW u \in Spots, u.block = b
        PROVE  /\ EntryAt(u)' = IF u = t THEN e ELSE EntryAt(u)
               /\ HasEntry(u) => HasEntry(u)'
    <3>1. u = t <=> u.index = n
      BY <2>6 DEF Spots
    <3>2. HasEntry(u)' <=> u.index \in 1 .. n
      BY <2>2, <2>3, <2>6 DEF HasEntry
    <3>3. HasEntry(u) <=> u.index \in 1 .. Len(es)
      BY <2>2, <2>6 DEF HasEntry
    <3>4. EntryAt(u)' = IF HasEntry(u)' THEN disk'[b].entries[u.index] ELSE Junk
      BY <2>6 DEF EntryAt, HasEntry
    <3>5. EntryAt(u) = IF HasEntry(u) THEN es[u.index] ELSE Junk
      BY <2>6 DEF EntryAt, HasEntry
    <3>6. u.index \in 1 .. n <=> u.index \in 1 .. Len(es) \/ u.index = n
      BY SMT, <2>2
    <3>7. n \notin 1 .. Len(es)
      BY SMT, <2>2
    <3> HIDE DEF es, n, t
    <3> QED
      BY <2>2, <2>3, <3>1, <3>2, <3>3, <3>4, <3>5, <3>6, <3>7
  <2>7. EntryAt(s) = Junk
    BY <1>8 DEF EntryAt, HasEntry
  <2>8. \A p \in Places : disk'[p] \in Contents
    <3>1. n <= EntriesPerBlock
      BY <2>4
    <3>2. disk'[b] \in Contents
      BY <3>1, <1>5, <2>1, <2>2
    <3> QED
      BY <3>2, <1>3 DEF Typed
  <2> HIDE DEF t, n, es
  <2>9. \A u \in Spots :
            /\ EntryAt(u)' = IF u = t THEN e ELSE EntryAt(u)
            /\ HasEntry(u) => HasEntry(u)'
    BY <1>6, <2>6 DEF t
  <2>10. /\ HasEntry(s) => t = s
         /\ ~HasEntry(s) => EntryAt(s) = Junk
    BY <1>8, <2>7
  <2>11. \E v \in Spots :
            /\ HasEntry(s) => v = s
            /\ ~HasEntry(s) => EntryAt(s) = Junk
            /\ \A u \in Spots :
                 /\ EntryAt(u)' = IF u = v THEN e ELSE EntryAt(u)
                 /\ HasEntry(u) => HasEntry(u)'
    <3> WITNESS t \in Spots
    <3>1. t \in Spots
      BY <2>5
    <3> QED
      BY <2>9, <2>10
  <2> QED
    BY <1>3, <2>8, <2>11
<1> QED
  BY <1>7, <1>8

\* A block written: its entries are those of what is written.
LEMMA BlockWritten ==
    ASSUME Typed, NEW p \in Places, NEW c \in Contents,
           \A i \in DOMAIN c.entries : ~c.entries[i].active,
           disk' = [disk EXCEPT ![p] = c]
    PROVE  /\ DOMAIN disk' = Places /\ \A q \in Places : disk'[q] \in Contents
           /\ \A u \in Spots :
                /\ u.block = p => ~EntryAt(u)'.active
                /\ u.block # p => EntryAt(u)' = EntryAt(u) /\ (HasEntry(u) => HasEntry(u)')
<1>1. DOMAIN disk' = Places /\ disk'[p] = c /\ \A q \in Places : q # p => disk'[q] = disk[q]
  BY DEF Typed
<1>2. \A q \in Places : disk'[q] \in Contents
  BY <1>1 DEF Typed
<1>3. \A u \in Spots : u.block # p => EntryAt(u)' = EntryAt(u) /\ (HasEntry(u) => HasEntry(u)')
  BY <1>1 DEF Spots, EntryAt, HasEntry
<1>4. ASSUME NEW u \in Spots, u.block = p PROVE ~EntryAt(u)'.active
  BY JunkIs, <1>1, <1>4 DEF EntryAt
<1> QED
  BY <1>1, <1>2, <1>3, <1>4

-----------------------------------------------------------------------------
(* Sequences of writes *)

LEMMA TailAt ==
    ASSUME NEW S, NEW q \in Seq(S), q # << >>
    PROVE  /\ Tail(q) \in Seq(S)
           /\ 1 \in DOMAIN q /\ Head(q) = q[1]
           /\ \A i \in DOMAIN Tail(q) :
                i \in Nat /\ i + 1 \in DOMAIN q /\ 1 < i + 1 /\ Tail(q)[i] = q[i + 1]
           /\ \A i \in DOMAIN q :
                i \in Nat /\ (i = 1 \/ (i - 1 \in DOMAIN Tail(q) /\ Tail(q)[i - 1] = q[i]))
<1>1. /\ Head(q) = q[1] /\ Tail(q) \in Seq(S)
      /\ Len(Tail(q)) = Len(q) - 1
      /\ \A i \in 1 .. Len(Tail(q)) : Tail(q)[i] = q[i + 1]
      /\ Len(q) \in Nat /\ Len(q) # 0
      /\ DOMAIN q = 1 .. Len(q) /\ DOMAIN Tail(q) = 1 .. Len(Tail(q))
  BY HeadTailProperties, EmptySeq, LenProperties
<1> DEFINE n == Len(q)
<1>2. n \in Nat /\ n # 0 /\ Len(Tail(q)) = n - 1
  BY <1>1
<1> HIDE DEF n
<1>3. /\ 1 \in 1 .. n
      /\ \A i \in 1 .. n - 1 : i \in Nat /\ i + 1 \in 1 .. n /\ 1 < i + 1
      /\ \A i \in 1 .. n : i \in Nat /\ (i = 1 \/ (i - 1 \in 1 .. n - 1 /\ i - 1 + 1 = i))
  BY SMT, <1>2
<1> QED
  BY <1>1, <1>2, <1>3, Zenon DEF n

LEMMA ConcatAt ==
    ASSUME NEW S, NEW v \in Seq(S), NEW w \in Seq(S)
    PROVE  /\ v \o w \in Seq(S)
           /\ \A i \in DOMAIN v : i \in DOMAIN (v \o w) /\ (v \o w)[i] = v[i]
           /\ \A i \in DOMAIN w :
                Len(v) + i \in DOMAIN (v \o w) /\ (v \o w)[Len(v) + i] = w[i]
           /\ \A i \in DOMAIN (v \o w) :
                \/ i \in DOMAIN v /\ (v \o w)[i] = v[i]
                \/ \E j \in DOMAIN w : i = Len(v) + j /\ (v \o w)[i] = w[j]
<1> DEFINE m == Len(v)
           n == Len(w)
           q == v \o w
<1>1. /\ q \in Seq(S) /\ Len(q) = m + n
      /\ \A i \in 1 .. m + n : q[i] = IF i <= m THEN v[i] ELSE w[i - m]
  BY ConcatProperties
<1>2. /\ m \in Nat /\ n \in Nat
      /\ DOMAIN v = 1 .. m /\ DOMAIN w = 1 .. n /\ DOMAIN q = 1 .. m + n
  BY <1>1, LenProperties
<1> HIDE DEF m, n, q
<1>3. /\ \A i \in 1 .. m : i \in 1 .. m + n /\ i <= m
      /\ \A i \in 1 .. n : m + i \in 1 .. m + n /\ ~(m + i <= m) /\ m + i - m = i
      /\ \A i \in 1 .. m + n :
            \/ i \in 1 .. m /\ i <= m
            \/ i - m \in 1 .. n /\ ~(i <= m) /\ i = m + (i - m)
  BY SMT, <1>2
<1>4. \A i \in DOMAIN v : i \in DOMAIN q /\ q[i] = v[i]
  BY <1>1, <1>2, <1>3, Zenon
<1>5. ASSUME NEW i \in DOMAIN w, NEW k, k = m + i PROVE k \in DOMAIN q /\ q[k] = w[i]
  <2>1. k \in 1 .. m + n /\ ~(k <= m) /\ k - m = i
    BY <1>2, <1>3, <1>5
  <2>2. q[k] = IF k <= m THEN v[k] ELSE w[k - m]
    BY <1>1, <2>1
  <2> QED
    BY <1>2, <2>1, <2>2
<1>6. ASSUME NEW i \in DOMAIN q
      PROVE  \/ i \in DOMAIN v /\ q[i] = v[i]
             \/ \E j \in DOMAIN w : i = m + j /\ q[i] = w[j]
  <2>1. i \in 1 .. m + n /\ q[i] = IF i <= m THEN v[i] ELSE w[i - m]
    BY <1>1, <1>2
  <2>2. CASE i \in 1 .. m /\ i <= m
    BY <2>1, <2>2, <1>2
  <2>3. CASE i - m \in 1 .. n /\ ~(i <= m) /\ i = m + (i - m)
    BY <2>1, <2>3, <1>2
  <2> QED
    BY <2>1, <2>2, <2>3, <1>3
<1> QED
  BY <1>1, <1>4, <1>5, <1>6 DEF m, q

\* The order of two places in a concatenation.
LEMMA ConcatOrder ==
    ASSUME NEW S, NEW v \in Seq(S), NEW w \in Seq(S)
    PROVE  /\ \A i \in DOMAIN v, j \in DOMAIN w : i < Len(v) + j /\ ~(Len(v) + j < i)
           /\ \A i, j \in DOMAIN w : Len(v) + i < Len(v) + j <=> i < j
<1> DEFINE m == Len(v)
           n == Len(w)
<1>1. m \in Nat /\ n \in Nat /\ DOMAIN v = 1 .. m /\ DOMAIN w = 1 .. n
  BY LenProperties
<1> HIDE DEF m, n
<1>2. /\ \A i \in 1 .. m, j \in 1 .. n : i < m + j /\ ~(m + j < i)
      /\ \A i, j \in 1 .. n : m + i < m + j <=> i < j
  BY SMT, <1>1
<1> QED
  BY <1>1, <1>2 DEF m

\* Short series.
LEMMA Short ==
    /\ << >> \in Seq(Writes) /\ DOMAIN << >> = {}
    /\ \A a \in Writes : <<a>> \in Seq(Writes) /\ DOMAIN <<a>> = {1} /\ <<a>>[1] = a
    /\ \A a, b \in Writes : /\ <<a, b>> \in Seq(Writes) /\ DOMAIN <<a, b>> = {1, 2}
                            /\ <<a, b>>[1] = a /\ <<a, b>>[2] = b
BY SMT

-----------------------------------------------------------------------------
(* One owner *)

\* A write that puts an entry into a table where walks see it.
Puts(w) == w.to = "entry" /\ w.entry.active
Hits(w, b) == w.to = "block" /\ w.place = b

\* ws takes the taken blocks from T to U: its FATs follow each other, free no
\* block, and an entry comes after the FAT that takes its first block.
Allots(ws, T, U) ==
    /\ T \subseteq U
    /\ \A i \in DOMAIN ws : ws[i].to = "fat" =>
          /\ T \subseteq Taken(ws[i].fat) /\ Taken(ws[i].fat) \subseteq U
          /\ Linked(ws[i].fat)
    /\ \A i, j \in DOMAIN ws :
          i < j /\ ws[i].to = "fat" /\ ws[j].to = "fat"
            => Taken(ws[i].fat) \subseteq Taken(ws[j].fat)
    /\ U = T \/ \E i \in DOMAIN ws : ws[i].to = "fat" /\ Taken(ws[i].fat) = U
    /\ \A i \in DOMAIN ws : Puts(ws[i]) =>
          /\ ws[i].entry.first # RootBlock
          /\ \/ ws[i].entry.first \in T
             \/ \E j \in DOMAIN ws : /\ j < i /\ ws[j].to = "fat"
                                     /\ ws[i].entry.first \in Taken(ws[j].fat)

\* An entry that ws puts shares its first block only with the entry that it
\* replaces.  If ws puts two entries with one first block, it is one slot, and
\* the first of them finds its place there.
Fits(ws) ==
    /\ \A i \in DOMAIN ws : Puts(ws[i]) =>
          \A s \in Spots : EntryAt(s).active /\ EntryAt(s).first = ws[i].entry.first
                             => s = ws[i].slot
    /\ \A i, j \in DOMAIN ws :
          i < j /\ Puts(ws[i]) /\ Puts(ws[j]) /\ ws[i].entry.first = ws[j].entry.first
            => /\ ws[i].slot = ws[j].slot /\ HasEntry(ws[i].slot)
               /\ \A k \in DOMAIN ws : k < i => ~Hits(ws[k], ws[i].slot.block)
    /\ \A i \in DOMAIN ws : ws[i].to = "block" =>
          \A n \in DOMAIN ws[i].content.entries : ~ws[i].content.entries[n].active

\* Every entry has a first block of its own, and the FAT does not call it free.
Owned ==
    /\ \A s \in Spots : EntryAt(s).active =>
          EntryAt(s).first \in Taken(fat) /\ EntryAt(s).first # RootBlock
    /\ \A s, t \in Spots :
          EntryAt(s).active /\ EntryAt(t).active /\ EntryAt(s).first = EntryAt(t).first
            => s = t

OwnerInv ==
    /\ Typed /\ Linked(fat) /\ Owned /\ Fits(todo)
    /\ \E U : Allots(todo, Taken(fat), U)

LEMMA AllotsTail ==
    ASSUME NEW ws \in Seq(Writes), ws # << >>, NEW T, NEW U, Allots(ws, T, U),
           NEW T2, T2 = IF Head(ws).to = "fat" THEN Taken(Head(ws).fat) ELSE T
    PROVE  /\ Allots(Tail(ws), T2, U)
           /\ T \subseteq T2
           /\ Puts(Head(ws)) => Head(ws).entry.first \in T /\ Head(ws).entry.first # RootBlock
           /\ Head(ws).to = "fat" => Linked(Head(ws).fat)
<1> DEFINE t == Tail(ws)
<1>1. /\ 1 \in DOMAIN ws /\ Head(ws) = ws[1]
      /\ \A i \in DOMAIN t :
            i \in Nat /\ i + 1 \in DOMAIN ws /\ 1 < i + 1 /\ t[i] = ws[i + 1]
      /\ \A i \in DOMAIN ws :
            i \in Nat /\ (i = 1 \/ (i - 1 \in DOMAIN t /\ t[i - 1] = ws[i]))
  BY TailAt
<1> HIDE DEF t
<1>2. T \subseteq T2 /\ T2 \subseteq U
  BY <1>1 DEF Allots
<1>3. ASSUME NEW i \in DOMAIN t, t[i].to = "fat"
      PROVE  T2 \subseteq Taken(t[i].fat) /\ Taken(t[i].fat) \subseteq U /\ Linked(t[i].fat)
  <2>1. PICK k \in DOMAIN ws : t[i] = ws[k] /\ 1 < k
    BY <1>1
  <2>2. T \subseteq Taken(ws[k].fat) /\ Taken(ws[k].fat) \subseteq U /\ Linked(ws[k].fat)
    BY <1>3, <2>1 DEF Allots
  <2>3. ws[1].to = "fat" => Taken(ws[1].fat) \subseteq Taken(ws[k].fat)
    BY <1>1, <1>3, <2>1 DEF Allots
  <2> QED
    BY <1>1, <2>1, <2>2, <2>3
<1>4. ASSUME NEW i \in DOMAIN t, NEW j \in DOMAIN t, i < j, t[i].to = "fat", t[j].to = "fat"
      PROVE  Taken(t[i].fat) \subseteq Taken(t[j].fat)
  <2>1. i + 1 < j + 1
    BY SMT, <1>1, <1>4
  <2>2. PICK k \in DOMAIN ws, l \in DOMAIN ws : t[i] = ws[k] /\ t[j] = ws[l] /\ k < l
    BY <1>1, <2>1
  <2> QED
    BY <2>2, <1>4 DEF Allots
<1>5. U = T2 \/ \E i \in DOMAIN t : t[i].to = "fat" /\ Taken(t[i].fat) = U
  <2>1. CASE U = T
    BY <2>1, <1>2
  <2>2. ASSUME NEW i \in DOMAIN ws, ws[i].to = "fat", Taken(ws[i].fat) = U
        PROVE  U = T2 \/ \E n \in DOMAIN t : t[n].to = "fat" /\ Taken(t[n].fat) = U
    BY <2>2, <1>1
  <2> QED
    BY <2>1, <2>2 DEF Allots
<1>6. ASSUME NEW i \in DOMAIN t, Puts(t[i])
      PROVE  /\ t[i].entry.first # RootBlock
             /\ \/ t[i].entry.first \in T2
                \/ \E j \in DOMAIN t : /\ j < i /\ t[j].to = "fat"
                                       /\ t[i].entry.first \in Taken(t[j].fat)
  <2>1. t[i] = ws[i + 1] /\ i + 1 \in DOMAIN ws
    BY <1>1
  <2>2. /\ t[i].entry.first # RootBlock
        /\ \/ t[i].entry.first \in T
           \/ \E j \in DOMAIN ws : /\ j < i + 1 /\ ws[j].to = "fat"
                                   /\ t[i].entry.first \in Taken(ws[j].fat)
    BY <2>1, <1>6 DEF Allots
  <2>3. ASSUME NEW j \in DOMAIN ws, j < i + 1, ws[j].to = "fat",
               t[i].entry.first \in Taken(ws[j].fat)
        PROVE  \/ t[i].entry.first \in T2
               \/ \E n \in DOMAIN t : /\ n < i /\ t[n].to = "fat"
                                      /\ t[i].entry.first \in Taken(t[n].fat)
    <3>1. CASE j = 1
      BY <3>1, <2>3, <1>1
    <3>2. CASE j # 1
      <4>1. j - 1 \in DOMAIN t /\ t[j - 1] = ws[j]
        BY <3>2, <1>1
      <4>2. j - 1 < i
        BY SMT, <2>3, <1>1
      <4> QED
        BY <4>1, <4>2, <2>3
    <3> QED
      BY <3>1, <3>2
  <2> QED
    BY <2>2, <2>3, <1>2
<1>7. /\ Puts(Head(ws)) => Head(ws).entry.first \in T /\ Head(ws).entry.first # RootBlock
      /\ Head(ws).to = "fat" => Linked(Head(ws).fat)
  <2>1. \A j \in DOMAIN ws : ~(j < 1)
    BY SMT, LenProperties
  <2> QED
    BY <2>1, <1>1 DEF Allots
<1>8. Allots(t, T2, U)
  BY <1>2, <1>3, <1>4, <1>5, <1>6 DEF Allots
<1> QED
  BY <1>2, <1>7, <1>8 DEF t

\* What becomes of the entries when a write is done: at most one spot holds the
\* write's entry, and no other spot becomes active.
LEMMA DoneIs ==
    ASSUME Typed, NEW w \in Writes, Done(w),
           w.to = "block" => \A i \in DOMAIN w.content.entries : ~w.content.entries[i].active
    PROVE  /\ sb' \in Superblocks /\ fat' \in Fats
           /\ DOMAIN disk' = Places /\ \A p \in Places : disk'[p] \in Contents
           /\ fat' = IF w.to = "fat" THEN w.fat ELSE fat
           /\ \A u \in Spots : HasEntry(u) /\ ~Hits(w, u.block) => HasEntry(u)'
           /\ Puts(w) => \E t \in Spots :
                /\ HasEntry(w.slot) => t = w.slot
                /\ \A u \in Spots : EntryAt(u)' = IF u = t THEN w.entry ELSE EntryAt(u)
                /\ ~HasEntry(w.slot) => EntryAt(w.slot) = Junk
           /\ ~Puts(w) => \A u \in Spots : EntryAt(u)'.active =>
                EntryAt(u).active /\ EntryAt(u)'.first = EntryAt(u).first
<1>1. sb' \in Superblocks /\ fat' \in Fats
  BY WriteIs DEF Done, Typed
<1>2. fat' = IF w.to = "fat" THEN w.fat ELSE fat
  BY DEF Done
<1>3. CASE w.to \in {"sb", "fat"}
  <2>1. disk' = disk
    BY <1>3 DEF Done
  <2> QED
    BY <1>1, <1>2, <1>3, <2>1 DEF Puts, Hits, HasEntry, EntryAt, Typed
<1>4. CASE w.to = "entry"
  <2>1. disk' = [disk EXCEPT ![w.slot.block] = Changed(w.slot.block, w.slot.index, w.entry)]
    BY <1>4 DEF Done
  <2>2. w.slot \in Spots /\ w.entry \in Entries
    BY <1>4, WriteIs
  <2>3. DOMAIN disk' = Places /\ \A p \in Places : disk'[p] \in Contents
    BY <2>1, <2>2, EntryWritten
  <2>4. PICK t \in Spots :
          /\ HasEntry(w.slot) => t = w.slot
          /\ ~HasEntry(w.slot) => EntryAt(w.slot) = Junk
          /\ \A u \in Spots :
               /\ EntryAt(u)' = IF u = t THEN w.entry ELSE EntryAt(u)
               /\ HasEntry(u) => HasEntry(u)'
    BY <2>1, <2>2, EntryWritten
  <2>5. \A u \in Spots : HasEntry(u) /\ ~Hits(w, u.block) => HasEntry(u)'
    BY <2>4
  <2>6. Puts(w) => \E s \in Spots :
          /\ HasEntry(w.slot) => s = w.slot
          /\ \A u \in Spots : EntryAt(u)' = IF u = s THEN w.entry ELSE EntryAt(u)
          /\ ~HasEntry(w.slot) => EntryAt(w.slot) = Junk
    BY <2>4
  <2>7. ~Puts(w) => \A u \in Spots : EntryAt(u)'.active =>
          EntryAt(u).active /\ EntryAt(u)'.first = EntryAt(u).first
    BY <1>4, <2>4 DEF Puts
  <2> QED
    BY <1>1, <1>2, <2>3, <2>5, <2>6, <2>7
<1>5. CASE w.to = "name"
  <2> DEFINE e == [EntryAt(w.slot) EXCEPT !.name = w.name]
  <2>1. disk' = [disk EXCEPT ![w.slot.block] = Changed(w.slot.block, w.slot.index, e)]
    BY <1>5 DEF Done
  <2>2. w.slot \in Spots /\ w.name \in Names
    BY <1>5, WriteIs
  <2>3. EntryAt(w.slot) \in Entries
    BY <2>2, EntryIs
  <2>4. e \in Entries /\ e.active = EntryAt(w.slot).active /\ e.first = EntryAt(w.slot).first
    BY <2>2, <2>3 DEF Entries
  <2> HIDE DEF e
  <2>5. DOMAIN disk' = Places /\ \A p \in Places : disk'[p] \in Contents
    BY <2>1, <2>2, <2>4, EntryWritten
  <2>6. PICK t \in Spots :
          /\ HasEntry(w.slot) => t = w.slot
          /\ ~HasEntry(w.slot) => EntryAt(w.slot) = Junk
          /\ \A u \in Spots :
               /\ EntryAt(u)' = IF u = t THEN e ELSE EntryAt(u)
               /\ HasEntry(u) => HasEntry(u)'
    BY <2>1, <2>2, <2>4, EntryWritten
  <2>7. \A u \in Spots : EntryAt(u)'.active =>
          EntryAt(u).active /\ EntryAt(u)'.first = EntryAt(u).first
    BY <2>4, <2>6, JunkIs
  <2> QED
    BY <1>1, <1>2, <1>5, <2>5, <2>6, <2>7 DEF Puts
<1>6. CASE w.to = "block"
  <2>1. disk' = [disk EXCEPT ![w.place] = w.content]
    BY <1>6 DEF Done
  <2>2. w.place \in Places /\ w.content \in Contents
    BY <1>6, WriteIs
  <2>3. DOMAIN disk' = Places /\ \A p \in Places : disk'[p] \in Contents
    BY <1>6, <2>1, <2>2, BlockWritten
  <2>4. \A u \in Spots :
          /\ u.block = w.place => ~EntryAt(u)'.active
          /\ u.block # w.place => EntryAt(u)' = EntryAt(u) /\ (HasEntry(u) => HasEntry(u)')
    BY <1>6, <2>1, <2>2, BlockWritten
  <2> QED
    BY <1>1, <1>2, <1>6, <2>3, <2>4 DEF Puts, Hits
<1> QED
  BY <1>3, <1>4, <1>5, <1>6, WriteIs

\* The next write of the command keeps everything in order.
LEMMA WriteKeepsOwners == ASSUME OwnerInv, Write PROVE OwnerInv'
<1> DEFINE w == Head(todo)
           t == Tail(todo)
<1>1. todo \in Seq(Writes) /\ todo # << >> /\ Done(w) /\ todo' = t
  BY DEF OwnerInv, Typed, Write
<1>2. /\ t \in Seq(Writes) /\ 1 \in DOMAIN todo /\ w = todo[1]
      /\ \A i \in DOMAIN t :
            i \in Nat /\ i + 1 \in DOMAIN todo /\ 1 < i + 1 /\ t[i] = todo[i + 1]
  BY <1>1, TailAt
<1>3. w \in Writes
  BY <1>1, <1>2, ElementOfSeq
<1> HIDE DEF w, t
<1>4. PICK U : Allots(todo, Taken(fat), U)
  BY DEF OwnerInv
<1> DEFINE T2 == IF w.to = "fat" THEN Taken(w.fat) ELSE Taken(fat)
<1>5. /\ Allots(t, T2, U) /\ Taken(fat) \subseteq T2
      /\ Puts(w) => w.entry.first \in Taken(fat) /\ w.entry.first # RootBlock
      /\ w.to = "fat" => Linked(w.fat)
  BY <1>1, <1>4, AllotsTail DEF w, t
<1>6. w.to = "block" => \A i \in DOMAIN w.content.entries : ~w.content.entries[i].active
  BY <1>2 DEF OwnerInv, Fits
<1>7. /\ sb' \in Superblocks /\ fat' \in Fats
      /\ DOMAIN disk' = Places /\ \A p \in Places : disk'[p] \in Contents
      /\ fat' = IF w.to = "fat" THEN w.fat ELSE fat
      /\ \A u \in Spots : HasEntry(u) /\ ~Hits(w, u.block) => HasEntry(u)'
      /\ Puts(w) => \E s \in Spots :
           /\ HasEntry(w.slot) => s = w.slot
           /\ \A u \in Spots : EntryAt(u)' = IF u = s THEN w.entry ELSE EntryAt(u)
           /\ ~HasEntry(w.slot) => EntryAt(w.slot) = Junk
      /\ ~Puts(w) => \A u \in Spots : EntryAt(u)'.active =>
           EntryAt(u).active /\ EntryAt(u)'.first = EntryAt(u).first
  BY <1>1, <1>3, <1>6, DoneIs DEF OwnerInv
<1>8. Typed'
  BY <1>1, <1>2, <1>7 DEF Typed
<1>9. Linked(fat') /\ Taken(fat') = T2 /\ Taken(fat) \subseteq Taken(fat')
  BY <1>5, <1>7 DEF OwnerInv
<1>10. \A i \in DOMAIN t : t[i].to = "block" =>
          \A n \in DOMAIN t[i].content.entries : ~t[i].content.entries[n].active
  BY <1>2 DEF OwnerInv, Fits
\* Of two entries the first still finds its place.
<1>11. ASSUME NEW i \in DOMAIN t, NEW j \in DOMAIN t, i < j, Puts(t[i]), Puts(t[j]),
              t[i].entry.first = t[j].entry.first
       PROVE  /\ t[i].slot = t[j].slot
              /\ t[i].slot.index \in DOMAIN disk'[t[i].slot.block].entries
              /\ \A k \in DOMAIN t : k < i => ~Hits(t[k], t[i].slot.block)
  <2>1. i + 1 < j + 1 /\ \A k \in DOMAIN t : k < i => k + 1 < i + 1
    BY SMT, <1>2, <1>11
  <2>2. PICK m \in DOMAIN todo, n \in DOMAIN todo :
          /\ t[i] = todo[m] /\ t[j] = todo[n] /\ m < n /\ 1 < m /\ m = i + 1
    BY <1>2, <2>1
  <2>3. /\ t[i].slot = t[j].slot /\ HasEntry(t[i].slot)
        /\ \A k \in DOMAIN todo : k < m => ~Hits(todo[k], t[i].slot.block)
    BY <1>11, <2>2 DEF OwnerInv, Fits
  <2>4. \A k \in DOMAIN t : k < i => ~Hits(t[k], t[i].slot.block)
    BY <1>2, <2>1, <2>2, <2>3
  <2>5. ~Hits(w, t[i].slot.block)
    BY <1>2, <2>2, <2>3
  <2>6. t[i].slot \in Spots
    BY <1>2, <1>11, ElementOfSeq, WriteIs DEF Puts
  <2>7. \A s \in Spots : HasEntry(s) /\ ~Hits(w, s.block)
           => s.index \in DOMAIN disk'[s.block].entries
    BY <1>7 DEF HasEntry
  <2> QED
    BY <2>3, <2>4, <2>5, <2>6, <2>7
<1>12. CASE Puts(w)
  <2>1. PICK s \in Spots :
          /\ HasEntry(w.slot) => s = w.slot
          /\ \A u \in Spots : EntryAt(u)' = IF u = s THEN w.entry ELSE EntryAt(u)
          /\ ~HasEntry(w.slot) => EntryAt(w.slot) = Junk
    BY <1>7, <1>12
  <2>2. w.slot \in Spots /\ w.entry.active
    BY <1>3, <1>12, WriteIs DEF Puts
  <2>3. \A u \in Spots : EntryAt(u).active /\ EntryAt(u).first = w.entry.first => u = w.slot
    BY <1>2, <1>12 DEF OwnerInv, Fits
  <2>4. \A u \in Spots : EntryAt(u).active /\ EntryAt(u).first = w.entry.first => u = s
    BY <2>1, <2>2, <2>3, JunkIs
  <2>5. Owned'
    <3>1. \A u \in Spots : EntryAt(u)'.active =>
             EntryAt(u)'.first \in Taken(fat') /\ EntryAt(u)'.first # RootBlock
      BY <1>5, <1>9, <1>12, <2>1 DEF OwnerInv, Owned
    <3>2. ASSUME NEW u \in Spots, NEW v \in Spots, EntryAt(u)'.active, EntryAt(v)'.active,
                 EntryAt(u)'.first = EntryAt(v)'.first
          PROVE  u = v
      <4>1. CASE u = s \/ v = s
        BY <4>1, <3>2, <2>1, <2>4
      <4>2. CASE u # s /\ v # s
        BY <4>2, <3>2, <2>1 DEF OwnerInv, Owned
      <4> QED
        BY <4>1, <4>2
    <3> QED
      BY <3>1, <3>2 DEF Owned
  <2>6. ASSUME NEW i \in DOMAIN t, Puts(t[i]), NEW u \in Spots, EntryAt(u)'.active,
               EntryAt(u)'.first = t[i].entry.first
        PROVE  u = t[i].slot
    <3>1. PICK m \in DOMAIN todo : t[i] = todo[m] /\ 1 < m
      BY <1>2
    <3>2. CASE u = s
      <4>1. EntryAt(u)' = w.entry
        BY <3>2, <2>1
      <4>2. w.slot = t[i].slot /\ HasEntry(w.slot)
        BY <4>1, <3>1, <1>2, <1>12, <2>6 DEF OwnerInv, Fits
      <4> QED
        BY <4>2, <2>1, <3>2
    <3>3. CASE u # s
      BY <3>1, <2>6, <3>3, <2>1 DEF OwnerInv, Fits
    <3> QED
      BY <3>2, <3>3
  <2>7. Fits(todo)'
    BY <1>1, <1>10, <1>11, <2>6 DEF Fits, HasEntry
  <2> QED
    BY <1>1, <1>5, <1>8, <1>9, <2>5, <2>7 DEF OwnerInv
<1>13. CASE ~Puts(w)
  <2>1. \A u \in Spots : EntryAt(u)'.active =>
          EntryAt(u).active /\ EntryAt(u)'.first = EntryAt(u).first
    BY <1>7, <1>13
  <2>2. Owned'
    BY <2>1, <1>9 DEF OwnerInv, Owned
  <2>3. \A i \in DOMAIN t : Puts(t[i]) =>
          \A u \in Spots : EntryAt(u)'.active /\ EntryAt(u)'.first = t[i].entry.first
                             => u = t[i].slot
    BY <2>1, <1>2 DEF OwnerInv, Fits
  <2>4. Fits(todo)'
    BY <1>1, <1>10, <1>11, <2>3 DEF Fits, HasEntry
  <2> QED
    BY <1>1, <1>5, <1>8, <1>9, <2>2, <2>4 DEF OwnerInv
<1> QED
  BY <1>12, <1>13

LEMMA AllotsThen ==
    ASSUME NEW v \in Seq(Writes), NEW w \in Seq(Writes), NEW T, NEW U, NEW V,
           Allots(v, T, U), Allots(w, U, V)
    PROVE  Allots(v \o w, T, V)
<1> DEFINE q == v \o w
           m == Len(v)
<1>1. /\ \A i \in DOMAIN v : i \in DOMAIN q /\ q[i] = v[i]
      /\ \A i \in DOMAIN w : m + i \in DOMAIN q /\ q[m + i] = w[i]
      /\ \A i \in DOMAIN q :
           \/ i \in DOMAIN v /\ q[i] = v[i]
           \/ \E j \in DOMAIN w : i = m + j /\ q[i] = w[j]
  BY ConcatAt
<1>2. /\ \A i \in DOMAIN v, j \in DOMAIN w : i < m + j /\ ~(m + j < i)
      /\ \A i, j \in DOMAIN w : m + i < m + j <=> i < j
  BY ConcatOrder
<1> HIDE DEF q, m
<1>3. T \subseteq U /\ U \subseteq V
  BY DEF Allots
<1>4. \A i \in DOMAIN q : q[i].to = "fat" =>
         T \subseteq Taken(q[i].fat) /\ Taken(q[i].fat) \subseteq V /\ Linked(q[i].fat)
  BY <1>1, <1>3 DEF Allots
<1>5. ASSUME NEW i \in DOMAIN q, NEW j \in DOMAIN q, i < j,
             q[i].to = "fat", q[j].to = "fat"
      PROVE  Taken(q[i].fat) \subseteq Taken(q[j].fat)
  <2>1. CASE i \in DOMAIN v /\ q[i] = v[i] /\ j \in DOMAIN v /\ q[j] = v[j]
    BY <2>1, <1>5 DEF Allots
  <2>2. ASSUME i \in DOMAIN v /\ q[i] = v[i], NEW l \in DOMAIN w, q[j] = w[l]
        PROVE  Taken(q[i].fat) \subseteq Taken(q[j].fat)
    BY <2>2, <1>5 DEF Allots
  <2>3. ASSUME NEW k \in DOMAIN w, i = m + k, j \in DOMAIN v PROVE FALSE
    BY <2>3, <1>2, <1>5
  <2>4. ASSUME NEW k \in DOMAIN w, i = m + k, q[i] = w[k],
               NEW l \in DOMAIN w, j = m + l, q[j] = w[l]
        PROVE  Taken(q[i].fat) \subseteq Taken(q[j].fat)
    <3>1. k < l
      BY <2>4, <1>2, <1>5
    <3> QED
      BY <3>1, <2>4, <1>5 DEF Allots
  <2> QED
    BY <1>1, <2>1, <2>2, <2>3, <2>4
<1>6. V = T \/ \E i \in DOMAIN q : q[i].to = "fat" /\ Taken(q[i].fat) = V
  <2>1. CASE V = U /\ U = T
    BY <2>1
  <2>2. ASSUME V = U, NEW i \in DOMAIN v, v[i].to = "fat", Taken(v[i].fat) = U
        PROVE  \E k \in DOMAIN q : q[k].to = "fat" /\ Taken(q[k].fat) = V
    BY <2>2, <1>1
  <2>3. ASSUME NEW i \in DOMAIN w, w[i].to = "fat", Taken(w[i].fat) = V
        PROVE  \E k \in DOMAIN q : q[k].to = "fat" /\ Taken(q[k].fat) = V
    BY <2>3, <1>1
  <2> QED
    BY <2>1, <2>2, <2>3 DEF Allots
<1>7. ASSUME NEW i \in DOMAIN q, Puts(q[i])
      PROVE  /\ q[i].entry.first # RootBlock
             /\ \/ q[i].entry.first \in T
                \/ \E j \in DOMAIN q : /\ j < i /\ q[j].to = "fat"
                                       /\ q[i].entry.first \in Taken(q[j].fat)
  <2>1. CASE i \in DOMAIN v /\ q[i] = v[i]
    BY <2>1, <1>1, <1>7 DEF Allots
  <2>2. ASSUME NEW k \in DOMAIN w, i = m + k, q[i] = w[k]
        PROVE  /\ q[i].entry.first # RootBlock
               /\ \/ q[i].entry.first \in T
                  \/ \E j \in DOMAIN q : /\ j < i /\ q[j].to = "fat"
                                         /\ q[i].entry.first \in Taken(q[j].fat)
    <3> DEFINE b == w[k].entry.first
    <3>1. /\ b # RootBlock
          /\ \/ b \in U
             \/ \E j \in DOMAIN w : j < k /\ w[j].to = "fat" /\ b \in Taken(w[j].fat)
      BY <2>2, <1>7 DEF Allots
    <3>2. b \in U => \/ b \in T
                     \/ \E j \in DOMAIN v : v[j].to = "fat" /\ b \in Taken(v[j].fat)
      BY DEF Allots
    <3>3. \A j \in DOMAIN v : j < i /\ j \in DOMAIN q /\ q[j] = v[j]
      BY <1>1, <1>2, <2>2
    <3>4. \A j \in DOMAIN w : j < k => m + j < i /\ m + j \in DOMAIN q /\ q[m + j] = w[j]
      BY <1>1, <1>2, <2>2
    <3>5. b = q[i].entry.first
      BY <2>2
    <3> HIDE DEF b
    <3>6. ASSUME NEW j \in DOMAIN w, j < k, w[j].to = "fat", b \in Taken(w[j].fat)
          PROVE  \E l \in DOMAIN q : l < i /\ q[l].to = "fat" /\ b \in Taken(q[l].fat)
      BY <3>4, <3>6
    <3>7. ASSUME NEW j \in DOMAIN v, v[j].to = "fat", b \in Taken(v[j].fat)
          PROVE  \E l \in DOMAIN q : l < i /\ q[l].to = "fat" /\ b \in Taken(q[l].fat)
      BY <3>3, <3>7
    <3> QED
      BY <3>1, <3>2, <3>5, <3>6, <3>7
  <2> QED
    BY <1>1, <2>1, <2>2
<1> QED
  BY <1>3, <1>4, <1>5, <1>6, <1>7 DEF Allots, q

\* Writes that take no block.
LEMMA TakesNothing ==
    ASSUME NEW ws \in Seq(Writes), NEW T,
           \A i \in DOMAIN ws : ws[i].to # "fat",
           \A i \in DOMAIN ws : Puts(ws[i]) =>
              ws[i].entry.first \in T /\ ws[i].entry.first # RootBlock
    PROVE  Allots(ws, T, T)
BY DEF Allots

-----------------------------------------------------------------------------
(* The count of free blocks *)

Free(T) == Cardinality(Blocks \ T)

LEMMA FreeIsCounted ==
    /\ IsFiniteSet(Blocks) /\ Cardinality(Blocks) = NumBlocks
    /\ \A T : IsFiniteSet(Blocks \ T) /\ Free(T) \in Nat /\ Free(T) <= NumBlocks
    /\ \A f : FreeBlocks(f) = Blocks \ Taken(f)
    /\ \A T : Blocks \ T # {} <=> Free(T) # 0
<1>1. IsFiniteSet(Blocks) /\ Cardinality(Blocks) = NumBlocks
  BY Sizes, FirstNumbers DEF Blocks
<1>2. ASSUME NEW T
      PROVE  /\ IsFiniteSet(Blocks \ T) /\ Free(T) \in Nat /\ Free(T) <= NumBlocks
             /\ Blocks \ T # {} <=> Free(T) # 0
  BY FS_CardinalityType, FS_EmptySet, <1>1, FS_Subset DEF Free
<1>3. \A f : FreeBlocks(f) = Blocks \ Taken(f)
  BY DEF FreeBlocks, Taken
<1> QED
  BY <1>1, <1>2, <1>3

LEMMA OneMoreTaken ==
    ASSUME NEW T, NEW b \in Blocks, b \notin T
    PROVE  Free(T \cup {b}) = Free(T) - 1
<1>1. IsFiniteSet(Blocks \ T) /\ b \in Blocks \ T
  BY FreeIsCounted
<1>2. Cardinality((Blocks \ T) \ {b}) = Cardinality(Blocks \ T) - 1
  BY <1>1, FS_RemoveElement
<1>3. Blocks \ (T \cup {b}) = (Blocks \ T) \ {b}
  OBVIOUS
<1> QED
  BY <1>2, <1>3 DEF Free

\* From a superblock that counts m free blocks, ws comes to one that counts n:
\* no count grows, and a FAT has, when it is written, the blocks that the
\* superblock before it counts.
CountOf(w) == w.sb.numFree
FreeOf(w) == Free(Taken(w.fat))

Counted(ws, m, n) ==
    /\ n <= m
    /\ \A i \in DOMAIN ws : ws[i].to = "sb" => n <= CountOf(ws[i]) /\ CountOf(ws[i]) <= m
    /\ \A i, j \in DOMAIN ws :
          i < j /\ ws[i].to = "sb" /\ ws[j].to = "sb" => CountOf(ws[j]) <= CountOf(ws[i])
    /\ n = m \/ \E i \in DOMAIN ws : ws[i].to = "sb" /\ CountOf(ws[i]) = n
    /\ \A j \in DOMAIN ws : ws[j].to = "fat" =>
          \/ m <= FreeOf(ws[j])
          \/ \E i \in DOMAIN ws : i < j /\ ws[i].to = "sb" /\ CountOf(ws[i]) <= FreeOf(ws[j])

LEMMA CountIs ==
    ASSUME NEW w \in Writes
    PROVE  /\ w.to = "sb" => CountOf(w) \in Nat
           /\ FreeOf(w) \in Nat
BY WriteIs, FreeIsCounted DEF CountOf, FreeOf, Superblocks

LEMMA CountedTail ==
    ASSUME NEW ws \in Seq(Writes), ws # << >>, NEW m \in Nat, NEW n \in Nat,
           Counted(ws, m, n),
           NEW m2, m2 = IF Head(ws).to = "sb" THEN CountOf(Head(ws)) ELSE m
    PROVE  /\ Counted(Tail(ws), m2, n)
           /\ m2 \in Nat /\ m2 <= m
           /\ Head(ws).to = "fat" => m <= FreeOf(Head(ws))
<1> DEFINE t == Tail(ws)
<1>1. /\ t \in Seq(Writes) /\ 1 \in DOMAIN ws /\ Head(ws) = ws[1]
      /\ \A i \in DOMAIN t :
            i \in Nat /\ i + 1 \in DOMAIN ws /\ 1 < i + 1 /\ t[i] = ws[i + 1]
      /\ \A i \in DOMAIN ws :
            i \in Nat /\ (i = 1 \/ (i - 1 \in DOMAIN t /\ t[i - 1] = ws[i]))
  BY TailAt
<1> HIDE DEF t
<1>2. \A i \in DOMAIN ws : ws[i] \in Writes
  BY ElementOfSeq
<1>3. m2 \in Nat /\ m2 <= m /\ n <= m2
  <2>1. CASE ws[1].to = "sb"
    BY <2>1, <1>1, <1>2, CountIs DEF Counted
  <2>2. CASE ws[1].to # "sb"
    BY <2>2, <1>1, SMT DEF Counted
  <2> QED
    BY <2>1, <2>2
<1>4. ASSUME NEW i \in DOMAIN t, t[i].to = "sb"
      PROVE  n <= CountOf(t[i]) /\ CountOf(t[i]) <= m2
  <2>1. PICK k \in DOMAIN ws : t[i] = ws[k] /\ 1 < k
    BY <1>1
  <2> QED
    BY <2>1, <1>1, <1>4 DEF Counted
<1>5. ASSUME NEW i \in DOMAIN t, NEW j \in DOMAIN t, i < j, t[i].to = "sb", t[j].to = "sb"
      PROVE  CountOf(t[j]) <= CountOf(t[i])
  <2>1. i + 1 < j + 1
    BY SMT, <1>1, <1>5
  <2>2. PICK k \in DOMAIN ws, l \in DOMAIN ws : t[i] = ws[k] /\ t[j] = ws[l] /\ k < l
    BY <1>1, <2>1
  <2> QED
    BY <2>2, <1>5 DEF Counted
<1>6. n = m2 \/ \E i \in DOMAIN t : t[i].to = "sb" /\ CountOf(t[i]) = n
  <2>1. CASE n = m /\ ws[1].to # "sb"
    BY <2>1, <1>1
  <2>2. CASE n = m /\ ws[1].to = "sb"
    BY <2>2, <1>3, SMT
  <2>3. ASSUME NEW i \in DOMAIN ws, ws[i].to = "sb", CountOf(ws[i]) = n
        PROVE  n = m2 \/ \E k \in DOMAIN t : t[k].to = "sb" /\ CountOf(t[k]) = n
    BY <2>3, <1>1
  <2> QED
    BY <2>1, <2>2, <2>3 DEF Counted
<1>7. ASSUME NEW j \in DOMAIN t, t[j].to = "fat"
      PROVE  \/ m2 <= FreeOf(t[j])
             \/ \E i \in DOMAIN t : i < j /\ t[i].to = "sb" /\ CountOf(t[i]) <= FreeOf(t[j])
  <2>1. PICK l \in DOMAIN ws : t[j] = ws[l] /\ l = j + 1
    BY <1>1
  <2>2. FreeOf(t[j]) \in Nat
    BY <2>1, <1>2, CountIs
  <2>3. CASE m <= FreeOf(t[j])
    BY SMT, <1>3, <2>2, <2>3
  <2>4. ASSUME NEW k \in DOMAIN ws, k < l, ws[k].to = "sb", CountOf(ws[k]) <= FreeOf(t[j])
        PROVE  \/ m2 <= FreeOf(t[j])
               \/ \E i \in DOMAIN t : i < j /\ t[i].to = "sb" /\ CountOf(t[i]) <= FreeOf(t[j])
    <3>1. CASE k = 1
      BY <3>1, <2>4, <1>1
    <3>2. CASE k # 1
      <4>1. k - 1 \in DOMAIN t /\ t[k - 1] = ws[k]
        BY <3>2, <1>1
      <4>2. k - 1 < j
        BY SMTT(20), <2>1, <2>4, <1>1
      <4> QED
        BY <4>1, <4>2, <2>4
    <3> QED
      BY <3>1, <3>2
  <2> QED
    BY <2>1, <2>3, <2>4, <1>7 DEF Counted
<1>8. Head(ws).to = "fat" => m <= FreeOf(Head(ws))
  <2>1. \A j \in DOMAIN ws : ~(j < 1)
    BY SMT, LenProperties
  <2> QED
    BY <2>1, <1>1 DEF Counted
<1>9. Counted(t, m2, n)
  BY <1>3, <1>4, <1>5, <1>6, <1>7 DEF Counted
<1> QED
  BY <1>3, <1>8, <1>9 DEF t

LEMMA CountedThen ==
    ASSUME NEW v \in Seq(Writes), NEW w \in Seq(Writes),
           NEW m \in Nat, NEW n \in Nat, NEW o \in Nat, Counted(v, m, n), Counted(w, n, o)
    PROVE  Counted(v \o w, m, o)
<1> DEFINE q == v \o w
           k == Len(v)
<1>1. /\ q \in Seq(Writes)
      /\ \A i \in DOMAIN v : i \in DOMAIN q /\ q[i] = v[i]
      /\ \A i \in DOMAIN w : k + i \in DOMAIN q /\ q[k + i] = w[i]
      /\ \A i \in DOMAIN q :
           \/ i \in DOMAIN v /\ q[i] = v[i]
           \/ \E j \in DOMAIN w : i = k + j /\ q[i] = w[j]
  BY ConcatAt
<1>2. /\ \A i \in DOMAIN v, j \in DOMAIN w : i < k + j /\ ~(k + j < i)
      /\ \A i, j \in DOMAIN w : k + i < k + j <=> i < j
  BY ConcatOrder
<1>3. /\ \A i \in DOMAIN q : q[i].to = "sb" => CountOf(q[i]) \in Nat
      /\ \A i \in DOMAIN q : FreeOf(q[i]) \in Nat
  <2>1. \A i \in DOMAIN q : q[i] \in Writes
    BY <1>1, ElementOfSeq
  <2> HIDE DEF q
  <2> QED
    BY <2>1, CountIs
<1> HIDE DEF q, k
<1>4. \A a, b, c \in Nat : a <= b /\ b <= c => a <= c
  BY SMT
<1>5. n <= m /\ o <= n /\ o <= m
  BY <1>4 DEF Counted
<1>6. ASSUME NEW i \in DOMAIN q, q[i].to = "sb"
      PROVE  /\ o <= CountOf(q[i]) /\ CountOf(q[i]) <= m
             /\ i \in DOMAIN v /\ q[i] = v[i] => n <= CountOf(q[i])
             /\ \A j \in DOMAIN w : q[i] = w[j] => CountOf(q[i]) <= n
  <2>1. i \in DOMAIN v /\ q[i] = v[i] => n <= CountOf(q[i]) /\ CountOf(q[i]) <= m
    BY <1>6 DEF Counted
  <2>2. \A j \in DOMAIN w : q[i] = w[j] => o <= CountOf(q[i]) /\ CountOf(q[i]) <= n
    BY <1>6 DEF Counted
  <2>3. CountOf(q[i]) \in Nat
    BY <1>3, <1>6
  <2> HIDE DEF CountOf
  <2> QED
    BY <1>1, <1>4, <1>5, <2>1, <2>2, <2>3
<1>7. ASSUME NEW i \in DOMAIN q, NEW j \in DOMAIN q, i < j, q[i].to = "sb", q[j].to = "sb"
      PROVE  CountOf(q[j]) <= CountOf(q[i])
  <2>1. CASE i \in DOMAIN v /\ q[i] = v[i] /\ j \in DOMAIN v /\ q[j] = v[j]
    BY <2>1, <1>7 DEF Counted
  <2>2. ASSUME i \in DOMAIN v, q[i] = v[i], NEW l \in DOMAIN w, q[j] = w[l]
        PROVE  CountOf(q[j]) <= CountOf(q[i])
    BY <2>2, <1>3, <1>4, <1>6, <1>7
  <2>3. ASSUME NEW l \in DOMAIN w, i = k + l, j \in DOMAIN v PROVE FALSE
    BY <2>3, <1>2, <1>7
  <2>4. ASSUME NEW l \in DOMAIN w, i = k + l, q[i] = w[l],
               NEW r \in DOMAIN w, j = k + r, q[j] = w[r]
        PROVE  CountOf(q[j]) <= CountOf(q[i])
    BY <2>4, <1>7, <1>2 DEF Counted
  <2> QED
    BY <1>1, <2>1, <2>2, <2>3, <2>4
<1>8. o = m \/ \E i \in DOMAIN q : q[i].to = "sb" /\ CountOf(q[i]) = o
  <2>1. CASE o = n /\ n = m
    BY <2>1
  <2>2. ASSUME o = n, NEW i \in DOMAIN v, v[i].to = "sb", CountOf(v[i]) = n
        PROVE  \E l \in DOMAIN q : q[l].to = "sb" /\ CountOf(q[l]) = o
    BY <2>2, <1>1
  <2>3. ASSUME NEW i \in DOMAIN w, w[i].to = "sb", CountOf(w[i]) = o
        PROVE  \E l \in DOMAIN q : q[l].to = "sb" /\ CountOf(q[l]) = o
    BY <2>3, <1>1
  <2> QED
    BY <2>1, <2>2, <2>3 DEF Counted
<1>9. ASSUME NEW j \in DOMAIN q, q[j].to = "fat"
      PROVE  \/ m <= FreeOf(q[j])
             \/ \E i \in DOMAIN q : i < j /\ q[i].to = "sb" /\ CountOf(q[i]) <= FreeOf(q[j])
  <2>1. CASE j \in DOMAIN v /\ q[j] = v[j]
    BY <2>1, <1>1, <1>9 DEF Counted
  <2>2. ASSUME NEW l \in DOMAIN w, j = k + l, q[j] = w[l]
        PROVE  \/ m <= FreeOf(q[j])
               \/ \E i \in DOMAIN q : i < j /\ q[i].to = "sb" /\ CountOf(q[i]) <= FreeOf(q[j])
    <3>1. \/ n <= FreeOf(q[j])
          \/ \E i \in DOMAIN w : i < l /\ w[i].to = "sb" /\ CountOf(w[i]) <= FreeOf(q[j])
      BY <2>2, <1>9 DEF Counted
    <3>2. CASE n <= FreeOf(q[j])
      <4>1. n = m \/ \E i \in DOMAIN v : v[i].to = "sb" /\ CountOf(v[i]) = n
        BY DEF Counted
      <4>2. \A i \in DOMAIN v : i < j /\ i \in DOMAIN q /\ q[i] = v[i]
        BY <1>1, <1>2, <2>2
      <4> QED
        BY <3>2, <4>1, <4>2
    <3>3. ASSUME NEW i \in DOMAIN w, i < l, w[i].to = "sb", CountOf(w[i]) <= FreeOf(q[j])
          PROVE  \E h \in DOMAIN q : h < j /\ q[h].to = "sb" /\ CountOf(q[h]) <= FreeOf(q[j])
      BY <3>3, <2>2, <1>1, <1>2
    <3> QED
      BY <3>1, <3>2, <3>3
  <2> QED
    BY <1>1, <2>1, <2>2
<1> QED
  BY <1>5, <1>6, <1>7, <1>8, <1>9 DEF Counted, q

\* Writes of neither superblock nor FAT.
LEMMA CountsNothing ==
    ASSUME NEW ws \in Seq(Writes), NEW m \in Nat,
           \A i \in DOMAIN ws : ws[i].to # "sb" /\ ws[i].to # "fat"
    PROVE  Counted(ws, m, m)
<1>1. m <= m
  BY SMT
<1> QED
  BY <1>1 DEF Counted

\* A superblock that counts too much is one that has wrapped.
Wraps(ws) == \E i \in DOMAIN ws : ws[i].to = "sb" /\ CountOf(ws[i]) = uint16 - 1

\* How many blocks the superblock does not count, though the FAT has them.
Surplus == Free(Taken(fat)) - sb.numFree

\* When ws is done, the superblock is s and the FAT takes T; or the count wraps,
\* which only a surplus makes possible.
Tallies(ws, s, T) ==
    FreeCountSafe =>
        \/ Counted(ws, sb.numFree, s.numFree) /\ s.numFree = Free(T) - Surplus
        \/ Wraps(ws) /\ Surplus # 0

LEMMA OneFewerIs ==
    ASSUME NEW s \in Superblocks
    PROVE  /\ OneFewerFree(s) \in Superblocks
           /\ OneFewerFree(s).numFree = (s.numFree - 1) % uint16
<1>1. \A n \in Nat : (n - 1) % uint16 \in Nat
  BY SMT DEF uint16
<1> QED
  BY <1>1 DEF OneFewerFree, Superblocks

LEMMA SurplusIs ==
    ASSUME Typed, FreeCountSafe
    PROVE  Surplus \in Nat
<1>1. sb.numFree \in Nat /\ Free(Taken(fat)) \in Nat
  BY FreeIsCounted DEF Typed, Superblocks
<1>2. sb.numFree <= Free(Taken(fat))
  BY FreeIsCounted DEF FreeCountSafe, Free
<1> QED
  BY SMT, <1>1, <1>2 DEF Surplus

LEMMA NothingTallies ==
    ASSUME Typed
    PROVE  Tallies(<< >>, sb, Taken(fat))
<1>1. sb.numFree \in Nat /\ Free(Taken(fat)) \in Nat
  BY FreeIsCounted DEF Typed, Superblocks
<1>2. Counted(<< >>, sb.numFree, sb.numFree)
  BY <1>1, CountsNothing, Short
<1>3. sb.numFree = Free(Taken(fat)) - Surplus
  BY SMT, <1>1 DEF Surplus
<1> QED
  BY <1>2, <1>3 DEF Tallies

LEMMA WrapsThen ==
    ASSUME NEW v \in Seq(Writes), NEW w \in Seq(Writes)
    PROVE  (Wraps(v) => Wraps(v \o w)) /\ (Wraps(w) => Wraps(v \o w))
<1> DEFINE q == v \o w
           k == Len(v)
<1>1. /\ \A i \in DOMAIN v : i \in DOMAIN q /\ q[i] = v[i]
      /\ \A i \in DOMAIN w : k + i \in DOMAIN q /\ q[k + i] = w[i]
  BY ConcatAt
<1> HIDE DEF q, k
<1>2. (Wraps(v) => Wraps(q)) /\ (Wraps(w) => Wraps(q))
  BY <1>1 DEF Wraps
<1> QED
  BY <1>2 DEF q

\* Behind v come writes that take no block.
LEMMA TalliesThen ==
    ASSUME Typed, NEW v \in Seq(Writes), NEW w \in Seq(Writes),
           NEW s \in Superblocks, NEW s2 \in Superblocks, s2.numFree = s.numFree, NEW T,
           Tallies(v, s, T),
           s.numFree <= Free(T) => Counted(w, s.numFree, s.numFree)
    PROVE  Tallies(v \o w, s2, T)
<1> SUFFICES ASSUME FreeCountSafe
             PROVE  \/ /\ Counted(v \o w, sb.numFree, s2.numFree)
                       /\ s2.numFree = Free(T) - Surplus
                    \/ Wraps(v \o w) /\ Surplus # 0
  BY DEF Tallies
<1>1. CASE Wraps(v) /\ Surplus # 0
  BY <1>1, WrapsThen
<1>2. CASE Counted(v, sb.numFree, s.numFree) /\ s.numFree = Free(T) - Surplus
  <2>1. sb.numFree \in Nat /\ s.numFree \in Nat
    BY DEF Typed, Superblocks
  <2>2. Free(T) \in Nat /\ Surplus \in Nat
    BY FreeIsCounted, SurplusIs
  <2>3. s.numFree <= Free(T)
    BY SMT, <1>2, <2>1, <2>2
  <2>4. Counted(v \o w, sb.numFree, s.numFree)
    BY <1>2, <2>1, <2>3, CountedThen
  <2> QED
    BY <1>2, <2>4
<1> QED
  BY <1>1, <1>2 DEF Tallies

\* What 16 bits make of one less.
LEMMA Wrapped ==
    \A m \in Nat : m <= uint16 - 1 =>
        (m - 1) % uint16 = IF m < 1 THEN uint16 - 1 ELSE m - 1
<1>1. \A m \in Nat : m <= 65535 /\ m < 1 => (m - 1) % 65536 = 65535
  BY SMT
<1>2. \A m \in Nat : m <= 65535 /\ ~(m < 1) => (m - 1) % 65536 = m - 1
  BY SMT
<1>3. uint16 = 65536 /\ uint16 - 1 = 65535
  BY SMT DEF uint16
<1> QED
  BY <1>1, <1>2, <1>3

LEMMA OneFewerCounts ==
    ASSUME NEW s \in Superblocks, NEW g \in Nat, g # 0, g <= NumBlocks,
           NEW d \in Nat, s.numFree = g - d
    PROVE  LET n == OneFewerFree(s).numFree
           IN  \/ d # 0 /\ n = uint16 - 1
               \/ n \in Nat /\ n <= s.numFree /\ n <= g - 1 /\ n = g - 1 - d
<1> DEFINE m == s.numFree
           n == OneFewerFree(s).numFree
<1>1. n = (m - 1) % uint16 /\ m \in Nat /\ m = g - d
  BY OneFewerIs DEF Superblocks
<1> HIDE DEF m, n
<1>2. NumBlocks \in 1 .. uint16 - 1 /\ uint16 \in Nat
  <2>1. uint16 \in Nat
    BY SMT DEF uint16
  <2> QED
    BY <2>1, FatAssumption
<1>3. m <= uint16 - 1
  BY SMT, <1>1, <1>2
<1>4. n = IF m < 1 THEN uint16 - 1 ELSE m - 1
  BY <1>1, <1>3, Wrapped
<1>5. \/ d # 0 /\ n = uint16 - 1
      \/ n \in Nat /\ n <= m /\ n <= g - 1 /\ n = g - 1 - d
  BY SMT, <1>1, <1>4
<1> QED
  BY <1>5 DEF m, n

\* Behind v come writes that take the block b.
LEMMA TakeTallies ==
    ASSUME Typed, NEW v \in Seq(Writes), NEW w \in Seq(Writes), NEW s \in Superblocks,
           NEW T, NEW b \in Blocks, b \notin T, NEW U, U = T \cup {b},
           Tallies(v, s, T),
           OneFewerFree(s).numFree = uint16 - 1 => Wraps(w),
           \A m \in Nat :
              OneFewerFree(s).numFree <= m /\ OneFewerFree(s).numFree <= Free(U)
                => Counted(w, m, OneFewerFree(s).numFree)
    PROVE  Tallies(v \o w, OneFewerFree(s), U)
<1> DEFINE n == OneFewerFree(s).numFree
<1> SUFFICES ASSUME FreeCountSafe
             PROVE  \/ Counted(v \o w, sb.numFree, n) /\ n = Free(U) - Surplus
                    \/ Wraps(v \o w) /\ Surplus # 0
  BY DEF Tallies
<1> HIDE DEF n
<1>1. CASE Wraps(v) /\ Surplus # 0
  BY <1>1, WrapsThen
<1>2. CASE Counted(v, sb.numFree, s.numFree) /\ s.numFree = Free(T) - Surplus
  <2>1. sb.numFree \in Nat /\ s.numFree \in Nat
    BY DEF Typed, Superblocks
  <2>2. Free(T) \in Nat /\ Free(T) <= NumBlocks /\ Free(T) # 0 /\ Surplus \in Nat
    BY FreeIsCounted, SurplusIs
  <2>3. \/ Surplus # 0 /\ n = uint16 - 1
        \/ n \in Nat /\ n <= s.numFree /\ n <= Free(T) - 1 /\ n = Free(T) - 1 - Surplus
    BY <1>2, <2>2, OneFewerCounts DEF n
  <2>4. Free(U) = Free(T) - 1
    BY OneMoreTaken
  <2>5. CASE Surplus # 0 /\ n = uint16 - 1
    BY <2>5, WrapsThen DEF n
  <2>6. CASE n \in Nat /\ n <= s.numFree /\ n <= Free(T) - 1 /\ n = Free(T) - 1 - Surplus
    <3>1. Counted(w, s.numFree, n)
      BY <2>1, <2>4, <2>6 DEF n
    <3>2. Counted(v \o w, sb.numFree, n)
      BY <1>2, <2>1, <2>6, <3>1, CountedThen
    <3> QED
      BY <2>4, <2>6, <3>2
  <2> QED
    BY <2>3, <2>5, <2>6
<1> QED
  BY <1>1, <1>2 DEF Tallies

-----------------------------------------------------------------------------
(* Plans *)

\* While no command runs: an entry is new, or it replaces an entry and keeps
\* its first block.
Fresh(e) == \A s \in Spots : EntryAt(s).active => EntryAt(s).first # e.first
Rewrites(w) == EntryAt(w.slot).active /\ EntryAt(w.slot).first = w.entry.first

\* ws puts one new entry at most, and replaces entries before it writes to
\* their blocks.
Steady(ws) ==
    /\ \A i \in DOMAIN ws : Puts(ws[i]) =>
          \/ Fresh(ws[i].entry)
          \/ Rewrites(ws[i]) /\ \A k \in DOMAIN ws : k < i => ~Hits(ws[k], ws[i].slot.block)
    /\ \A i, j \in DOMAIN ws :
          i < j /\ Puts(ws[i]) /\ Puts(ws[j]) => ~Fresh(ws[i].entry) \/ ~Fresh(ws[j].entry)
    /\ \A i \in DOMAIN ws : ws[i].to = "block" =>
          \A n \in DOMAIN ws[i].content.entries : ~ws[i].content.entries[n].active

\* Writes that put no entry.
NoEntries(ws) ==
    \A i \in DOMAIN ws :
        /\ ~Puts(ws[i])
        /\ ws[i].to = "block" =>
             \A n \in DOMAIN ws[i].content.entries : ~ws[i].content.entries[n].active

\* The writes of AddSizes: the superblock and at most one entry.
OneRewrite(ws) ==
    /\ \A i \in DOMAIN ws : ws[i].to # "block" /\ ws[i].to # "fat"
                              /\ (Puts(ws[i]) => Rewrites(ws[i]))
    /\ \A i, j \in DOMAIN ws : i < j => ~Puts(ws[i]) \/ ~Puts(ws[j])

LEMMA SteadyThen ==
    ASSUME NEW v \in Seq(Writes), NEW w \in Seq(Writes), Steady(v), NoEntries(w)
    PROVE  Steady(v \o w)
<1> DEFINE q == v \o w
           m == Len(v)
<1>1. \A i \in DOMAIN q :
        \/ i \in DOMAIN v /\ q[i] = v[i]
        \/ \E j \in DOMAIN w : i = m + j /\ q[i] = w[j]
  BY ConcatAt
<1>2. \A i \in DOMAIN v, j \in DOMAIN w : ~(m + j < i)
  BY ConcatOrder
<1> HIDE DEF q, m
<1>3. \A i \in DOMAIN q : Puts(q[i]) => i \in DOMAIN v /\ q[i] = v[i]
  BY <1>1 DEF NoEntries
<1>4. \A i \in DOMAIN v, k \in DOMAIN q : k < i => k \in DOMAIN v /\ q[k] = v[k]
  BY <1>1, <1>2
<1>5. \A i \in DOMAIN q : Puts(q[i]) =>
        \/ Fresh(q[i].entry)
        \/ Rewrites(q[i]) /\ \A k \in DOMAIN q : k < i => ~Hits(q[k], q[i].slot.block)
  BY <1>3, <1>4 DEF Steady
<1>6. \A i, j \in DOMAIN q :
        i < j /\ Puts(q[i]) /\ Puts(q[j]) => ~Fresh(q[i].entry) \/ ~Fresh(q[j].entry)
  BY <1>3 DEF Steady
<1>7. \A i \in DOMAIN q : q[i].to = "block" =>
        \A n \in DOMAIN q[i].content.entries : ~q[i].content.entries[n].active
  BY <1>1 DEF Steady, NoEntries
<1> QED
  BY <1>5, <1>6, <1>7 DEF Steady, q

LEMMA ThenSteady ==
    ASSUME NEW v \in Seq(Writes), NEW w \in Seq(Writes), NoEntries(v), Steady(w),
           \A i \in DOMAIN v, j \in DOMAIN w :
              Puts(w[j]) => Fresh(w[j].entry) \/ ~Hits(v[i], w[j].slot.block)
    PROVE  Steady(v \o w)
<1> DEFINE q == v \o w
           m == Len(v)
<1>1. \A i \in DOMAIN q :
        \/ i \in DOMAIN v /\ q[i] = v[i]
        \/ \E j \in DOMAIN w : i = m + j /\ q[i] = w[j]
  BY ConcatAt
<1>2. \A i, j \in DOMAIN w : m + i < m + j <=> i < j
  BY ConcatOrder
<1> HIDE DEF q, m
<1>3. ASSUME NEW i \in DOMAIN q, Puts(q[i])
      PROVE  \/ Fresh(q[i].entry)
             \/ Rewrites(q[i]) /\ \A k \in DOMAIN q : k < i => ~Hits(q[k], q[i].slot.block)
  <2>1. PICK j \in DOMAIN w : i = m + j /\ q[i] = w[j]
    BY <1>1, <1>3 DEF NoEntries
  <2>2. CASE ~Fresh(w[j].entry)
    <3>1. Rewrites(w[j]) /\ \A k \in DOMAIN w : k < j => ~Hits(w[k], w[j].slot.block)
      BY <1>3, <2>1, <2>2 DEF Steady
    <3>2. ASSUME NEW k \in DOMAIN q, k < i PROVE ~Hits(q[k], w[j].slot.block)
      <4>1. CASE k \in DOMAIN v /\ q[k] = v[k]
        BY <4>1, <1>3, <2>1, <2>2
      <4>2. ASSUME NEW l \in DOMAIN w, k = m + l, q[k] = w[l]
            PROVE  ~Hits(q[k], w[j].slot.block)
        BY <4>2, <3>1, <3>2, <2>1, <1>2
      <4> QED
        BY <4>1, <4>2, <1>1
    <3> QED
      BY <2>1, <3>1, <3>2
  <2> QED
    BY <2>1, <2>2
<1>4. ASSUME NEW i \in DOMAIN q, NEW j \in DOMAIN q, i < j, Puts(q[i]), Puts(q[j])
      PROVE  ~Fresh(q[i].entry) \/ ~Fresh(q[j].entry)
  <2>1. PICK k \in DOMAIN w : i = m + k /\ q[i] = w[k]
    BY <1>1, <1>4 DEF NoEntries
  <2>2. PICK l \in DOMAIN w : j = m + l /\ q[j] = w[l]
    BY <1>1, <1>4 DEF NoEntries
  <2>3. k < l
    BY <1>2, <1>4, <2>1, <2>2
  <2> QED
    BY <1>4, <2>1, <2>2, <2>3 DEF Steady
<1>5. \A i \in DOMAIN q : q[i].to = "block" =>
        \A n \in DOMAIN q[i].content.entries : ~q[i].content.entries[n].active
  BY <1>1 DEF Steady, NoEntries
<1> QED
  BY <1>3, <1>4, <1>5 DEF Steady, q

\* A steady series, with the sizes of the directories behind it, fits.
LEMMA PlanFits ==
    ASSUME Typed, Owned, NEW v \in Seq(Writes), NEW w \in Seq(Writes),
           Steady(v), OneRewrite(w)
    PROVE  Fits(v \o w)
<1> DEFINE q == v \o w
           m == Len(v)
<1>1. \A i \in DOMAIN q :
        \/ i \in DOMAIN v /\ q[i] = v[i]
        \/ \E j \in DOMAIN w : i = m + j /\ q[i] = w[j]
  BY ConcatAt
<1>2. /\ \A i \in DOMAIN v, j \in DOMAIN w : ~(m + j < i)
      /\ \A i, j \in DOMAIN w : m + i < m + j <=> i < j
  BY ConcatOrder
<1>3. q \in Seq(Writes)
  BY ConcatAt
<1> HIDE DEF q, m
<1>4. \A i \in DOMAIN q : Puts(q[i]) =>
        q[i].slot \in Spots /\ (Fresh(q[i].entry) \/ Rewrites(q[i]))
  BY <1>1, <1>3, ElementOfSeq, WriteIs DEF Puts, Steady, OneRewrite
<1>5. \A i \in DOMAIN q : Puts(q[i]) =>
        \A s \in Spots : EntryAt(s).active /\ EntryAt(s).first = q[i].entry.first
                           => s = q[i].slot
  BY <1>4 DEF Owned, Fresh, Rewrites
<1>6. ASSUME NEW i \in DOMAIN q, NEW j \in DOMAIN q, i < j, Puts(q[i]), Puts(q[j]),
             q[i].entry.first = q[j].entry.first
      PROVE  /\ q[i].slot = q[j].slot /\ HasEntry(q[i].slot)
             /\ \A k \in DOMAIN q : k < i => ~Hits(q[k], q[i].slot.block)
  <2>1. i \in DOMAIN v /\ q[i] = v[i]
    <3>1. SUFFICES ASSUME NEW k \in DOMAIN w, i = m + k, q[i] = w[k] PROVE FALSE
      BY <1>1
    <3>2. j \notin DOMAIN v
      BY <3>1, <1>2, <1>6
    <3>3. PICK l \in DOMAIN w : j = m + l /\ q[j] = w[l]
      BY <3>2, <1>1
    <3>4. k < l
      BY <3>1, <3>3, <1>2, <1>6
    <3> QED
      BY <3>1, <3>3, <3>4, <1>6 DEF OneRewrite
  <2>2. Fresh(q[i].entry) <=> Fresh(q[j].entry)
    BY <1>6 DEF Fresh
  <2>3. ~Fresh(q[i].entry)
    <3>1. SUFFICES ASSUME Fresh(q[i].entry), Fresh(q[j].entry) PROVE FALSE
      BY <2>2
    <3>2. ~Rewrites(q[j])
      BY <3>1, <1>4, <1>6 DEF Fresh, Rewrites
    <3>3. j \in DOMAIN v /\ q[j] = v[j]
      BY <3>2, <1>1, <1>6 DEF OneRewrite
    <3> QED
      BY <3>1, <3>3, <2>1, <1>6 DEF Steady
  <2>4. Rewrites(q[i]) /\ Rewrites(q[j])
    BY <1>4, <1>6, <2>2, <2>3
  <2>5. q[i].slot = q[j].slot
    BY <2>4, <1>4, <1>6 DEF Owned, Rewrites
  <2>6. HasEntry(q[i].slot)
    BY <2>4, <1>4, <1>6, EntryIs DEF Rewrites
  <2>7. \A k \in DOMAIN v : k < i => ~Hits(v[k], v[i].slot.block)
    BY <2>1, <2>3, <1>6 DEF Steady
  <2>8. \A k \in DOMAIN q : k < i => k \in DOMAIN v /\ q[k] = v[k]
    BY <1>1, <1>2, <2>1
  <2> QED
    BY <2>1, <2>5, <2>6, <2>7, <2>8
<1>7. \A i \in DOMAIN q : q[i].to = "block" =>
        \A n \in DOMAIN q[i].content.entries : ~q[i].content.entries[n].active
  BY <1>1 DEF Steady, OneRewrite
<1> QED
  BY <1>5, <1>6, <1>7 DEF Fits, q

-----------------------------------------------------------------------------
(* Adding an entry *)

LEMMA FreeIs ==
    ASSUME NEW f, FreeBlocks(f) # {}
    PROVE  find_free_block(f) \in Blocks /\ find_free_block(f) \notin Taken(f)
<1>1. FreeBlocks(f) \subseteq Nat
  BY SMT, Sizes DEF FreeBlocks, Blocks
<1>2. find_free_block(f) \in FreeBlocks(f)
  BY <1>1, MinIsLeast DEF find_free_block
<1> QED
  BY <1>2 DEF FreeBlocks, Taken

LEMMA Marks ==
    /\ FAT_ENTRY_EMPTY \notin Blocks /\ FAT_ENTRY_END \notin Blocks
    /\ FAT_ENTRY_EMPTY # FAT_ENTRY_END
    /\ Blocks \subseteq Places /\ FAT_ENTRY_END \in Places /\ RootBlock \in Blocks
BY SMT, Sizes DEF FAT_ENTRY_EMPTY, FAT_ENTRY_END, Blocks, Places, RootBlock

\* The FAT with one more block taken, and with one more linked to a table.
LEMMA TakeFree ==
    ASSUME NEW f \in Fats, Linked(f), NEW b \in Blocks, b \notin Taken(f),
           NEW g, g = [f EXCEPT ![b] = FAT_ENTRY_END]
    PROVE  g \in Fats /\ Linked(g) /\ Taken(g) = Taken(f) \cup {b}
<1>1. g \in Fats
  BY DEF Fats
<1>2. Taken(g) = Taken(f) \cup {b}
  BY Marks DEF Fats, Taken
<1>3. \A c \in Taken(g) : g[c] \in Blocks => c \in Taken(f) /\ g[c] = f[c]
  BY <1>2, Marks DEF Fats, Taken
<1>4. Linked(g)
  BY <1>2, <1>3 DEF Linked
<1> QED
  BY <1>1, <1>2, <1>4

LEMMA LinkFree ==
    ASSUME NEW f \in Fats, Linked(f), NEW b \in Blocks, b \notin Taken(f),
           NEW a \in Taken(f), NEW g, g = [f EXCEPT ![a] = b, ![b] = FAT_ENTRY_END]
    PROVE  g \in Fats /\ Linked(g) /\ Taken(g) = Taken(f) \cup {b}
<1>1. a \in Blocks /\ a # b
  BY DEF Taken
<1>2. \A c \in Blocks : g[c] = IF c = b THEN FAT_ENTRY_END ELSE IF c = a THEN b ELSE f[c]
  BY <1>1 DEF Fats
<1>3. g \in Fats
  BY <1>1 DEF Fats
<1>4. Taken(g) = Taken(f) \cup {b}
  BY <1>1, <1>2, Marks DEF Taken
<1>5. ASSUME NEW c \in Taken(g), g[c] \in Blocks PROVE g[c] \in Taken(g)
  <2>1. c \in Blocks /\ c # b
    BY <1>2, <1>5, Marks DEF Taken
  <2>2. CASE c = a
    BY <2>1, <2>2, <1>2, <1>4
  <2>3. CASE c # a
    BY <1>4, <1>5, <2>1, <2>3, <1>2 DEF Linked
  <2> QED
    BY <2>2, <2>3
<1>6. Linked(g)
  BY <1>4, <1>5 DEF Linked
<1> QED
  BY <1>3, <1>4, <1>6

LEMMA SuperblockAndFat ==
    ASSUME NEW s \in Superblocks, NEW f \in Fats, Linked(f), NEW T, T \subseteq Taken(f)
    PROVE  LET ws == WriteSuperblockAndFat(s, f)
           IN  /\ ws \in Seq(Writes) /\ NoEntries(ws)
               /\ \A i \in DOMAIN ws : ws[i].to # "block"
               /\ Allots(ws, T, Taken(f))
               /\ s.numFree = uint16 - 1 => Wraps(ws)
               /\ \A m \in Nat : s.numFree <= m /\ s.numFree <= Free(Taken(f))
                                   => Counted(ws, m, s.numFree)
<1> DEFINE a == PutSuperblock(s)
           b == PutFat(f)
           ws == <<a, b>>
<1>1. a \in Writes /\ b \in Writes
  BY PutIs
<1>2. a.to = "sb" /\ a.sb = s /\ b.to = "fat" /\ b.fat = f
  BY DEF PutSuperblock, PutFat
<1> HIDE DEF a, b
<1>3. ws \in Seq(Writes) /\ DOMAIN ws = {1, 2} /\ ws[1] = a /\ ws[2] = b
  BY <1>1, Short
<1> HIDE DEF ws
<1>4. \A i \in DOMAIN ws : ws[i].to # "block" /\ ws[i].to # "entry"
  BY <1>2, <1>3
<1>5. NoEntries(ws)
  BY <1>4 DEF NoEntries, Puts
<1>6. Allots(ws, T, Taken(f))
  BY <1>2, <1>3, <1>4 DEF Allots, Puts
<1>7. WriteSuperblockAndFat(s, f) = ws
  BY DEF WriteSuperblockAndFat, ws, a, b
<1>8. s.numFree = uint16 - 1 => Wraps(ws)
  BY <1>2, <1>3 DEF Wraps, CountOf
<1>9. ASSUME NEW m \in Nat, s.numFree <= m, s.numFree <= Free(Taken(f))
      PROVE  Counted(ws, m, s.numFree)
  <2>1. ~(1 < 1) /\ 1 < 2 /\ \A k \in Nat : k <= k
    BY SMT
  <2>2. CountOf(a) = s.numFree /\ FreeOf(b) = Free(Taken(f)) /\ s.numFree <= s.numFree
    BY <1>2, <2>1 DEF CountOf, FreeOf, Superblocks
  <2> QED
    BY <1>2, <1>3, <1>9, <2>1, <2>2 DEF Counted
<1> QED
  BY <1>3, <1>4, <1>5, <1>6, <1>7, <1>8, <1>9

LEMMA AllocationIs ==
    ASSUME NEW first \in Blocks, NEW e \in Entries, NEW s \in Superblocks, NEW f \in Fats,
           Linked(f), NEW T, T \subseteq Taken(f)
    PROVE  LET ws == Allocation(first, e, s, f)
           IN  /\ ws \in Seq(Writes) /\ NoEntries(ws)
               /\ \A i \in DOMAIN ws : ws[i].to = "block" => ws[i].place = first
               /\ Allots(ws, T, Taken(f))
               /\ s.numFree = uint16 - 1 => Wraps(ws)
               /\ \A m \in Nat : s.numFree <= m /\ s.numFree <= Free(Taken(f))
                                   => Counted(ws, m, s.numFree)
<1> DEFINE v == WriteSuperblockAndFat(s, f)
           c == TableOf(<<Indicator>>)
           w == IF e.kind = "dir" THEN <<PutBlock(first, c)>> ELSE << >>
           ws == v \o w
<1>1. /\ v \in Seq(Writes) /\ NoEntries(v) /\ Allots(v, T, Taken(f))
      /\ \A i \in DOMAIN v : v[i].to # "block"
      /\ s.numFree = uint16 - 1 => Wraps(v)
      /\ \A m \in Nat : s.numFree <= m /\ s.numFree <= Free(Taken(f))
                          => Counted(v, m, s.numFree)
  BY SuperblockAndFat
<1>2. c.entries = <<Indicator>> /\ c.kind = "table" /\ c.piece = NoPiece
  BY DEF TableOf
<1>3. c \in Contents
  <2>1. <<Indicator>> \in Seq(Entries) /\ Len(<<Indicator>>) = 1 /\ NoPiece \in Pieces
    BY JunkIs DEF NoPiece, Pieces
  <2>2. 1 <= EntriesPerBlock
    BY SMT, Sizes
  <2> QED
    BY <2>1, <2>2 DEF TableOf, Contents
<1>4. \A n \in DOMAIN c.entries : ~c.entries[n].active
  BY <1>2, JunkIs
<1>5. PutBlock(first, c) \in Writes
  BY <1>3, PutIs, Marks
<1>6. /\ PutBlock(first, c).to = "block" /\ PutBlock(first, c).place = first
      /\ PutBlock(first, c).content = c
  BY DEF PutBlock
<1> HIDE DEF c
<1>7. /\ w \in Seq(Writes)
      /\ \A i \in DOMAIN w : w[i] = PutBlock(first, c)
  BY <1>5, Short
<1> HIDE DEF v, w
<1>8. NoEntries(w) /\ \A i \in DOMAIN w : w[i].to = "block" /\ w[i].place = first
  BY <1>4, <1>6, <1>7 DEF NoEntries, Puts
<1>9. Allots(w, Taken(f), Taken(f))
  BY <1>7, TakesNothing, <1>8 DEF NoEntries
<1>10. ws \in Seq(Writes) /\ Allots(ws, T, Taken(f))
  BY <1>1, <1>7, <1>9, AllotsThen, ConcatAt
<1>11. \A i \in DOMAIN ws :
         \/ i \in DOMAIN v /\ ws[i] = v[i]
         \/ \E j \in DOMAIN w : ws[i] = w[j]
  BY <1>1, <1>7, ConcatAt
<1>15. s.numFree = uint16 - 1 => Wraps(ws)
  BY <1>1, <1>7, WrapsThen
<1>16. ASSUME NEW m \in Nat, s.numFree <= m, s.numFree <= Free(Taken(f))
       PROVE  Counted(ws, m, s.numFree)
  <2>1. s.numFree \in Nat
    BY DEF Superblocks
  <2>2. \A i \in DOMAIN w : w[i].to # "sb" /\ w[i].to # "fat"
    BY <1>8
  <2>3. Counted(w, s.numFree, s.numFree)
    BY <1>7, <2>1, <2>2, CountsNothing
  <2>4. Counted(v, m, s.numFree)
    BY <1>1, <1>16
  <2> QED
    BY <1>1, <1>7, <2>1, <2>3, <2>4, CountedThen
<1> HIDE DEF ws
<1>12. NoEntries(ws)
  BY <1>1, <1>8, <1>11 DEF NoEntries
<1>13. \A i \in DOMAIN ws : ws[i].to = "block" => ws[i].place = first
  BY <1>1, <1>8, <1>11
<1>14. Allocation(first, e, s, f) = ws
  BY DEF Allocation, ws, v, w, c
<1> QED
  BY <1>10, <1>12, <1>13, <1>14, <1>15, <1>16

\* The old last entry is replaced and the new one, with first block b, put.
LEMMA InsertionIs ==
    ASSUME Typed, Owned, NEW end \in Spots, NEW place \in Spots, NEW e \in Entries,
           e.name \in Names, e.active, Fresh(e), NEW T, Taken(fat) \subseteq T,
           e.first \in T, e.first # RootBlock,
           end # place => EntryAt(end).active
    PROVE  LET ws == Insertion(end, place, e)
           IN  /\ ws \in Seq(Writes) /\ Steady(ws) /\ Allots(ws, T, T)
               /\ \A j \in DOMAIN ws : Puts(ws[j]) => Fresh(ws[j].entry) \/ ws[j].slot = end
               /\ \A m \in Nat : Counted(ws, m, m)
<1> DEFINE o == [EntryAt(end) EXCEPT !.last = FALSE]
           n == [e EXCEPT !.name = Unnamed]
           a == PutEntry(end, o)
           b == PutEntry(place, n)
           c == PutName(place, e.name)
           v == IF end # place THEN <<a>> ELSE << >>
           w == <<b, c>>
           ws == v \o w
<1>1. EntryAt(end) \in Entries
  BY EntryIs
<1>2. o \in Entries /\ o.first = EntryAt(end).first /\ o.active = EntryAt(end).active
  BY <1>1 DEF Entries
<1>3. n \in Entries /\ n.first = e.first /\ n.active = e.active
  BY DEF Entries
<1> HIDE DEF o, n
<1>4. a \in Writes /\ b \in Writes /\ c \in Writes
  BY <1>2, <1>3, PutIs
<1>5. /\ a.to = "entry" /\ a.slot = end /\ a.entry = o
      /\ b.to = "entry" /\ b.slot = place /\ b.entry = n
      /\ c.to = "name"
  BY DEF PutEntry, PutName
<1> HIDE DEF a, b, c
<1>6. /\ v \in Seq(Writes) /\ w \in Seq(Writes)
      /\ \A i \in DOMAIN v : i = 1 /\ v[i] = a /\ end # place
      /\ DOMAIN w = {1, 2} /\ w[1] = b /\ w[2] = c
  BY <1>4, Short
<1> HIDE DEF v, w
<1>7. ws \in Seq(Writes)
  BY <1>6, ConcatAt
<1>8. \A i \in DOMAIN ws :
        \/ i \in DOMAIN v /\ ws[i] = v[i]
        \/ \E j \in DOMAIN w : i = Len(v) + j /\ ws[i] = w[j]
  BY <1>6, ConcatAt
<1>9. Fresh(n)
  BY <1>3 DEF Fresh
\* Only the new entry is fresh, and nothing is written before the old one.
<1>10. ASSUME NEW i \in DOMAIN ws, Puts(ws[i])
       PROVE  \/ i = 1 /\ i \in DOMAIN v /\ ws[i] = a /\ end # place
              \/ i = Len(v) + 1 /\ ws[i] = b
  BY <1>5, <1>6, <1>8, <1>10 DEF Puts
<1>11. \A i \in DOMAIN ws : i \in Nat /\ ~(i < 1)
  BY SMT, <1>7, LenProperties
<1>12. end # place => Rewrites(a)
  BY <1>2, <1>5 DEF Rewrites
<1>13. end # place => ~Fresh(o)
  BY <1>2 DEF Fresh
<1>14. \A i \in DOMAIN ws : Puts(ws[i]) =>
          \/ Fresh(ws[i].entry)
          \/ Rewrites(ws[i]) /\ \A k \in DOMAIN ws : k < i => ~Hits(ws[k], ws[i].slot.block)
  BY <1>5, <1>9, <1>10, <1>11, <1>12
<1>15. ASSUME NEW i \in DOMAIN ws, NEW j \in DOMAIN ws, i < j, Puts(ws[i]), Puts(ws[j])
       PROVE  ~Fresh(ws[i].entry) \/ ~Fresh(ws[j].entry)
  BY <1>5, <1>10, <1>13, <1>15, SMT, <1>11
<1>16. \A i \in DOMAIN ws : ws[i].to # "block" /\ ws[i].to # "fat" /\ ws[i].to # "sb"
  BY <1>5, <1>6, <1>8
<1>17. Steady(ws)
  BY <1>14, <1>15, <1>16 DEF Steady
<1>18. \A i \in DOMAIN ws : Puts(ws[i]) =>
          ws[i].entry.first \in T /\ ws[i].entry.first # RootBlock
  BY <1>2, <1>3, <1>5, <1>10 DEF Owned
<1>19. Allots(ws, T, T)
  BY <1>7, <1>16, <1>18, TakesNothing
<1>20. \A j \in DOMAIN ws : Puts(ws[j]) => Fresh(ws[j].entry) \/ ws[j].slot = end
  BY <1>5, <1>9, <1>10
<1>21. \A m \in Nat : Counted(ws, m, m)
  BY <1>7, <1>16, CountsNothing
<1>22. Insertion(end, place, e) = ws
  BY DEF Insertion, ws, v, w, a, b, c, o, n
<1> HIDE DEF ws
<1> QED
  BY <1>7, <1>17, <1>19, <1>20, <1>21, <1>22

\* What add_dir_entry answers: a steady series, and the superblock and the FAT
\* that it ends with.
Planned(r) ==
    /\ r.writes \in Seq(Writes) /\ r.sb \in Superblocks /\ r.fat \in Fats
    /\ Linked(r.fat)
    /\ Steady(r.writes)
    /\ Allots(r.writes, Taken(fat), Taken(r.fat))
    /\ Tallies(r.writes, r.sb, Taken(r.fat))
    /\ r.res = "done" => r.first \in Blocks

NewOnes == {e \in Entries : e.active /\ e.name \in Names}

LEMMA QuietIsSteady == ASSUME NEW ws \in Seq(Writes), NoEntries(ws) PROVE Steady(ws)
BY DEF NoEntries, Steady

LEMMA AddAtIs ==
    ASSUME Typed, Owned, NEW s \in Superblocks, NEW f \in Fats, Linked(f),
           Taken(fat) \subseteq Taken(f),
           NEW grow \in Seq(Writes), NoEntries(grow), Allots(grow, Taken(fat), Taken(f)),
           \A i \in DOMAIN grow : grow[i].to # "block", Tallies(grow, s, Taken(f)),
           NEW end \in Spots, NEW place \in Spots, NEW e \in NewOnes,
           end # place => EntryAt(end).active /\ end.block \in Taken(f)
    PROVE  Planned(AddAt(end, place, e, grow, s, f))
<1> DEFINE r == AddAt(end, place, e, grow, s, f)
           first == find_free_block(f)
           s2 == OneFewerFree(s)
           f2 == [f EXCEPT ![first] = FAT_ENTRY_END]
           e2 == [e EXCEPT !.first = first, !.last = TRUE]
           alloc == Allocation(first, e, s2, f2)
           insert == Insertion(end, place, e2)
<1>1. \A res : Planned(Refused(res, grow, s, f)) \/ res = "done"
  BY QuietIsSteady DEF Planned, Refused
<1>2. CASE NeededBlocks(e) > s.numFree
  BY <1>1, <1>2 DEF AddAt, Refused
<1>3. CASE ~(NeededBlocks(e) > s.numFree) /\ FreeBlocks(f) = {}
  BY <1>1, <1>3 DEF AddAt, Refused
<1>4. CASE ~(NeededBlocks(e) > s.numFree) /\ FreeBlocks(f) # {}
  <2>1. r = [res |-> "done", first |-> first, sb |-> s2, fat |-> f2,
             writes |-> grow \o (alloc \o insert)]
    BY <1>4 DEF AddAt, Added, AllocateThenInsert
  <2>2. first \in Blocks /\ first \notin Taken(f)
    BY <1>4, FreeIs
  <2>3. s2 \in Superblocks
    BY OneFewerIs
  <2> HIDE DEF first, s2
  <2>4. f2 \in Fats /\ Linked(f2) /\ Taken(f2) = Taken(f) \cup {first}
    BY <2>2, TakeFree
  <2>5. /\ e2 \in Entries /\ e2.active /\ e2.name \in Names /\ e2.first = first
    BY <2>2 DEF Entries, NewOnes
  <2> HIDE DEF f2, e2
  <2>6. first # RootBlock
    BY <2>2 DEF Linked
  <2>7. Fresh(e2)
    BY <2>2, <2>5 DEF Fresh, Owned
  <2>8. /\ alloc \in Seq(Writes) /\ NoEntries(alloc)
        /\ \A i \in DOMAIN alloc : alloc[i].to = "block" => alloc[i].place = first
        /\ Allots(alloc, Taken(f), Taken(f2))
        /\ s2.numFree = uint16 - 1 => Wraps(alloc)
        /\ \A m \in Nat : s2.numFree <= m /\ s2.numFree <= Free(Taken(f2))
                            => Counted(alloc, m, s2.numFree)
    BY <2>2, <2>3, <2>4, AllocationIs DEF NewOnes
  <2>9. /\ insert \in Seq(Writes) /\ Steady(insert) /\ Allots(insert, Taken(f2), Taken(f2))
        /\ \A j \in DOMAIN insert : Puts(insert[j]) =>
              Fresh(insert[j].entry) \/ insert[j].slot = end
        /\ \A m \in Nat : Counted(insert, m, m)
    BY <2>5, <2>6, <2>7, InsertionIs, <2>4
  <2> HIDE DEF alloc, insert
  \* An entry that is replaced is not in the new block.
  <2>10. \A i \in DOMAIN alloc, j \in DOMAIN insert :
            Puts(insert[j]) => Fresh(insert[j].entry) \/ ~Hits(alloc[i], insert[j].slot.block)
    <3> SUFFICES ASSUME NEW i \in DOMAIN alloc, NEW j \in DOMAIN insert, Puts(insert[j]),
                        ~Fresh(insert[j].entry), Hits(alloc[i], insert[j].slot.block)
                 PROVE  FALSE
      OBVIOUS
    <3>1. insert[j].slot = end /\ first = end.block
      BY <2>8, <2>9 DEF Hits
    <3>2. end = place
      BY <3>1, <2>2
    <3>3. \A k \in DOMAIN insert : Puts(insert[k]) => Fresh(insert[k].entry)
      <4>1. CASE EntryAt(end).active
        <5>1. EntryAt(end).first \in Taken(f)
          BY <4>1 DEF Owned
        <5>2. insert = <<PutEntry(place, [e2 EXCEPT !.name = Unnamed]),
                         PutName(place, e2.name)>>
          <6>1. insert = << >> \o <<PutEntry(place, [e2 EXCEPT !.name = Unnamed]),
                                    PutName(place, e2.name)>>
            BY <3>2 DEF insert, Insertion
          <6>2. [e2 EXCEPT !.name = Unnamed] \in Entries
            BY <2>5 DEF Entries
          <6>3. <<PutEntry(place, [e2 EXCEPT !.name = Unnamed]),
                  PutName(place, e2.name)>> \in Seq(Writes)
            BY <2>5, <6>2, PutIs, Short
          <6> QED
            BY <6>1, <6>3, ConcatEmptySeq
        <5>3. [e2 EXCEPT !.name = Unnamed].first = first
          BY <2>5 DEF Entries
        <5>4. \A k \in DOMAIN insert : Puts(insert[k]) =>
                 insert[k].entry = [e2 EXCEPT !.name = Unnamed]
          BY <5>2 DEF Puts, PutEntry, PutName
        <5> QED
          BY <5>3, <5>4, <2>5, <2>7 DEF Fresh
      <4>2. CASE ~EntryAt(end).active
        BY <4>2, <2>9, <3>2 DEF Steady, Rewrites
      <4> QED
        BY <4>1, <4>2
    <3> QED
      BY <3>3
  <2>11. Steady(alloc \o insert) /\ alloc \o insert \in Seq(Writes)
    BY <2>8, <2>9, <2>10, ThenSteady, ConcatAt
  <2>12. Allots(alloc \o insert, Taken(f), Taken(f2))
    BY <2>8, <2>9, AllotsThen
  <2> DEFINE q == alloc \o insert
  <2>16. s2.numFree = uint16 - 1 => Wraps(q)
    BY <2>8, <2>9, WrapsThen
  <2>17. ASSUME NEW m \in Nat, s2.numFree <= m, s2.numFree <= Free(Taken(f2))
         PROVE  Counted(q, m, s2.numFree)
    <3>1. s2.numFree \in Nat
      BY <2>3 DEF Superblocks
    <3>2. Counted(alloc, m, s2.numFree) /\ Counted(insert, s2.numFree, s2.numFree)
      BY <2>8, <2>9, <2>17, <3>1
    <3> QED
      BY <2>8, <2>9, <3>1, <3>2, CountedThen
  <2> HIDE DEF q
  <2>13. \A i \in DOMAIN grow, j \in DOMAIN q :
            Puts(q[j]) => Fresh(q[j].entry) \/ ~Hits(grow[i], q[j].slot.block)
    BY DEF Hits
  <2>14. /\ Steady(grow \o q) /\ grow \o q \in Seq(Writes)
         /\ Allots(grow \o q, Taken(fat), Taken(f2))
    BY <2>11, <2>12, <2>13, ThenSteady, AllotsThen, ConcatAt DEF q
  <2>18. Tallies(grow \o q, s2, Taken(f2))
    BY <2>2, <2>4, <2>16, <2>17, TakeTallies, <2>11 DEF s2, q
  <2>15. Planned([res |-> "done", first |-> first, sb |-> s2, fat |-> f2,
                  writes |-> grow \o q])
    BY <2>2, <2>3, <2>4, <2>14, <2>18 DEF Planned
  <2> QED
    BY <2>1, <2>15 DEF q
<1> QED
  BY <1>2, <1>3, <1>4

\* The table of a directory whose first block is taken.
LEMMA AddDirEntryIs ==
    ASSUME Typed, Linked(fat), Owned, NEW b \in Taken(fat), NEW e \in NewOnes
    PROVE  Planned(add_dir_entry(b, e, sb, fat))
<1> DEFINE slots == Slots(b)
           k == Len(Walk(b))
<1>1. slots \in Seq(Walked)
  BY SlotsAreWalked
<1>2. k \in 1 .. Len(slots) /\ Len(slots) \in Nat
  <2>1. Len(Walk(b)) \in Nat /\ Len(slots) \in Nat
    BY <1>1, WalkIsStart, LenProperties
  <2>2. Len(Walk(b)) > 0 /\ Len(Walk(b)) <= Len(slots)
    BY WalkIsStart DEF Taken
  <2> QED
    BY SMT, <2>1, <2>2
<1>3. \A i \in 1 .. Len(slots) : slots[i] \in Spots /\ slots[i].block \in Taken(fat)
  BY <1>1, SlotsAreTaken, WalkedAreSpots, ElementOfSeq
<1>4. sb \in Superblocks /\ fat \in Fats
  BY DEF Typed
<1>5. add_dir_entry(b, e, sb, fat) = AddAfter(slots, k, e, sb, fat)
  BY DEF add_dir_entry
<1> HIDE DEF slots, k
<1>6. /\ << >> \in Seq(Writes) /\ NoEntries(<< >>)
      /\ \A i \in DOMAIN << >> : << >>[i].to # "block"
      /\ Allots(<< >>, Taken(fat), Taken(fat))
      /\ Tallies(<< >>, sb, Taken(fat))
  BY Short, TakesNothing, NothingTallies DEF NoEntries
<1>7. CASE ~EntryAt(slots[k]).active
  <2>1. AddAfter(slots, k, e, sb, fat) = AddAt(slots[k], slots[k], e, << >>, sb, fat)
    BY <1>7 DEF AddAfter
  <2> QED
    BY <1>2, <1>3, <1>4, <1>5, <1>6, <2>1, AddAtIs
<1>8. CASE EntryAt(slots[k]).active /\ k < Len(slots)
  <2>1. AddAfter(slots, k, e, sb, fat) = AddAt(slots[k], slots[k + 1], e, << >>, sb, fat)
    BY <1>8 DEF AddAfter
  <2>2. k + 1 \in 1 .. Len(slots)
    BY SMT, <1>2, <1>8
  <2>3. slots[k] \in Spots /\ slots[k + 1] \in Spots /\ slots[k].block \in Taken(fat)
    BY <1>2, <1>3, <2>2
  <2> QED
    BY <1>4, <1>5, <1>6, <1>8, <2>1, <2>3, AddAtIs
<1>9. CASE EntryAt(slots[k]).active /\ ~(k < Len(slots)) /\ FreeBlocks(fat) = {}
  <2>1. AddAfter(slots, k, e, sb, fat) = Refused("full", << >>, sb, fat)
    BY <1>9 DEF AddAfter
  <2> DEFINE r == Refused("full", << >>, sb, fat)
  <2>2. r.writes = << >> /\ r.sb = sb /\ r.fat = fat /\ r.res = "full"
    BY DEF Refused
  <2>3. Steady(<< >>)
    BY <1>6, QuietIsSteady
  <2> HIDE DEF r
  <2>4. Planned(r)
    BY <1>4, <1>6, <2>2, <2>3 DEF Planned
  <2> QED
    BY <1>5, <2>1, <2>4 DEF r
<1>10. CASE EntryAt(slots[k]).active /\ ~(k < Len(slots)) /\ FreeBlocks(fat) # {}
  <2> DEFINE a == slots[k].block
             free == find_free_block(fat)
             f == [fat EXCEPT ![a] = free, ![free] = FAT_ENTRY_END]
             s == OneFewerFree(sb)
             outside == [block |-> FAT_ENTRY_END, index |-> 1]
             grow == WriteSuperblockAndFat(s, f)
  <2>1. AddAfter(slots, k, e, sb, fat) = AddAt(slots[k], outside, e, grow, s, f)
    BY <1>10 DEF AddAfter, AddGrown
  <2>2. slots[k] \in Spots /\ a \in Taken(fat)
    BY <1>2, <1>3
  <2>3. free \in Blocks /\ free \notin Taken(fat)
    BY <1>10, FreeIs
  <2> HIDE DEF free, a
  <2>4. f \in Fats /\ Linked(f) /\ Taken(f) = Taken(fat) \cup {free}
    BY <1>4, <2>2, <2>3, LinkFree
  <2>5. s \in Superblocks
    BY <1>4, OneFewerIs
  <2> HIDE DEF f, s
  <2>6. /\ grow \in Seq(Writes) /\ NoEntries(grow) /\ Allots(grow, Taken(fat), Taken(f))
        /\ \A i \in DOMAIN grow : grow[i].to # "block"
        /\ s.numFree = uint16 - 1 => Wraps(grow)
        /\ \A m \in Nat : s.numFree <= m /\ s.numFree <= Free(Taken(f))
                            => Counted(grow, m, s.numFree)
    BY <2>4, <2>5, SuperblockAndFat
  <2>7. outside \in Spots
    BY Marks, SMT, Sizes DEF Spots
  <2>8. a \in Taken(f) /\ Taken(fat) \subseteq Taken(f)
    BY <2>2, <2>4
  <2> HIDE DEF grow, outside
  <2>10. Tallies(grow, s, Taken(f))
    <3>1. Tallies(<< >> \o grow, s, Taken(f))
      BY <1>4, <1>6, <2>3, <2>4, <2>6, TakeTallies DEF s
    <3>2. << >> \o grow = grow
      BY <2>6, ConcatEmptySeq
    <3> QED
      BY <3>1, <3>2
  <2>9. Planned(AddAt(slots[k], outside, e, grow, s, f))
    BY <1>10, <2>2, <2>4, <2>5, <2>6, <2>7, <2>8, <2>10, AddAtIs DEF a
  <2> QED
    BY <1>5, <2>1, <2>9
<1> QED
  BY <1>7, <1>8, <1>9, <1>10

-----------------------------------------------------------------------------
(* The commands *)

\* A name that is found has an entry in a slot of the walk.
LEMMA FoundIs ==
    ASSUME NEW b, NEW name, Found(b, name)
    PROVE  SlotOf(b, name) \in Spots /\ EntryAt(SlotOf(b, name)).active
<1>1. Walk(b) \in Seq(Walked)
  BY WalkIsStart
<1>2. DOMAIN Walk(b) \subseteq Nat
  BY <1>1, LenProperties
<1>3. Matches(b, name) \subseteq Nat /\ Matches(b, name) # {}
  BY <1>2 DEF Matches, Found
<1>4. Min(Matches(b, name)) \in Matches(b, name)
  BY <1>3, MinIsLeast
<1>5. /\ Min(Matches(b, name)) \in DOMAIN Walk(b)
      /\ EntryAt(Walk(b)[Min(Matches(b, name))]).active
  BY <1>4 DEF Matches
<1>6. Walk(b)[Min(Matches(b, name))] \in Walked
  BY <1>1, <1>5, ElementOfSeq
<1> QED
  BY <1>5, <1>6, WalkedAreSpots DEF SlotOf

LEMMA PathIs ==
    ASSUME NEW path \in Paths
    PROVE  /\ path # << >> /\ Len(path) \in {1, 2} /\ Last(path) \in Names
           /\ Len(path) = 2 => path[1] \in Names
<1>1. CASE \E n \in Names : path = <<n>>
  BY <1>1 DEF Last
<1>2. CASE \E m \in DirNames, n \in Names : path = <<m, n>>
  BY <1>2 DEF Last, Names
<1> QED
  BY <1>1, <1>2 DEF Paths

\* The directory that the path's last name is in, if the path goes that far.
LEMMA ParentIs ==
    ASSUME Linked(fat), Owned, NEW path \in Paths, ParentFound(path)
    PROVE  /\ ParentBlock(path) \in Taken(fat)
           /\ Len(path) # 1 => /\ SlotOf(RootBlock, path[1]) \in Spots
                               /\ EntryAt(SlotOf(RootBlock, path[1])).active
<1>1. CASE Len(path) = 1
  BY <1>1 DEF ParentBlock, Linked
<1>2. CASE Len(path) # 1
  <2>1. Found(RootBlock, path[1])
    BY <1>2, PathIs DEF ParentFound
  <2>2. /\ SlotOf(RootBlock, path[1]) \in Spots
        /\ EntryAt(SlotOf(RootBlock, path[1])).active
    BY <2>1, FoundIs
  <2>3. ParentBlock(path) = EntryAt(SlotOf(RootBlock, path[1])).first
    BY <1>2 DEF ParentBlock
  <2> QED
    BY <2>2, <2>3 DEF Owned
<1> QED
  BY <1>1, <1>2

LEMMA PathSlotIs ==
    ASSUME NEW path, PathFound(path)
    PROVE  PathSlot(path) \in Spots /\ EntryAt(PathSlot(path)).active
BY FoundIs DEF PathFound, PathSlot

LEMMA CopyIs ==
    ASSUME NEW first \in Blocks, NEW l \in LinuxFiles
    PROVE  LET ws == copy_file_from_linux(first, l)
           IN  /\ ws \in Seq(Writes) /\ NoEntries(ws)
               /\ \A i \in DOMAIN ws : ws[i].to # "fat"
               /\ \A T : Allots(ws, T, T)
               /\ \A m \in Nat : Counted(ws, m, m)
<1> DEFINE ws == copy_file_from_linux(first, l)
           n == l.len
           c(i) == DataOf([id |-> l.id, no |-> i])
<1>1. n \in 0 .. NumBlocks
  BY FatAssumption
<1> HIDE DEF n
<1>2. ASSUME NEW i \in 1 .. n PROVE first + i - 1 \in Places /\ i \in Nat
  BY SMT, <1>1, <1>2, Sizes DEF Blocks, Places
<1>3. ASSUME NEW i \in 1 .. n
      PROVE  c(i) \in Contents /\ c(i).entries = << >>
  <2>1. [id |-> l.id, no |-> i] \in Pieces
    BY <1>2 DEF Pieces
  <2>2. << >> \in Seq(Entries) /\ Len(<< >>) = 0 /\ 0 <= EntriesPerBlock
    BY SMT, Sizes
  <2> QED
    BY <2>1, <2>2 DEF DataOf, Contents
<1> HIDE DEF c
<1>4. ws = [i \in 1 .. n |-> PutBlock(first + i - 1, c(i))]
  BY DEF copy_file_from_linux, n, c
<1>5. \A i \in 1 .. n : PutBlock(first + i - 1, c(i)) \in Writes
  BY <1>2, <1>3, PutIs
<1>6. ws \in [1 .. n -> Writes] /\ n \in Nat
  BY <1>4, <1>5, SMT, <1>1, Sizes
<1>7. ws \in Seq(Writes) /\ DOMAIN ws = 1 .. n
  BY <1>6, SeqDef
<1>8. \A i \in DOMAIN ws : ws[i].to = "block" /\ ws[i].content.entries = << >>
  BY <1>3, <1>4, <1>7 DEF PutBlock
<1> HIDE DEF ws
<1>9. NoEntries(ws)
  BY <1>8, Short DEF NoEntries, Puts
<1>10. \A T : Allots(ws, T, T)
  BY <1>7, <1>8, TakesNothing DEF Puts
<1>11. \A m \in Nat : Counted(ws, m, m)
  BY <1>7, <1>8, CountsNothing
<1> QED
  BY <1>7, <1>8, <1>9, <1>10, <1>11 DEF ws

LEMMA AddSizesIs ==
    ASSUME Typed, Linked(fat), Owned, NEW path \in Paths, ParentFound(path),
           NEW n \in Nat, NEW s \in Superblocks,
           NEW T, Taken(fat) \subseteq T
    PROVE  LET ws == AddSizes(path, n, s)
           IN  /\ ws \in Seq(Writes) /\ OneRewrite(ws) /\ Allots(ws, T, T)
               /\ Counted(ws, s.numFree, s.numFree)
<1> DEFINE slot == SlotOf(RootBlock, path[1])
           e == [EntryAt(slot) EXCEPT !.size = @ + n]
           a == PutEntry(slot, e)
           b == PutSuperblock([s EXCEPT !.rootSize = @ + n])
           v == IF Len(path) = 1 THEN << >> ELSE <<a>>
           w == <<b>>
           ws == v \o w
<1>1. AddSizes(path, n, s) = ws
  BY DEF AddSizes
<1>2. Len(path) # 1 => slot \in Spots /\ EntryAt(slot).active /\ EntryAt(slot) \in Entries
  BY ParentIs, EntryIs
<1> HIDE DEF slot
<1>3. Len(path) # 1 => /\ e \in Entries /\ e.active /\ e.first = EntryAt(slot).first
                       /\ e.first \in T /\ e.first # RootBlock
  BY <1>2, SMT DEF Entries, Owned
<1> HIDE DEF e
<1>4. b \in Writes /\ CountOf(b) = s.numFree
  <2>1. \A m \in Nat : m + n \in Nat
    BY SMT
  <2>2. [s EXCEPT !.rootSize = @ + n] \in Superblocks
    BY <2>1 DEF Superblocks
  <2>3. [s EXCEPT !.rootSize = @ + n].numFree = s.numFree
    BY DEF Superblocks
  <2> QED
    BY <2>2, <2>3, PutIs DEF CountOf, PutSuperblock
<1>5. Len(path) # 1 => a \in Writes
  BY <1>2, <1>3, PutIs
<1>6. /\ a.to = "entry" /\ a.slot = slot /\ a.entry = e
      /\ b.to = "sb"
  BY DEF PutEntry, PutSuperblock
<1> HIDE DEF a, b
<1>7. /\ v \in Seq(Writes) /\ w \in Seq(Writes)
      /\ \A i \in DOMAIN v : i = 1 /\ v[i] = a /\ Len(path) # 1
      /\ \A i \in DOMAIN w : w[i] = b
  <2>1. /\ w \in Seq(Writes)
        /\ \A i \in DOMAIN w : w[i] = b
    BY <1>4, Short
  <2>2. CASE Len(path) = 1
    BY <2>1, Short, <2>2
  <2>3. CASE Len(path) # 1
    <3>1. v = <<a>>
      BY <2>3
    <3>2. <<a>> \in Seq(Writes) /\ \A i \in DOMAIN <<a>> : i = 1 /\ <<a>>[i] = a
      BY <2>3, <1>5, Short
    <3> QED
      BY <2>1, <2>3, <3>1, <3>2
  <2> QED
    BY <2>2, <2>3
<1> HIDE DEF v, w
<1>8. ws \in Seq(Writes)
  BY <1>7, ConcatAt
<1>9. \A i \in DOMAIN ws :
        \/ i = 1 /\ ws[i] = a /\ Len(path) # 1
        \/ ws[i] = b
  BY <1>7, ConcatAt
<1> HIDE DEF ws
<1>10. \A i \in DOMAIN ws : Puts(ws[i]) => i = 1 /\ ws[i] = a /\ Len(path) # 1
  BY <1>6, <1>9 DEF Puts
<1>11. \A i \in DOMAIN ws : ws[i].to # "block" /\ ws[i].to # "fat"
  BY <1>6, <1>9
<1>12. OneRewrite(ws)
  <2>1. ~(1 < 1)
    BY SMT
  <2>2. \A i \in DOMAIN ws : Puts(ws[i]) => Rewrites(ws[i])
    BY <1>2, <1>3, <1>6, <1>10 DEF Rewrites
  <2> QED
    BY <2>1, <2>2, <1>10, <1>11 DEF OneRewrite
<1>13. Allots(ws, T, T)
  BY <1>3, <1>6, <1>8, <1>10, <1>11, TakesNothing
<1>14. Counted(ws, s.numFree, s.numFree)
  <2>1. \A m \in Nat : m <= m
    BY SMT
  <2>2. s.numFree <= s.numFree
    BY <2>1 DEF Superblocks
  <2>3. \A i \in DOMAIN ws : ws[i].to = "sb" => CountOf(ws[i]) = s.numFree
    BY <1>4, <1>6, <1>9
  <2> QED
    BY <1>11, <2>2, <2>3 DEF Counted
<1> QED
  BY <1>1, <1>8, <1>12, <1>13, <1>14

\* What a command may leave to be done, to come to the superblock s and to a
\* FAT that takes U.
Ready(ws) ==
    /\ ws \in Seq(Writes) /\ Fits(ws)
    /\ \E U : /\ Allots(ws, Taken(fat), U)
             /\ \E s \in Superblocks : Tallies(ws, s, U)

\* A steady series with the sizes behind it.
LEMMA PlanIsReady ==
    ASSUME Typed, Linked(fat), Owned, NEW path \in Paths, ParentFound(path),
           NEW n \in Nat, NEW s \in Superblocks,
           NEW v \in Seq(Writes), Steady(v), NEW T, Allots(v, Taken(fat), T),
           Tallies(v, s, T)
    PROVE  Ready(v \o AddSizes(path, n, s))
<1> DEFINE w == AddSizes(path, n, s)
<1>1. Taken(fat) \subseteq T
  BY DEF Allots
<1>2. /\ w \in Seq(Writes) /\ OneRewrite(w) /\ Allots(w, T, T)
      /\ Counted(w, s.numFree, s.numFree)
  BY <1>1, AddSizesIs
<1> HIDE DEF w
<1>3. v \o w \in Seq(Writes) /\ Fits(v \o w) /\ Allots(v \o w, Taken(fat), T)
  BY <1>2, PlanFits, AllotsThen, ConcatAt
<1>4. Tallies(v \o w, s, T)
  BY <1>2, TalliesThen
<1> QED
  BY <1>3, <1>4 DEF Ready, w

\* A steady series alone.
LEMMA SteadyIsReady ==
    ASSUME Typed, Owned, NEW v \in Seq(Writes), Steady(v), NEW T, Allots(v, Taken(fat), T),
           NEW s \in Superblocks, Tallies(v, s, T)
    PROVE  Ready(v)
<1>1. << >> \in Seq(Writes) /\ OneRewrite(<< >>)
  BY Short DEF OneRewrite
<1>2. Fits(v \o << >>)
  BY <1>1, PlanFits
<1>3. v \o << >> = v
  BY ConcatEmptySeq
<1> QED
  BY <1>2, <1>3 DEF Ready

\* A command has made its plan.
Plans == UNCHANGED <<sb, fat, disk, crashes>> /\ Ready(todo')

LEMMA StartPlans ==
    ASSUME NEW path, NEW ws, NEW what, Start(path, ws, what), Ready(ws)
    PROVE  Plans
BY DEF Start, Plans

LEMMA PlansKeepOwners == ASSUME OwnerInv, Plans PROVE OwnerInv'
<1>1. sb' = sb /\ fat' = fat /\ disk' = disk
  BY DEF Plans
<1>2. Typed'
  BY <1>1 DEF OwnerInv, Plans, Ready, Typed
<1>3. Owned'
  BY <1>1 DEF OwnerInv, Owned, EntryAt
<1>4. Fits(todo)'
  BY <1>1 DEF Plans, Ready, Fits, EntryAt, HasEntry
<1> QED
  BY <1>1, <1>2, <1>3, <1>4 DEF OwnerInv, Plans, Ready

\* The command replaces one entry by one that keeps its first block.
LEMMA ReplaceIsSteady ==
    ASSUME Typed, Linked(fat), Owned, NEW slot \in Spots, EntryAt(slot).active,
           NEW e \in Entries, e.first = EntryAt(slot).first
    PROVE  LET ws == <<PutEntry(slot, e)>>
           IN  /\ ws \in Seq(Writes) /\ Steady(ws) /\ Allots(ws, Taken(fat), Taken(fat))
               /\ Tallies(ws, sb, Taken(fat))
<1> DEFINE a == PutEntry(slot, e)
           ws == <<a>>
<1>1. a \in Writes
  BY PutIs
<1>2. a.to = "entry" /\ a.slot = slot /\ a.entry = e
  BY DEF PutEntry
<1> HIDE DEF a
<1>3. ws \in Seq(Writes) /\ DOMAIN ws = {1} /\ ws[1] = a
  BY <1>1, Short
<1> HIDE DEF ws
<1>4. ~(1 < 1)
  BY SMT
<1>5. Rewrites(a)
  BY <1>2 DEF Rewrites
<1>6. Steady(ws)
  BY <1>2, <1>3, <1>4, <1>5 DEF Steady
<1>7. e.first \in Taken(fat) /\ e.first # RootBlock
  BY DEF Owned
<1>8. Allots(ws, Taken(fat), Taken(fat))
  BY <1>2, <1>3, <1>7, TakesNothing
<1>9. Tallies(ws, sb, Taken(fat))
  <2>1. sb.numFree \in Nat /\ Free(Taken(fat)) \in Nat
    BY FreeIsCounted DEF Typed, Superblocks
  <2>2. Counted(ws, sb.numFree, sb.numFree)
    BY <1>2, <1>3, <2>1, CountsNothing
  <2>3. sb.numFree = Free(Taken(fat)) - Surplus
    BY SMT, <2>1 DEF Surplus
  <2> QED
    BY <2>2, <2>3 DEF Tallies
<1> QED
  BY <1>3, <1>6, <1>8, <1>9 DEF ws, a

LEMMA NewEntryIs ==
    ASSUME NEW name \in Names \cup {Unnamed}, NEW kind \in {"file", "dir"},
           NEW size \in Nat, NEW mode \in SUBSET {"r", "w"}
    PROVE  /\ NewEntry(name, kind, size, mode) \in Entries
           /\ name \in Names => NewEntry(name, kind, size, mode) \in NewOnes
<1> DEFINE e == NewEntry(name, kind, size, mode)
<1>1. e \in Entries
  BY JunkIs DEF NewEntry, Entries
<1>2. e.active /\ e.name = name
  BY DEF NewEntry, Indicator
<1> HIDE DEF e
<1> QED
  BY <1>1, <1>2 DEF NewOnes, e

LEMMA LinuxFileIs ==
    ASSUME NEW l \in LinuxFiles
    PROVE  l.len \in Nat /\ l.mode \in SUBSET {"r", "w"}
BY SMT, FatAssumption

LEMMA CountedIs ==
    ASSUME NEW s \in Superblocks
    PROVE  /\ [s EXCEPT !.numDirs = @ + 1] \in Superblocks
           /\ [s EXCEPT !.numFiles = @ + 1] \in Superblocks
           /\ [s EXCEPT !.numDirs = @ + 1].numFree = s.numFree
           /\ [s EXCEPT !.numFiles = @ + 1].numFree = s.numFree
<1>1. \A m \in Nat : m + 1 \in Nat
  BY SMT
<1> QED
  BY <1>1 DEF Superblocks

\* What was planned, and the superblock and the FAT written once more.
LEMMA CountedPlanIs ==
    ASSUME Typed, NEW r, Planned(r), NEW s \in Superblocks, s.numFree = r.sb.numFree
    PROVE  LET ws == r.writes \o WriteSuperblockAndFat(s, r.fat)
           IN  /\ ws \in Seq(Writes) /\ Steady(ws)
               /\ Allots(ws, Taken(fat), Taken(r.fat))
               /\ Tallies(ws, s, Taken(r.fat))
<1> DEFINE v == r.writes
           w == WriteSuperblockAndFat(s, r.fat)
<1>1. /\ v \in Seq(Writes) /\ Steady(v) /\ Allots(v, Taken(fat), Taken(r.fat))
      /\ r.fat \in Fats /\ Linked(r.fat) /\ r.sb \in Superblocks
      /\ Tallies(v, r.sb, Taken(r.fat))
  BY DEF Planned
<1>2. /\ w \in Seq(Writes) /\ NoEntries(w) /\ Allots(w, Taken(r.fat), Taken(r.fat))
      /\ \A m \in Nat : s.numFree <= m /\ s.numFree <= Free(Taken(r.fat))
                          => Counted(w, m, s.numFree)
  BY <1>1, SuperblockAndFat
<1> HIDE DEF v, w
<1>3. /\ v \o w \in Seq(Writes) /\ Steady(v \o w)
      /\ Allots(v \o w, Taken(fat), Taken(r.fat))
  BY <1>1, <1>2, SteadyThen, AllotsThen, ConcatAt
<1>4. Tallies(v \o w, s, Taken(r.fat))
  <2>1. s.numFree \in Nat /\ s.numFree <= s.numFree
    BY SMT DEF Superblocks
  <2>2. s.numFree <= Free(Taken(r.fat)) => Counted(w, s.numFree, s.numFree)
    BY <1>2, <2>1
  <2> QED
    BY <1>1, <1>2, <2>2, TalliesThen
<1> QED
  BY <1>3, <1>4 DEF v, w

LEMMA MkdirPlans ==
    ASSUME OwnerInv, NEW path \in Paths, mkdir(path)
    PROVE  Plans
<1>1. Typed /\ Linked(fat) /\ Owned
  BY DEF OwnerInv
<1>2. ParentFound(path)
  BY DEF mkdir, PathMissing
<1> DEFINE e == NewEntry(Last(path), "dir", 0, {"r", "w"})
           r == add_dir_entry(ParentBlock(path), e, sb, fat)
           counted == [r.sb EXCEPT !.numDirs = @ + 1]
           v == r.writes \o WriteSuperblockAndFat(counted, r.fat)
           what == IF r.res = "done" THEN Directory ELSE stored[path]
<1>3. e \in NewOnes
  BY PathIs, NewEntryIs
<1> HIDE DEF e
<1>4. Planned(r)
  BY <1>1, <1>2, <1>3, ParentIs, AddDirEntryIs
<1>5. MakeDir(path, r, counted)
  BY DEF mkdir, e
<1> HIDE DEF r
<1>6. counted \in Superblocks /\ counted.numFree = r.sb.numFree
  BY <1>4, CountedIs DEF Planned
<1>7. CASE r.res = "error"
  <2>1. Start(path, r.writes, what)
    BY <1>5, <1>7 DEF MakeDir
  <2>2. Ready(r.writes)
    BY <1>1, <1>4, SteadyIsReady DEF Planned
  <2> HIDE DEF what
  <2> QED
    BY <2>1, <2>2, StartPlans
<1>8. CASE r.res # "error"
  <2>1. Start(path, v \o AddSizes(path, 0, counted), what)
    BY <1>5, <1>8 DEF MakeDir
  <2> HIDE DEF counted, what
  <2>2. /\ v \in Seq(Writes) /\ Steady(v) /\ Allots(v, Taken(fat), Taken(r.fat))
        /\ Tallies(v, counted, Taken(r.fat))
    BY <1>1, <1>4, <1>6, CountedPlanIs
  <2> HIDE DEF v
  <2>3. Ready(v \o AddSizes(path, 0, counted))
    BY <1>1, <1>2, <1>6, <2>2, PlanIsReady
  <2> QED
    BY <2>1, <2>3, StartPlans
<1> QED
  BY <1>7, <1>8

LEMMA WriteNewPlans ==
    ASSUME OwnerInv, NEW path \in Paths, NEW l \in LinuxFiles, WriteNew(path, l)
    PROVE  Plans
<1>1. Typed /\ Linked(fat) /\ Owned
  BY DEF OwnerInv
<1>2. ParentFound(path)
  BY DEF WriteNew, PathMissing
<1> DEFINE e == NewEntry(Last(path), "file", l.len, l.mode)
           r == add_dir_entry(ParentBlock(path), e, sb, fat)
           counted == [r.sb EXCEPT !.numFiles = @ + 1]
           v == r.writes \o WriteSuperblockAndFat(counted, r.fat)
           copy == copy_file_from_linux(r.first, l)
           what == IF r.res = "done" THEN l.id ELSE stored[path]
<1>3. e \in NewOnes
  BY PathIs, NewEntryIs, LinuxFileIs
<1> HIDE DEF e
<1>4. Planned(r)
  BY <1>1, <1>2, <1>3, ParentIs, AddDirEntryIs
<1>5. MakeFile(path, r, counted, l)
  BY DEF WriteNew, e
<1> HIDE DEF r
<1>6. counted \in Superblocks /\ counted.numFree = r.sb.numFree
  BY <1>4, CountedIs DEF Planned
<1>7. CASE r.res # "done"
  <2>1. Start(path, r.writes, what)
    BY <1>5, <1>7 DEF MakeFile
  <2>2. Ready(r.writes)
    BY <1>1, <1>4, SteadyIsReady DEF Planned
  <2> HIDE DEF what
  <2> QED
    BY <2>1, <2>2, StartPlans
<1>8. CASE r.res = "done"
  <2>1. Start(path, v \o copy \o AddSizes(path, l.len, counted), what)
    BY <1>5, <1>8 DEF MakeFile
  <2>2. /\ copy \in Seq(Writes) /\ NoEntries(copy) /\ \A T : Allots(copy, T, T)
        /\ \A m \in Nat : Counted(copy, m, m)
    BY <1>4, <1>8, CopyIs DEF Planned
  <2> HIDE DEF counted, what, copy
  <2>3. /\ v \in Seq(Writes) /\ Steady(v) /\ Allots(v, Taken(fat), Taken(r.fat))
        /\ Tallies(v, counted, Taken(r.fat))
    BY <1>1, <1>4, <1>6, CountedPlanIs
  <2> HIDE DEF v
  <2>4. Allots(copy, Taken(r.fat), Taken(r.fat))
    BY <2>2
  <2>5. /\ v \o copy \in Seq(Writes) /\ Steady(v \o copy)
        /\ Allots(v \o copy, Taken(fat), Taken(r.fat))
    BY <2>2, <2>3, <2>4, SteadyThen, AllotsThen, ConcatAt
  <2>7. Tallies(v \o copy, counted, Taken(r.fat))
    BY <1>1, <1>6, <2>2, <2>3, TalliesThen DEF Superblocks
  <2>6. Ready(v \o copy \o AddSizes(path, l.len, counted))
    BY <1>1, <1>2, <1>6, <2>5, <2>7, LinuxFileIs, PlanIsReady
  <2> QED
    BY <2>1, <2>6, StartPlans
<1> QED
  BY <1>7, <1>8

LEMMA WriteOverPlans ==
    ASSUME OwnerInv, NEW path \in Paths, NEW l \in LinuxFiles, NEW pw \in Given,
           WriteOver(path, l, pw)
    PROVE  Plans
<1>1. Typed /\ Linked(fat) /\ Owned
  BY DEF OwnerInv
<1> DEFINE slot == PathSlot(path)
           e == EntryAt(slot)
           o == Overwritten(e, l)
           v == <<PutEntry(slot, o)>>
           copy == copy_file_from_linux(e.first, l)
<1>2. PathFound(path) /\ Start(path, v \o copy \o AddSizes(path, l.len, sb), l.id)
  BY DEF WriteOver
<1>3. ParentFound(path)
  BY <1>2 DEF PathFound
<1>4. slot \in Spots /\ e.active
  BY <1>2, PathSlotIs
<1> HIDE DEF slot
<1>5. e \in Entries
  BY <1>1, <1>4, EntryIs
<1>6. o \in Entries /\ o.first = e.first
  <2>1. e.first \in Blocks /\ e.last \in BOOLEAN /\ e.pw \in Given0
        /\ e.name \in Names \cup {Unnamed}
    BY <1>5 DEF Entries
  <2> HIDE DEF e
  <2> DEFINE n == NewEntry(e.name, "file", l.len, l.mode)
  <2>4. n \in Entries
    BY <2>1, LinuxFileIs, NewEntryIs
  <2>5. o = [n EXCEPT !.first = e.first, !.last = e.last, !.pw = e.pw]
    BY DEF Overwritten
  <2> HIDE DEF o, n
  <2> QED
    BY <2>1, <2>4, <2>5 DEF Entries
<1> HIDE DEF o
<1>7. /\ v \in Seq(Writes) /\ Steady(v) /\ Allots(v, Taken(fat), Taken(fat))
      /\ Tallies(v, sb, Taken(fat))
  BY <1>1, <1>4, <1>6, ReplaceIsSteady
<1>8. /\ copy \in Seq(Writes) /\ NoEntries(copy)
      /\ Allots(copy, Taken(fat), Taken(fat))
      /\ \A m \in Nat : Counted(copy, m, m)
  BY CopyIs, <1>5 DEF Entries
<1> HIDE DEF e, v, copy
<1>9. /\ v \o copy \in Seq(Writes) /\ Steady(v \o copy)
      /\ Allots(v \o copy, Taken(fat), Taken(fat))
  BY <1>7, <1>8, SteadyThen, AllotsThen, ConcatAt
<1>10. sb \in Superblocks
  BY <1>1 DEF Typed
<1>12. Tallies(v \o copy, sb, Taken(fat))
  BY <1>1, <1>7, <1>8, <1>10, TalliesThen DEF Superblocks
<1>11. Ready(v \o copy \o AddSizes(path, l.len, sb))
  BY <1>1, <1>3, <1>9, <1>10, <1>12, LinuxFileIs, PlanIsReady
<1> QED
  BY <1>2, <1>11, StartPlans

LEMMA WriteNothingPlans ==
    ASSUME OwnerInv, NEW path \in Paths, NEW pw \in Given, WriteNothing(path, pw)
    PROVE  Plans
<1>1. Typed /\ Linked(fat) /\ Owned
  BY DEF OwnerInv
<1>2. ParentFound(path) /\ Start(path, AddSizes(path, 1, sb), stored[path])
  BY DEF WriteNothing, PathMissing, PathFound
<1>3. sb \in Superblocks /\ 1 \in Nat
  BY <1>1 DEF Typed
<1>4. /\ << >> \in Seq(Writes) /\ Steady(<< >>) /\ Allots(<< >>, Taken(fat), Taken(fat))
      /\ Tallies(<< >>, sb, Taken(fat))
  BY <1>1, Short, TakesNothing, NothingTallies DEF Steady
<1>5. AddSizes(path, 1, sb) \in Seq(Writes)
  BY <1>1, <1>2, <1>3, AddSizesIs
<1>6. Ready(<< >> \o AddSizes(path, 1, sb))
  BY <1>1, <1>2, <1>3, <1>4, PlanIsReady
<1>7. Ready(AddSizes(path, 1, sb))
  BY <1>5, <1>6, ConcatEmptySeq
<1> QED
  BY <1>2, <1>7, StartPlans

\* chmod and addpw write one entry back.
LEMMA ReplacePlans ==
    ASSUME OwnerInv, NEW path, PathFound(path), NEW e \in Entries, NEW what,
           e.first = EntryAt(PathSlot(path)).first,
           Start(path, <<PutEntry(PathSlot(path), e)>>, what)
    PROVE  Plans
<1>1. Typed /\ Linked(fat) /\ Owned
  BY DEF OwnerInv
<1>2. PathSlot(path) \in Spots /\ EntryAt(PathSlot(path)).active
  BY PathSlotIs
<1>3. /\ <<PutEntry(PathSlot(path), e)>> \in Seq(Writes)
      /\ Steady(<<PutEntry(PathSlot(path), e)>>)
      /\ Allots(<<PutEntry(PathSlot(path), e)>>, Taken(fat), Taken(fat))
      /\ Tallies(<<PutEntry(PathSlot(path), e)>>, sb, Taken(fat))
      /\ sb \in Superblocks
  BY <1>1, <1>2, ReplaceIsSteady DEF Typed
<1>4. Ready(<<PutEntry(PathSlot(path), e)>>)
  BY <1>1, <1>3, SteadyIsReady
<1> QED
  BY <1>4, StartPlans

LEMMA ChmodPlans ==
    ASSUME OwnerInv, NEW path, NEW plus \in BOOLEAN,
           NEW letters \in {<<"r">>, <<"w">>, <<"r", "w">>}, NEW pw \in Given,
           chmod(path, plus, letters, pw)
    PROVE  Plans
<1> DEFINE e == EntryAt(PathSlot(path))
           o == [e EXCEPT !.mode = set_permission(@, plus, letters)]
<1>1. PathFound(path) /\ Start(path, <<PutEntry(PathSlot(path), o)>>, stored[path])
  BY DEF chmod
<1>2. PathSlot(path) \in Spots
  BY <1>1, PathSlotIs
<1>3. e \in Entries
  BY <1>2, EntryIs DEF OwnerInv
<1> HIDE DEF e
<1>4. letters[1] \in {"r", "w"}
  OBVIOUS
<1>5. set_permission(e.mode, plus, letters) \in SUBSET {"r", "w"}
  BY <1>3, <1>4 DEF set_permission, Entries
<1>6. o \in Entries /\ o.first = e.first
  BY <1>3, <1>5 DEF Entries
<1> QED
  BY <1>1, <1>6, ReplacePlans DEF e

LEMMA AddpwPlans ==
    ASSUME OwnerInv, NEW path, NEW new \in Passwords, NEW pw \in Given,
           addpw(path, new, pw)
    PROVE  Plans
<1> DEFINE e == EntryAt(PathSlot(path))
           o == [e EXCEPT !.pw = new, !.locked = TRUE]
<1>1. PathFound(path) /\ Start(path, <<PutEntry(PathSlot(path), o)>>, stored[path])
  BY DEF addpw
<1>2. PathSlot(path) \in Spots
  BY <1>1, PathSlotIs
<1>3. e \in Entries
  BY <1>2, EntryIs DEF OwnerInv
<1> HIDE DEF e
<1>4. o \in Entries /\ o.first = e.first
  BY <1>3 DEF Entries, Given0
<1> QED
  BY <1>1, <1>4, ReplacePlans DEF e

LEMMA SameOwners ==
    ASSUME OwnerInv, UNCHANGED <<sb, fat, disk, todo>>
    PROVE  OwnerInv'
<1>1. Typed'
  BY DEF OwnerInv, Typed
<1>2. Owned'
  BY DEF OwnerInv, Owned, EntryAt
<1>3. Fits(todo)'
  BY DEF OwnerInv, Fits, EntryAt, HasEntry
<1> QED
  BY <1>1, <1>2, <1>3 DEF OwnerInv

LEMMA CommandPlans ==
    ASSUME OwnerInv, NEW path \in Paths, Command(path)
    PROVE  Plans \/ UNCHANGED <<sb, fat, disk, crashes, todo>>
<1>1. CASE mkdir(path)
  BY <1>1, MkdirPlans
<1>2. CASE \E l \in LinuxFiles : WriteNew(path, l)
  BY <1>2, WriteNewPlans
<1>3. CASE \E l \in LinuxFiles, pw \in Given : WriteOver(path, l, pw)
  BY <1>3, WriteOverPlans
<1>4. CASE \E pw \in Given : WriteNothing(path, pw)
  BY <1>4, WriteNothingPlans
<1>5. CASE \E pw \in Given :
             \E plus \in BOOLEAN, letters \in {<<"r">>, <<"w">>, <<"r", "w">>} :
               chmod(path, plus, letters, pw)
  BY <1>5, ChmodPlans
<1>6. CASE \E pw \in Given : \E new \in Passwords : addpw(path, new, pw)
  BY <1>6, AddpwPlans
<1>7. CASE Stray(path)
  BY <1>7 DEF Stray
<1> QED
  BY <1>1, <1>2, <1>3, <1>4, <1>5, <1>6, <1>7 DEF Command

LEMMA InitOwners == Init => OwnerInv
<1> SUFFICES ASSUME Init PROVE OwnerInv
  OBVIOUS
<1>1. /\ sb = [numFiles |-> 0, numDirs |-> 1, numFree |-> NumBlocks - 1, rootSize |-> 0]
      /\ fat = [b \in Blocks |-> IF b = RootBlock THEN FAT_ENTRY_END ELSE FAT_ENTRY_EMPTY]
      /\ disk = [p \in Places |-> IF p = RootBlock THEN TableOf(<<Indicator>>) ELSE Zeroed]
      /\ todo = << >>
  BY DEF Init
<1>2. sb \in Superblocks
  BY <1>1, SMT, Sizes DEF Superblocks
<1>3. fat \in Fats /\ Taken(fat) = {RootBlock} /\ Linked(fat)
  BY <1>1, Marks DEF Fats, Taken, Linked
<1>4. TableOf(<<Indicator>>) \in Contents /\ Zeroed \in Contents
  <2>1. /\ <<Indicator>> \in Seq(Entries) /\ Len(<<Indicator>>) = 1
        /\ << >> \in Seq(Entries) /\ Len(<< >>) = 0 /\ NoPiece \in Pieces
    BY JunkIs DEF NoPiece, Pieces
  <2>2. 1 <= EntriesPerBlock /\ 0 <= EntriesPerBlock
    BY SMT, Sizes
  <2> QED
    BY <2>1, <2>2 DEF TableOf, Zeroed, Contents
<1>5. DOMAIN disk = Places /\ \A p \in Places : disk[p] \in Contents
  BY <1>1, <1>4
<1>6. \A s \in Spots : ~EntryAt(s).active
  <2> TAKE s \in Spots
  <2>1. disk[s.block].entries = <<Indicator>> \/ disk[s.block].entries = << >>
    BY <1>1 DEF Spots, TableOf, Zeroed
  <2>2. \A i \in DOMAIN <<Indicator>> : <<Indicator>>[i] = Indicator
    OBVIOUS
  <2>3. EntryAt(s) = Indicator \/ EntryAt(s) = Junk
    BY <2>1, <2>2 DEF EntryAt
  <2> QED
    BY <2>3, JunkIs
<1>7. Owned
  BY <1>6 DEF Owned
<1>8. todo \in Seq(Writes) /\ Fits(todo) /\ Allots(todo, Taken(fat), Taken(fat))
  BY <1>1, Short, TakesNothing DEF Fits
<1> QED
  BY <1>2, <1>3, <1>5, <1>7, <1>8 DEF OwnerInv, Typed

\* Every step of the file system keeps the owners.
LEMMA NextOwners == ASSUME OwnerInv, [Next]_vars PROVE OwnerInv'
<1>1. CASE \E path \in Paths : Command(path)
  BY <1>1, CommandPlans, PlansKeepOwners, SameOwners
<1>2. CASE Write
  BY <1>2, WriteKeepsOwners
<1>3. CASE Crash
  <2>1. todo' = << >> /\ UNCHANGED <<sb, fat, disk>>
    BY <1>3 DEF Crash
  <2>2. Typed'
    BY <2>1, Short DEF OwnerInv, Typed
  <2>3. Owned'
    BY <2>1 DEF OwnerInv, Owned, EntryAt
  <2>4. Fits(todo)'
    BY <2>1, Short DEF Fits
  <2>5. Allots(<< >>, Taken(fat), Taken(fat))
    BY Short, TakesNothing
  <2> QED
    BY <2>1, <2>2, <2>3, <2>4, <2>5 DEF OwnerInv
<1>4. CASE UNCHANGED vars
  BY SameOwners, <1>4 DEF vars
<1> QED
  BY <1>1, <1>2, <1>3, <1>4 DEF Next

LEMMA ListedIs ==
    ASSUME NEW b, NEW s \in Listed(b)
    PROVE  s \in Spots /\ EntryAt(s).active
<1>1. EntryAt(s).active /\ \E k \in DOMAIN Walk(b) : s = Walk(b)[k]
  BY DEF Listed, ToSet
<1>2. s \in Walked
  BY <1>1, WalkIsStart, ElementOfSeq
<1> QED
  BY <1>1, <1>2, WalkedAreSpots

LEMMA OwnersAreOne == OwnerInv => OneOwner
<1> SUFFICES ASSUME OwnerInv PROVE OneOwner
  OBVIOUS
<1>1. \A s \in AllListed : s \in Spots /\ EntryAt(s).active
  BY ListedIs DEF AllListed
<1>2. \A s \in AllListed :
         EntryAt(s).first # RootBlock /\ fat[EntryAt(s).first] # FAT_ENTRY_EMPTY
  BY <1>1 DEF OwnerInv, Owned, Taken
<1>3. \A s, t \in AllListed : s # t => EntryAt(s).first # EntryAt(t).first
  BY <1>1 DEF OwnerInv, Owned
<1> QED
  BY <1>2, <1>3 DEF OneOwner

\* No two listed entries begin at one block, and none at a block that the FAT
\* calls free, whatever commands run and at whichever of their writes they are
\* killed.  What lies behind the first block of a long file is not said here.
THEOREM FirstBlocksApart == Spec => []OneOwner
<1>1. Init => OwnerInv
  BY InitOwners
<1>2. OwnerInv /\ [Next]_vars => OwnerInv'
  BY NextOwners
<1>3. OwnerInv => OneOwner
  BY OwnersAreOne
<1> QED
  BY <1>1, <1>2, <1>3, PTL DEF Spec

-----------------------------------------------------------------------------
(* The theorems of the count *)

\* What keeps the count safe while a command writes, whoever is killed.
SafeInv == FreeCountSafe /\ \E n \in Nat : Counted(todo, sb.numFree, n)

LEMMA WriteKeepsCount ==
    ASSUME OwnerInv, Write, FreeCountSafe, NEW n \in Nat, Counted(todo, sb.numFree, n)
    PROVE  FreeCountSafe' /\ Counted(todo, sb.numFree, n)'
<1> DEFINE w == Head(todo)
           m == sb.numFree
           m2 == IF w.to = "sb" THEN CountOf(w) ELSE m
<1>1. todo \in Seq(Writes) /\ todo # << >> /\ todo' = Tail(todo) /\ Done(w)
  BY DEF OwnerInv, Typed, Write
<1>2. m \in Nat /\ Free(Taken(fat)) \in Nat /\ m <= Free(Taken(fat))
  BY FreeIsCounted DEF OwnerInv, Typed, Superblocks, FreeCountSafe, Free
<1>3. /\ Counted(Tail(todo), m2, n) /\ m2 \in Nat /\ m2 <= m
      /\ w.to = "fat" => m <= FreeOf(w)
  BY <1>1, <1>2, CountedTail
<1>4. sb'.numFree = m2
  BY <1>1 DEF Done, CountOf
<1>5. Taken(fat') = IF w.to = "fat" THEN Taken(w.fat) ELSE Taken(fat)
  BY <1>1 DEF Done
<1> HIDE DEF w, m, m2
<1>6. m2 <= Free(Taken(fat'))
  <2>1. Free(Taken(fat')) \in Nat /\ FreeOf(w) \in Nat
    BY FreeIsCounted DEF FreeOf
  <2>2. m <= Free(Taken(fat'))
    BY <1>2, <1>3, <1>5 DEF FreeOf
  <2> QED
    BY SMT, <1>2, <1>3, <2>1, <2>2
<1>7. Free(Taken(fat')) = Cardinality(FreeBlocks(fat'))
  BY FreeIsCounted DEF Free
<1>8. FreeCountSafe'
  BY <1>4, <1>6, <1>7 DEF FreeCountSafe
<1>9. Counted(todo', sb'.numFree, n)
  BY <1>1, <1>3, <1>4 DEF w
<1> QED
  BY <1>8, <1>9 DEF Counted

\* A command plans to write a count of free blocks greater than the one it read.
CountWraps ==
    /\ todo = << >>
    /\ \E i \in DOMAIN todo' : todo'[i].to = "sb" /\ todo'[i].sb.numFree > sb.numFree

LEMMA SurplusWraps ==
    ASSUME OwnerInv, FreeCountSafe, todo = << >>, Wraps(todo'), Surplus # 0
    PROVE  CountWraps
<1>1. PICK i \in DOMAIN todo' : todo'[i].to = "sb" /\ CountOf(todo'[i]) = uint16 - 1
  BY DEF Wraps
<1>2. /\ sb.numFree \in Nat /\ Free(Taken(fat)) \in Nat /\ Free(Taken(fat)) <= NumBlocks
      /\ Surplus \in Nat
  BY FreeIsCounted, SurplusIs DEF OwnerInv, Typed, Superblocks
<1>3. Surplus = Free(Taken(fat)) - sb.numFree
  BY DEF Surplus
<1>4. NumBlocks \in 1 .. uint16 - 1 /\ uint16 \in Nat
  <2>1. uint16 \in Nat
    BY SMT DEF uint16
  <2> QED
    BY <2>1, FatAssumption
<1> HIDE DEF Surplus
<1>5. uint16 - 1 > sb.numFree
  BY SMT, <1>2, <1>3, <1>4
<1> QED
  BY <1>1, <1>5 DEF CountWraps, CountOf

LEMMA SameCount ==
    ASSUME UNCHANGED <<sb, fat, todo>>
    PROVE  /\ SafeInv => SafeInv'
           /\ \A n : Counted(todo, sb.numFree, n) => Counted(todo, sb.numFree, n)'
           /\ FreeCountSafe => FreeCountSafe'
<1>1. FreeCountSafe => FreeCountSafe'
  BY DEF FreeCountSafe, FreeBlocks
<1>2. \A n : Counted(todo, sb.numFree, n) => Counted(todo', sb'.numFree, n)
  OBVIOUS
<1> HIDE DEF FreeCountSafe
<1>3. SafeInv => SafeInv'
  <2> SUFFICES ASSUME SafeInv PROVE SafeInv'
    OBVIOUS
  <2>1. PICK n \in Nat : Counted(todo, sb.numFree, n)
    BY DEF SafeInv
  <2>2. Counted(todo', sb'.numFree, n)
    BY <1>2, <2>1
  <2> QED
    BY <1>1, <2>2 DEF SafeInv, Counted
<1>4. \A n : Counted(todo', sb'.numFree, n) => Counted(todo, sb.numFree, n)'
  BY DEF Counted
<1> QED
  BY <1>1, <1>2, <1>3, <1>4

LEMMA NothingCounted ==
    ASSUME NEW m \in Nat
    PROVE  Counted(<< >>, m, m)
<1>1. << >> \in Seq(Writes) /\ DOMAIN << >> = {}
  BY Short
<1> QED
  BY <1>1, CountsNothing

LEMMA CrashKeepsCount == ASSUME OwnerInv, SafeInv, Crash PROVE SafeInv'
<1>1. todo' = << >> /\ sb' = sb /\ fat' = fat
  BY DEF Crash
<1>2. FreeCountSafe'
  BY <1>1 DEF SafeInv, FreeCountSafe, FreeBlocks
<1>3. sb.numFree \in Nat
  BY DEF OwnerInv, Typed, Superblocks
<1>4. Counted(todo', sb'.numFree, sb.numFree)
  BY <1>1, <1>3, NothingCounted
<1> QED
  BY <1>2, <1>3, <1>4 DEF SafeInv, Counted

LEMMA CommandKeepsCount ==
    ASSUME OwnerInv, SafeInv, Idle, NEW path \in Paths, Command(path), ~CountWraps
    PROVE  SafeInv'
<1>1. CASE UNCHANGED <<sb, fat, todo>>
  BY <1>1, SameCount
<1>2. CASE Plans
  <2>1. sb' = sb /\ fat' = fat
    BY <1>2 DEF Plans
  <2>0. PICK U : \E s \in Superblocks : Tallies(todo', s, U)
    BY <1>2 DEF Plans, Ready
  <2>2. PICK s \in Superblocks : Tallies(todo', s, U)
    BY <2>0
  <2>3. ~(Wraps(todo') /\ Surplus # 0)
    BY SurplusWraps DEF Idle, SafeInv
  <2>4. Counted(todo', sb.numFree, s.numFree) /\ s.numFree \in Nat
    BY <2>2, <2>3 DEF Tallies, SafeInv, Superblocks
  <2>5. FreeCountSafe'
    BY <2>1 DEF SafeInv, FreeCountSafe, FreeBlocks
  <2>6. Counted(todo', sb'.numFree, s.numFree)
    BY <2>1, <2>4
  <2> QED
    BY <2>4, <2>5, <2>6 DEF SafeInv, Counted
<1> QED
  BY <1>1, <1>2, CommandPlans

LEMMA InitCount == Init => FreeCountSafe /\ sb.numFree = Free(Taken(fat)) /\ todo = << >>
<1> SUFFICES ASSUME Init PROVE FreeCountSafe /\ sb.numFree = Free(Taken(fat)) /\ todo = << >>
  OBVIOUS
<1>1. /\ sb.numFree = NumBlocks - 1 /\ todo = << >>
      /\ fat = [b \in Blocks |-> IF b = RootBlock THEN FAT_ENTRY_END ELSE FAT_ENTRY_EMPTY]
  BY DEF Init
<1>2. Taken(fat) = {} \cup {RootBlock}
  BY <1>1, Marks DEF Taken
<1>3. Free({}) = NumBlocks
  BY FreeIsCounted DEF Free
<1>4. Free({} \cup {RootBlock}) = Free({}) - 1
  BY OneMoreTaken, Marks
<1>5. sb.numFree = Free(Taken(fat))
  BY <1>1, <1>2, <1>3, <1>4
<1>6. \A n \in Nat : n <= n
  BY SMT
<1> QED
  BY <1>1, <1>5, <1>6, FreeIsCounted DEF FreeCountSafe, Free

\* As long as no command wraps the 16-bit count (an empty file, or a directory
\* that grows, does so when killed commands have left blocks that the
\* superblock does not count and the count is 0), the superblock never counts a
\* free block that the FAT has not.
THEOREM FreeCountNeverTooHigh == Spec /\ [][~CountWraps]_vars => []FreeCountSafe
<1>1. Init => SafeInv
  <2> SUFFICES ASSUME Init PROVE SafeInv
    OBVIOUS
  <2>1. sb.numFree \in Nat
    BY InitOwners DEF OwnerInv, Typed, Superblocks
  <2> QED
    BY <2>1, InitCount, NothingCounted DEF SafeInv
<1>2. OwnerInv /\ SafeInv /\ [Next]_vars /\ [~CountWraps]_vars => SafeInv'
  <2> SUFFICES ASSUME OwnerInv, SafeInv, [Next]_vars, [~CountWraps]_vars PROVE SafeInv'
    OBVIOUS
  <2>1. CASE UNCHANGED vars
    BY <2>1, SameCount DEF vars
  <2>2. CASE Write
    BY <2>2, WriteKeepsCount DEF SafeInv
  <2>3. CASE Crash
    BY <2>3, CrashKeepsCount
  <2>4. CASE Idle /\ \E path \in Paths : Command(path)
    <3>1. CASE UNCHANGED vars
      BY <3>1, SameCount DEF vars
    <3>2. CASE ~CountWraps
      BY <2>4, <3>2, CommandKeepsCount
    <3> QED
      BY <3>1, <3>2
  <2> QED
    BY <2>1, <2>2, <2>3, <2>4 DEF Next
<1>3. Init => OwnerInv
  BY InitOwners
<1>4. OwnerInv /\ [Next]_vars => OwnerInv'
  BY NextOwners
<1>5. SafeInv => FreeCountSafe
  BY DEF SafeInv
<1> QED
  BY <1>1, <1>2, <1>3, <1>4, <1>5, PTL DEF Spec

\* While nobody is killed: when the command is done, the superblock counts the
\* blocks that its FAT has not taken.
ExactInv ==
    /\ crashes = 0 /\ FreeCountSafe
    /\ \E U : Allots(todo, Taken(fat), U) /\ Counted(todo, sb.numFree, Free(U))

CountExact == todo = << >> => sb.numFree = Cardinality(FreeBlocks(fat))

LEMMA DoneIsExact ==
    ASSUME OwnerInv, ExactInv, todo = << >>
    PROVE  sb.numFree = Free(Taken(fat))
<1>1. DOMAIN todo = {}
  BY Short
<1>2. PICK U : Allots(todo, Taken(fat), U) /\ Counted(todo, sb.numFree, Free(U))
  BY DEF ExactInv
<1>3. U = Taken(fat)
  BY <1>1, <1>2 DEF Allots
<1> QED
  BY <1>1, <1>2, <1>3 DEF Counted

LEMMA ExactStep ==
    ASSUME OwnerInv, ExactInv, Next, MaxCrashes = 0
    PROVE  ExactInv'
<1>1. PICK U : Allots(todo, Taken(fat), U) /\ Counted(todo, sb.numFree, Free(U))
  BY DEF ExactInv
<1>2. CASE Write
  <2>1. FreeCountSafe' /\ Counted(todo, sb.numFree, Free(U))'
    BY <1>1, <1>2, FreeIsCounted, WriteKeepsCount DEF ExactInv
  <2>2. todo \in Seq(Writes) /\ todo # << >> /\ todo' = Tail(todo) /\ Done(Head(todo))
        /\ crashes' = crashes
    BY <1>2 DEF OwnerInv, Typed, Write
  <2>3. Taken(fat') = IF Head(todo).to = "fat" THEN Taken(Head(todo).fat) ELSE Taken(fat)
    BY <2>2 DEF Done
  <2>4. Allots(todo', Taken(fat'), U)
    BY <1>1, <2>2, <2>3, AllotsTail
  <2> QED
    BY <2>1, <2>2, <2>4 DEF ExactInv
<1>3. ~Crash
  BY SMT DEF Crash, ExactInv
<1>4. CASE Idle /\ \E path \in Paths : Command(path)
  <2>1. CASE UNCHANGED <<sb, fat, disk, crashes, todo>>
    <3>1. FreeCountSafe' /\ Counted(todo, sb.numFree, Free(U))'
      BY <1>1, <2>1, SameCount DEF ExactInv
    <3>2. Allots(todo', Taken(fat'), U)
      BY <1>1, <2>1
    <3> QED
      BY <2>1, <3>1, <3>2 DEF ExactInv
  <2>2. CASE Plans
    <3>1. sb' = sb /\ fat' = fat /\ crashes' = crashes
      BY <2>2 DEF Plans
    <3>2. PICK V : /\ Allots(todo', Taken(fat), V)
                   /\ \E s \in Superblocks : Tallies(todo', s, V)
      BY <2>2 DEF Plans, Ready
    <3>3. PICK s \in Superblocks : Tallies(todo', s, V)
      BY <3>2
    <3>4. Surplus = 0 /\ Free(V) \in Nat
      <4>1. sb.numFree = Free(Taken(fat)) /\ sb.numFree \in Nat
        BY <1>4, DoneIsExact DEF Idle, OwnerInv, Typed, Superblocks
      <4>2. sb.numFree - sb.numFree = 0
        BY SMT, <4>1
      <4> QED
        BY <4>1, <4>2, FreeIsCounted DEF Surplus
    <3>5. Counted(todo', sb.numFree, Free(V))
      <4>1. Counted(todo', sb.numFree, s.numFree) /\ s.numFree = Free(V) - 0
        BY <3>3, <3>4 DEF Tallies, ExactInv
      <4>2. Free(V) - 0 = Free(V)
        BY SMT, <3>4
      <4> QED
        BY <4>1, <4>2
    <3>6. FreeCountSafe'
      BY <3>1 DEF ExactInv, FreeCountSafe, FreeBlocks
    <3>7. Allots(todo', Taken(fat'), V) /\ Counted(todo', sb'.numFree, Free(V))
      BY <3>1, <3>2, <3>5
    <3> QED
      BY <3>1, <3>6, <3>7 DEF ExactInv
  <2> QED
    BY <1>4, <2>1, <2>2, CommandPlans
<1> QED
  BY <1>2, <1>3, <1>4 DEF Next

\* If no command is killed, the superblock counts the free blocks exactly
\* whenever no command runs, and never too many while one does: empty files,
\* full images, growing directories and refused commands included.
THEOREM FreeCountIsExact ==
    ASSUME MaxCrashes = 0
    PROVE  Spec => [](FreeCountSafe /\ CountExact)
<1>1. Init => ExactInv
  <2> SUFFICES ASSUME Init PROVE ExactInv
    OBVIOUS
  <2>1. FreeCountSafe /\ sb.numFree = Free(Taken(fat)) /\ todo = << >> /\ crashes = 0
    BY InitCount DEF Init
  <2>2. << >> \in Seq(Writes) /\ DOMAIN << >> = {} /\ Free(Taken(fat)) \in Nat
    BY Short, FreeIsCounted
  <2>3. Allots(<< >>, Taken(fat), Taken(fat))
    BY <2>2, TakesNothing
  <2>4. Counted(<< >>, Free(Taken(fat)), Free(Taken(fat)))
    BY <2>2, NothingCounted
  <2> QED
    BY <2>1, <2>3, <2>4 DEF ExactInv
<1>2. OwnerInv /\ ExactInv /\ [Next]_vars => ExactInv'
  <2> SUFFICES ASSUME OwnerInv, ExactInv, [Next]_vars PROVE ExactInv'
    OBVIOUS
  <2>1. CASE Next
    BY <2>1, ExactStep
  <2>2. CASE UNCHANGED vars
    <3>1. UNCHANGED <<sb, fat, todo, crashes>>
      BY <2>2 DEF vars
    <3>2. PICK U : Allots(todo, Taken(fat), U) /\ Counted(todo, sb.numFree, Free(U))
      BY DEF ExactInv
    <3>3. Allots(todo', Taken(fat'), U) /\ Counted(todo', sb'.numFree, Free(U))
      BY <3>1, <3>2
    <3>4. FreeCountSafe' /\ crashes' = 0
      BY <3>1, SameCount DEF ExactInv
    <3> QED
      BY <3>3, <3>4 DEF ExactInv
  <2> QED
    BY <2>1, <2>2
<1>3. Init => OwnerInv
  BY InitOwners
<1>4. OwnerInv /\ [Next]_vars => OwnerInv'
  BY NextOwners
<1>5. OwnerInv /\ ExactInv => FreeCountSafe /\ CountExact
  <2> SUFFICES ASSUME OwnerInv, ExactInv PROVE FreeCountSafe /\ CountExact
    OBVIOUS
  <2>1. todo = << >> => sb.numFree = Free(Taken(fat))
    BY DoneIsExact
  <2> QED
    BY <2>1, FreeIsCounted DEF ExactInv, CountExact, Free
<1> QED
  BY <1>1, <1>2, <1>3, <1>4, <1>5, PTL DEF Spec

-----------------------------------------------------------------------------
(* Tables that do not grow *)

\* No block leads to another one.
Flat(f) == \A b \in Blocks : f[b] \notin Blocks

At(b, k) == [block |-> b, index |-> k]
Size(b) == Len(disk[b].entries)
IsDir(s) == EntryAt(s).active /\ EntryAt(s).kind = "dir"

\* The tables that a path can lead to: the root's and its directories'.
Dirs == {RootBlock} \cup
          {EntryAt(s).first : s \in {t \in Spots : t.block = RootBlock /\ IsDir(t)}}

\* A table's entries are active up to the last one, which alone may be marked.
TableIs(b) ==
    /\ Size(b) > 0
    /\ \A k \in 1 .. Size(b) :
         /\ EntryAt(At(b, k)).active \/ EntryAt(At(b, k)).last
         /\ k < Size(b) => EntryAt(At(b, k)).active /\ ~EntryAt(At(b, k)).last

\* A walk ends within the table.
Marked(b) == EntryAt(At(b, Size(b))).last \/ Size(b) = EntriesPerBlock

\* A slot is its block and its index.
LEMMA SpotIs ==
    /\ \A s \in Spots : /\ s.block \in Places /\ s.index \in 1 .. EntriesPerBlock
                        /\ s = At(s.block, s.index)
    /\ \A b \in Places, k \in 1 .. EntriesPerBlock : At(b, k) \in Spots
    /\ \A b, k : At(b, k).block = b /\ At(b, k).index = k
    /\ \A b, c, k, l : At(b, k) = At(c, l) => b = c /\ k = l
BY DEF At, Spots

\* What a slot holds, from the entries of its block.
LEMMA SlotHolds ==
    ASSUME Typed, NEW b \in Places
    PROVE  /\ Size(b) \in 0 .. EntriesPerBlock
           /\ disk[b].entries \in Seq(Entries)
           /\ \A k : /\ k \in 1 .. Size(b) => EntryAt(At(b, k)) = disk[b].entries[k]
                     /\ k \notin 1 .. Size(b) => EntryAt(At(b, k)) = Junk
           /\ \A k \in Nat : HasEntry(At(b, k)) <=> k \in 1 .. Size(b)
<1>1. disk[b] \in Contents
  BY DEF Typed
<1>2. disk[b].entries \in Seq(Entries) /\ Len(disk[b].entries) <= EntriesPerBlock
  BY <1>1 DEF Contents
<1>3. DOMAIN disk[b].entries = 1 .. Size(b) /\ Size(b) \in Nat
  BY <1>2 DEF Size
<1>4. Size(b) \in 0 .. EntriesPerBlock
  BY SMT, <1>2, <1>3, Sizes DEF Size
<1> QED
  BY <1>2, <1>3, <1>4, SpotIs DEF EntryAt, HasEntry

\* The member of a set of numbers that none is below is its Min.
LEMMA MinIs ==
    ASSUME NEW S, S \subseteq Nat, NEW k \in S, \A j \in S : k <= j
    PROVE  Min(S) = k
<1>1. Min(S) \in S /\ Min(S) <= k
  BY MinIsLeast
<1>2. k <= Min(S)
  BY <1>1
<1>3. Min(S) \in Nat /\ k \in Nat
  BY <1>1
<1> HIDE DEF Min
<1> QED
  BY <1>1, <1>2, <1>3

\* The slots of a table of one block are those of its block, in order.
LEMMA FlatSlots ==
    ASSUME Flat(fat), NEW b \in Blocks
    PROVE  /\ Len(Slots(b)) = EntriesPerBlock
           /\ DOMAIN Slots(b) = 1 .. EntriesPerBlock
           /\ \A k \in 1 .. EntriesPerBlock : Slots(b)[k] = At(b, k)
<1> DEFINE S == {c \in 0 .. NumBlocks - 1 : Chain(b)[c] \in Blocks}
<1>1. Chain(b)[0] = b
  BY ChainIs, SMT, Sizes
<1>2. ASSUME NEW c \in 0 .. NumBlocks - 1, Chain(b)[c] \in Blocks PROVE c = 0
  <2>1. SUFFICES ASSUME c # 0 PROVE FALSE
    OBVIOUS
  <2>2. 1 \in 0 .. c /\ 1 \in 0 .. NumBlocks /\ c \in 0 .. NumBlocks /\ 1 - 1 = 0
    BY SMT, <2>1, Sizes
  <2>3. Chain(b)[1] \in Blocks
    BY <2>2, <1>2, ChainIsPrefix
  <2>4. PICK d \in 0 .. NumBlocks : d = 1
    BY <2>2
  <2>5. d # 0 /\ d - 1 = 0
    BY SMT, <2>4
  <2>6. Chain(b)[d] = After(Chain(b)[d - 1])
    BY <2>5, ChainIs
  <2>7. Chain(b)[1] = fat[b]
    BY <2>4, <2>5, <2>6, <1>1 DEF After
  <2> QED
    BY <2>3, <2>7 DEF Flat
<1>3. S = {0}
  BY <1>1, <1>2, SMT, Sizes
<1>4. ChainLength(b) = 1
  BY <1>3, FS_Singleton DEF ChainLength
<1>5. 1 * EntriesPerBlock = EntriesPerBlock /\ EntriesPerBlock \in Nat
  BY SMT, Sizes
<1>6. Slots(b) = [k \in 1 .. EntriesPerBlock |->
                    [block |-> Chain(b)[(k - 1) \div EntriesPerBlock],
                     index |-> 1 + ((k - 1) % EntriesPerBlock)]]
  BY <1>4, <1>5, Zenon DEF Slots, ChainLength
<1>7. ASSUME NEW k \in 1 .. EntriesPerBlock
      PROVE  (k - 1) \div EntriesPerBlock = 0 /\ 1 + ((k - 1) % EntriesPerBlock) = k
  <2> DEFINE e == EntriesPerBlock
  <2>1. e \in Nat \ {0} /\ k \in 1 .. e
    BY Sizes
  <2> HIDE DEF e
  <2>2. (k - 1) \div e = 0 /\ (k - 1) % e = k - 1
    BY SMT, <2>1
  <2> QED
    BY SMT, <2>1, <2>2 DEF e
<1>8. \A k \in 1 .. EntriesPerBlock : Slots(b)[k] = At(b, k)
  BY <1>1, <1>6, <1>7 DEF At
<1> QED
  BY <1>5, <1>6, <1>8

\* A walk comes to all entries of a table; where the last one is not marked it
\* goes on to the bytes behind it.
LEMMA TableWalk ==
    ASSUME Typed, Flat(fat), NEW b \in Blocks, TableIs(b)
    PROVE  /\ Len(Walk(b)) = IF Marked(b) THEN Size(b) ELSE Size(b) + 1
           /\ Walk(b) \in Seq(Walked)
           /\ \A k \in 1 .. Len(Walk(b)) : Walk(b)[k] = At(b, k) /\ k \in 1 .. EntriesPerBlock
           /\ Size(b) \in 1 .. EntriesPerBlock
<1> DEFINE n == Size(b)
           ends == {k \in DOMAIN Slots(b) : EntryAt(Slots(b)[k]) = Junk
                                           \/ EntryAt(Slots(b)[k]).last}
           Ends(k) == EntryAt(At(b, k)) = Junk \/ EntryAt(At(b, k)).last
<1>1. /\ Len(Slots(b)) = EntriesPerBlock /\ DOMAIN Slots(b) = 1 .. EntriesPerBlock
      /\ \A k \in 1 .. EntriesPerBlock : Slots(b)[k] = At(b, k)
  BY FlatSlots
<1>2. Walk(b) = IF ends = {} THEN Slots(b) ELSE SubSeq(Slots(b), 1, Min(ends))
  BY DEF Walk
<1>3. b \in Places
  BY Marks
<1>4. /\ n \in 0 .. EntriesPerBlock
      /\ \A k : k \notin 1 .. n => EntryAt(At(b, k)) = Junk
  BY <1>3, SlotHolds
<1>5. /\ n > 0
      /\ \A k \in 1 .. n : EntryAt(At(b, k)).active \/ EntryAt(At(b, k)).last
      /\ \A k \in 1 .. n : k < n => EntryAt(At(b, k)).active /\ ~EntryAt(At(b, k)).last
  BY DEF TableIs
<1>6. ~Junk.active /\ ~Junk.last
  BY DEF Junk, Indicator
<1>7. \A k : k \in ends <=> k \in 1 .. EntriesPerBlock /\ Ends(k)
  BY <1>1
<1>8. Walk(b) \in Seq(Walked) /\ Slots(b) \in Seq(Walked)
  BY WalkIsStart, SlotsAreWalked
<1>9. ends \subseteq Nat
  BY <1>1
<1>10. Marked(b) <=> EntryAt(At(b, n)).last \/ n = EntriesPerBlock
  BY DEF Marked
<1> HIDE DEF n, ends
<1>11. n \in 1 .. EntriesPerBlock /\ EntriesPerBlock \in Nat
  BY SMT, <1>4, <1>5, Sizes
<1>12. ASSUME NEW k \in 1 .. n, k < n PROVE ~Ends(k)
  <2>1. EntryAt(At(b, k)).active /\ ~EntryAt(At(b, k)).last
    BY <1>5, <1>12, Zenon
  <2>2. EntryAt(At(b, k)) # Junk
    BY <2>1, <1>6, Zenon
  <2> QED
    BY <2>1, <2>2
<1>13. Ends(n) <=> EntryAt(At(b, n)).last
  <2>1. n \in 1 .. n
    BY SMT, <1>11
  <2>2. EntryAt(At(b, n)).active \/ EntryAt(At(b, n)).last
    BY <2>1, <1>5, Zenon
  <2>3. EntryAt(At(b, n)) # Junk
    BY <2>2, <1>6, Zenon
  <2> QED
    BY <2>3
<1> HIDE DEF Ends
<1>14. ASSUME NEW m \in 1 .. EntriesPerBlock, Min(ends) = m, ends # {}
       PROVE  Len(Walk(b)) = m /\ \A k \in 1 .. m : Walk(b)[k] = At(b, k)
  <2>1. Walk(b) = SubSeq(Slots(b), 1, m)
    BY <1>2, <1>14
  <2> DEFINE s == Slots(b)
  <2>2. s \in Seq(Walked) /\ Len(s) = EntriesPerBlock
    BY <1>1, <1>8
  <2> HIDE DEF s
  <2>3. \A k \in 1 .. m : s[k] \in Walked /\ k \in 1 .. EntriesPerBlock
    BY <2>2, SMT, <1>14
  <2>4. Len(SubSeq(s, 1, m)) = m /\ \A k \in 1 .. m : SubSeq(s, 1, m)[k] = s[k]
    BY SMT, <2>2, <2>3, <1>14
  <2>5. \A k \in 1 .. m : s[k] = At(b, k)
    BY <1>1, <2>3 DEF s
  <2> QED
    BY <2>1, <2>4, <2>5 DEF s
<1>15. CASE EntryAt(At(b, n)).last
  <2>1. n \in ends
    BY <1>7, <1>11, <1>13, <1>15
  <2>2. \A j \in ends : n <= j
    <3> TAKE j \in ends
    <3>1. j \in 1 .. EntriesPerBlock /\ Ends(j)
      BY <1>7
    <3>2. j \in 1 .. n => ~(j < n)
      BY <3>1, <1>12
    <3> QED
      BY SMT, <3>1, <3>2, <1>11
  <2>3. Min(ends) = n
    BY <2>1, <2>2, <1>9, MinIs
  <2>4. Len(Walk(b)) = n /\ \A k \in 1 .. n : Walk(b)[k] = At(b, k)
    BY <2>1, <2>3, <1>11, <1>14
  <2>5. \A k \in 1 .. n : k \in 1 .. EntriesPerBlock
    BY SMT, <1>11
  <2>6. Marked(b)
    BY <1>10, <1>15
  <2> QED
    BY <2>4, <2>5, <2>6, <1>8, <1>11 DEF n
<1>16. CASE ~EntryAt(At(b, n)).last /\ n = EntriesPerBlock
  <2>1. ends = {}
    <3> SUFFICES ASSUME NEW j \in ends PROVE FALSE
      OBVIOUS
    <3>1. j \in 1 .. n /\ Ends(j)
      BY <1>7, <1>16
    <3>2. j = n
      BY SMT, <3>1, <1>12, <1>11
    <3> QED
      BY <3>1, <3>2, <1>13, <1>16
  <2>2. Walk(b) = Slots(b)
    BY <2>1, <1>2
  <2>3. Marked(b)
    BY <1>10, <1>16
  <2> QED
    BY <2>2, <2>3, <1>1, <1>8, <1>11, <1>16 DEF n
<1>17. CASE ~EntryAt(At(b, n)).last /\ n # EntriesPerBlock
  <2>1. n + 1 \in 1 .. EntriesPerBlock /\ n + 1 \notin 1 .. n
    BY SMT, <1>11, <1>17
  <2>2. n + 1 \in ends
    BY <2>1, <1>7, <1>4 DEF Ends, n
  <2>3. \A j \in ends : n + 1 <= j
    <3> TAKE j \in ends
    <3>1. j \in 1 .. EntriesPerBlock /\ Ends(j)
      BY <1>7
    <3>2. j # n
      BY <3>1, <1>13, <1>17
    <3>3. j \in 1 .. n => ~(j < n)
      BY <3>1, <1>12
    <3> QED
      BY SMT, <3>1, <3>2, <3>3, <1>11
  <2>4. Min(ends) = n + 1
    BY <2>2, <2>3, <1>9, MinIs
  <2>5. Len(Walk(b)) = n + 1 /\ \A k \in 1 .. n + 1 : Walk(b)[k] = At(b, k)
    BY <2>1, <2>2, <2>4, <1>14
  <2>6. \A k \in 1 .. n + 1 : k \in 1 .. EntriesPerBlock
    BY SMT, <1>11, <2>1
  <2>7. ~Marked(b)
    BY <1>10, <1>17
  <2> QED
    BY <2>5, <2>6, <2>7, <1>8, <1>11 DEF n
<1> QED
  BY <1>15, <1>16, <1>17

\* What search_name_in_dir finds, and what a walk lists.
LEMMA TableFound ==
    ASSUME Typed, Flat(fat), NEW b \in Blocks, TableIs(b)
    PROVE  /\ ReadsJunk(b) <=> ~Marked(b)
           /\ \A name : Found(b, name) <=>
                \E s \in Spots : s.block = b /\ EntryAt(s).active /\ EntryAt(s).name = name
           /\ \A name : Found(b, name) =>
                /\ SlotOf(b, name) \in Spots /\ SlotOf(b, name).block = b
                /\ EntryAt(SlotOf(b, name)).active /\ EntryAt(SlotOf(b, name)).name = name
           /\ Listed(b) = {s \in Spots : s.block = b /\ EntryAt(s).active}
<1> DEFINE n == Size(b)
           m == Len(Walk(b))
<1>1. /\ m = IF Marked(b) THEN n ELSE n + 1
      /\ Walk(b) \in Seq(Walked)
      /\ \A k \in 1 .. m : Walk(b)[k] = At(b, k) /\ k \in 1 .. EntriesPerBlock
      /\ n \in 1 .. EntriesPerBlock
  BY TableWalk
<1>2. b \in Places
  BY Marks
<1>3. /\ \A k : k \notin 1 .. n => EntryAt(At(b, k)) = Junk
  BY <1>2, SlotHolds
<1>4. ~Junk.active /\ ~Junk.last
  BY DEF Junk, Indicator
<1>5. /\ \A k \in 1 .. n : EntryAt(At(b, k)).active \/ EntryAt(At(b, k)).last
      /\ Marked(b) <=> EntryAt(At(b, n)).last \/ n = EntriesPerBlock
  BY DEF TableIs, Marked
<1>6. DOMAIN Walk(b) = 1 .. m
  BY <1>1
<1>7. Last(Walk(b)) = Walk(b)[m]
  BY DEF Last
<1> HIDE DEF n, m
<1>8. m \in 1 .. m /\ n \in 1 .. n /\ n + 1 \notin 1 .. n /\ \A k \in 1 .. n : k \in 1 .. m
  BY SMT, <1>1
<1>9. \A s \in Spots : s.block = b /\ EntryAt(s).active
                         => s.index \in 1 .. m /\ s.index \in 1 .. n /\ s = At(b, s.index)
  <2> TAKE s \in Spots
  <2> HAVE s.block = b /\ EntryAt(s).active
  <2>1. s = At(b, s.index)
    BY SpotIs
  <2>2. s.index \in 1 .. n
    BY <2>1, <1>3, <1>4
  <2> QED
    BY <2>1, <2>2, <1>8
<1>10. \A k \in 1 .. m : Walk(b)[k] \in Spots /\ Walk(b)[k].block = b
  BY <1>1, <1>2, SpotIs
<1>11. ReadsJunk(b) <=> ~Marked(b)
  <2>1. ReadsJunk(b) <=> EntryAt(At(b, m)) = Junk
    BY <1>1, <1>7, <1>8 DEF ReadsJunk
  <2>2. CASE Marked(b)
    <3>1. m = n
      BY <2>2, <1>1
    <3>2. EntryAt(At(b, n)).active \/ EntryAt(At(b, n)).last
      BY <1>5, <1>8, Zenon
    <3>3. EntryAt(At(b, n)) # Junk
      BY <3>2, <1>4, Zenon
    <3> QED
      BY <2>1, <2>2, <3>1, <3>3
  <2>3. CASE ~Marked(b)
    BY <2>1, <2>3, <1>8, <1>3, <1>1
  <2> QED
    BY <2>2, <2>3
<1>12. ASSUME NEW name
       PROVE  Matches(b, name) = {k \in 1 .. m : /\ EntryAt(Walk(b)[k]).active
                                                /\ EntryAt(Walk(b)[k]).name = name}
  BY <1>6 DEF Matches
<1>13. ASSUME NEW name, Found(b, name)
       PROVE  /\ SlotOf(b, name) \in Spots /\ SlotOf(b, name).block = b
              /\ EntryAt(SlotOf(b, name)).active /\ EntryAt(SlotOf(b, name)).name = name
  <2>1. Matches(b, name) # {} /\ Matches(b, name) \subseteq Nat
    BY <1>12, <1>13, SMT DEF Found
  <2>2. PICK k \in Matches(b, name) : k = Min(Matches(b, name))
    BY <2>1, MinIsLeast
  <2>3. SlotOf(b, name) = Walk(b)[k]
    BY <2>2 DEF SlotOf
  <2> QED
    BY <2>2, <2>3, <1>10, <1>12
<1>14. ASSUME NEW name, NEW s \in Spots, s.block = b, EntryAt(s).active, EntryAt(s).name = name
       PROVE  Found(b, name)
  <2>1. s.index \in 1 .. m /\ Walk(b)[s.index] = s
    BY <1>1, <1>9, <1>14
  <2> QED
    BY <2>1, <1>12, <1>14 DEF Found
<1>15. Listed(b) = {s \in Spots : s.block = b /\ EntryAt(s).active}
  <2>1. \A s : s \in ToSet(Walk(b)) <=> \E k \in 1 .. m : s = Walk(b)[k]
    BY <1>6 DEF ToSet, Range
  <2>2. ASSUME NEW s \in Listed(b) PROVE s \in Spots /\ s.block = b /\ EntryAt(s).active
    BY <2>1, <2>2, <1>10 DEF Listed
  <2>3. ASSUME NEW s \in Spots, s.block = b, EntryAt(s).active PROVE s \in Listed(b)
    <3>1. s.index \in 1 .. m /\ s = At(b, s.index)
      BY <1>9, <2>3
    <3>2. Walk(b)[s.index] = s
      BY <3>1, <1>1
    <3> QED
      BY <3>1, <3>2, <2>1, <2>3 DEF Listed
  <2> QED
    BY <2>2, <2>3
<1> QED
  BY <1>11, <1>13, <1>14, <1>15

-----------------------------------------------------------------------------
(* Where a write lands *)

\* An entry is written over another one or right behind the last one.
LEMMA EntryLands ==
    ASSUME Typed, NEW s \in Spots, NEW e \in Entries, e.active,
           s.index \in 1 .. Size(s.block) + 1,
           disk' = [disk EXCEPT ![s.block] = Changed(s.block, s.index, e)]
    PROVE  /\ \A u \in Spots : EntryAt(u)' = IF u = s THEN e ELSE EntryAt(u)
           /\ \A p \in Places :
                Size(p)' = IF p = s.block /\ s.index = Size(p) + 1 THEN s.index ELSE Size(p)
           /\ \A p \in Places : p # s.block => disk'[p] = disk[p]
<1> DEFINE b == s.block
           n == Size(b)
           es == disk[b].entries
<1>1. b \in Places /\ s = At(b, s.index) /\ s.index \in 1 .. EntriesPerBlock
  BY SpotIs
<1>2. /\ n \in 0 .. EntriesPerBlock /\ es \in Seq(Entries) /\ Len(es) = n
      /\ HasEntry(s) <=> s.index \in 1 .. n
  BY <1>1, SlotHolds DEF Size
<1>3. /\ \A p \in Places : p # b => disk'[p] = disk[p]
      /\ disk'[b] = Changed(b, s.index, e)
  BY <1>1 DEF Typed
<1>4. PICK t \in Spots :
        /\ HasEntry(s) => t = s
        /\ ~HasEntry(s) => EntryAt(s) = Junk
        /\ \A u \in Spots : EntryAt(u)' = IF u = t THEN e ELSE EntryAt(u)
  BY EntryWritten
<1>5. \A p \in Places : p # b => Size(p)' = Size(p)
  BY <1>3 DEF Size
<1>6. CASE HasEntry(s)
  <2>1. disk'[b] = TableOf([es EXCEPT ![s.index] = e])
    BY <1>3, <1>6 DEF Changed, HasEntry
  <2>2. Len([es EXCEPT ![s.index] = e]) = Len(es)
    BY <1>2, <1>6, ExceptSeq DEF HasEntry
  <2>3. Size(b)' = Size(b)
    BY <2>1, <2>2 DEF Size, TableOf
  <2>4. s.index # n + 1
    BY SMT, <1>2, <1>6
  <2> QED
    BY <1>3, <1>4, <1>5, <1>6, <2>3, <2>4
<1>7. CASE ~HasEntry(s)
  <2>1. disk'[b] = TableOf(Append(es, e))
    BY <1>3, <1>7 DEF Changed, HasEntry
  <2>2. s.index = n + 1
    <3> HIDE DEF n
    <3> QED
      BY SMT, <1>2, <1>7 DEF n
  <2>3. Len(Append(es, e)) = n + 1 /\ Append(es, e)[n + 1] = e /\ DOMAIN Append(es, e) = 1 .. n + 1
    BY <1>2, AppendProperties
  <2>4. disk'[b].entries = Append(es, e)
    BY <2>1 DEF TableOf
  <2>5. Size(b)' = n + 1
    BY <2>3, <2>4 DEF Size
  <2>6. EntryAt(s)' = e
    <3>1. n + 1 \in 1 .. n + 1
      BY SMT, <1>2
    <3>2. EntryAt(s)' = IF s.index \in DOMAIN disk'[b].entries
                        THEN disk'[b].entries[s.index] ELSE Junk
      BY DEF EntryAt
    <3> HIDE DEF n, es
    <3> QED
      BY <3>1, <3>2, <2>2, <2>3, <2>4
  <2>7. t = s
    BY JunkIs, <1>4, <1>7, <2>6
  <2> QED
    BY <1>3, <1>4, <1>5, <2>2, <2>5, <2>7
<1> QED
  BY <1>6, <1>7

\* A name is written over the one of an entry.
LEMMA NameLands ==
    ASSUME Typed, NEW s \in Spots, NEW n \in Names, EntryAt(s).active,
           disk' = [disk EXCEPT ![s.block] =
                       Changed(s.block, s.index, [EntryAt(s) EXCEPT !.name = n])]
    PROVE  /\ \A u \in Spots : EntryAt(u)' = IF u = s THEN [EntryAt(u) EXCEPT !.name = n]
                                                     ELSE EntryAt(u)
           /\ \A p \in Places : Size(p)' = Size(p)
           /\ \A p \in Places : p # s.block => disk'[p] = disk[p]
<1> DEFINE e == [EntryAt(s) EXCEPT !.name = n]
<1>1. EntryAt(s) \in Entries /\ HasEntry(s)
  BY EntryIs
<1>2. e \in Entries /\ e.active
  BY <1>1 DEF Entries
<1>3. s.block \in Places /\ s.index \in 1 .. EntriesPerBlock
  BY SpotIs
<1>4. Size(s.block) \in Nat /\ s.index \in 1 .. Size(s.block)
  BY <1>1, <1>3, SlotHolds, SpotIs
<1>5. s.index \in 1 .. Size(s.block) + 1 /\ s.index # Size(s.block) + 1
  BY SMT, <1>4
<1> HIDE DEF e
<1>6. disk' = [disk EXCEPT ![s.block] = Changed(s.block, s.index, e)]
  BY DEF e
<1>7. /\ \A u \in Spots : EntryAt(u)' = IF u = s THEN e ELSE EntryAt(u)
      /\ \A p \in Places :
           Size(p)' = IF p = s.block /\ s.index = Size(p) + 1 THEN s.index ELSE Size(p)
      /\ \A p \in Places : p # s.block => disk'[p] = disk[p]
  BY <1>2, <1>5, <1>6, EntryLands
<1> QED
  BY <1>5, <1>7 DEF e

\* A block is written: nothing else changes.
LEMMA BlockLands ==
    ASSUME Typed, NEW p \in Places, NEW c, disk' = [disk EXCEPT ![p] = c]
    PROVE  /\ disk'[p] = c /\ \A q \in Places : q # p => disk'[q] = disk[q] /\ Size(q)' = Size(q)
           /\ \A u \in Spots : u.block # p => EntryAt(u)' = EntryAt(u)
           /\ c.entries = << >> => \A u \in Spots : u.block = p => EntryAt(u)' = Junk
           /\ c.entries = <<Indicator>> => \A u \in Spots : u.block = p =>
                EntryAt(u)' = IF u.index = 1 THEN Indicator ELSE Junk
<1>1. DOMAIN disk' = Places /\ disk'[p] = c /\ \A q \in Places : q # p => disk'[q] = disk[q]
  BY DEF Typed
<1>2. \A q \in Places : q # p => Size(q)' = Size(q)
  BY <1>1 DEF Size
<1>3. \A u \in Spots : u.block # p => EntryAt(u)' = EntryAt(u)
  BY <1>1 DEF Spots, EntryAt
<1>4. \A u : u.block = p => EntryAt(u)' = IF u.index \in DOMAIN c.entries
                                           THEN c.entries[u.index] ELSE Junk
  BY <1>1 DEF EntryAt
<1>5. DOMAIN << >> = {} /\ DOMAIN <<Indicator>> = {1} /\ <<Indicator>>[1] = Indicator
  OBVIOUS
<1>6. ASSUME c.entries = << >>, NEW u \in Spots, u.block = p PROVE EntryAt(u)' = Junk
  BY <1>4, <1>5, <1>6
<1>7. ASSUME c.entries = <<Indicator>>, NEW u \in Spots, u.block = p
      PROVE  EntryAt(u)' = IF u.index = 1 THEN Indicator ELSE Junk
  BY <1>4, <1>5, <1>7
<1> QED
  BY <1>1, <1>2, <1>3, <1>6, <1>7

-----------------------------------------------------------------------------
(* The directories, and the writes that change them *)

\* mkdir and write keep to the names they are given.
Fitting(name, kind) == /\ kind = "dir" => name \in DirNames \cup {Unnamed}
                       /\ kind = "file" => name \in FileNames \cup {Unnamed}

Housed == \A s \in Spots : EntryAt(s).active =>
             /\ s.block \in Dirs /\ EntryAt(s).kind \in {"file", "dir"}
             /\ Fitting(EntryAt(s).name, EntryAt(s).kind)
Unique == \A s, t \in Spots :
             /\ EntryAt(s).active /\ EntryAt(t).active /\ s.block = t.block
             /\ EntryAt(s).name = EntryAt(t).name
             /\ EntryAt(s).name # Unnamed
             => s = t
Tables == (\A b \in Dirs : TableIs(b)) /\ Housed /\ Unique

\* An entry that is new: it gets its name by the next write.
News(w) == w.to = "entry" /\ w.entry.name = Unnamed /\ w.entry.last
Behind(s) == At(s.block, s.index + 1)

\* Each write as it fits to the image and to the set R of the writes to come.
\* An entry written again stays what it is, but for the mark of the last one:
\* that goes over to a new entry behind it.
KeepsEntry(R, w) ==
    LET e == EntryAt(w.slot)
    IN  /\ e.active /\ w.entry.active
        /\ w.entry.name = e.name /\ w.entry.kind = e.kind /\ w.entry.first = e.first
        /\ w.entry.last => e.last
        /\ e.last /\ ~w.entry.last => \E v \in R : News(v) /\ v.slot = Behind(w.slot)
AddsEntry(R, w) ==
    LET b == w.slot.block
        n == Size(b)
    IN  /\ b \in Dirs /\ w.entry.active /\ w.entry.kind \in {"file", "dir"}
        /\ \/ w.slot.index = n /\ ~EntryAt(w.slot).active
           \/ /\ w.slot.index = n + 1 /\ EntryAt(At(b, n)).active
              /\ \/ ~EntryAt(At(b, n)).last
                 \/ \E v \in R : v.to = "entry" /\ v.slot = At(b, n) /\ ~v.entry.last
        /\ w.entry.kind = "dir" =>
             /\ \A v \in R : v.to = "block" /\ v.place = w.entry.first
                               => v.content.entries = <<Indicator>>
             /\ \/ disk[w.entry.first].entries = <<Indicator>>
                \/ \E v \in R : v.to = "block" /\ v.place = w.entry.first
GivesName(R, w) ==
    /\ \/ /\ EntryAt(w.slot).active /\ EntryAt(w.slot).name = Unnamed
          /\ Fitting(w.name, EntryAt(w.slot).kind)
       \/ \E v \in R : News(v) /\ v.slot = w.slot /\ Fitting(w.name, v.entry.kind)
    /\ \A s \in Spots : EntryAt(s).active /\ s.block = w.slot.block
                          => EntryAt(s).name # w.name
PutsBlock(w) == w.place \in Blocks \ Dirs /\ w.content.entries \in {<< >>, <<Indicator>>}
Each(R, w) ==
    /\ News(w) => AddsEntry(R, w)
    /\ w.to = "entry" /\ ~News(w) => KeepsEntry(R, w)
    /\ w.to = "name" => GivesName(R, w)
    /\ w.to = "block" => PutsBlock(w)
Fine(R) == \A w \in R : Each(R, w)

\* What the order of two writes, v before w, has to be.
Before(v, w) ==
    /\ v.to = "entry" /\ w.to = "entry" => v.slot # w.slot
    /\ v.to = "name" => w.to # "name"
    /\ v.to = "name" /\ w.to = "entry" => v.slot # w.slot
    /\ v.to = "entry" /\ w.to = "name" /\ v.slot = w.slot => News(v)
    /\ News(v) => ~News(w) /\ (w.to = "entry" => Behind(w.slot) # v.slot)
    /\ News(v) /\ v.entry.kind = "dir" => w.to # "block"
Ordered(ws) == \A i, j \in DOMAIN ws : i < j => Before(ws[i], ws[j])

FlatInv == Flat(fat) /\ \A w \in ToSet(todo) : w.to = "fat" => Flat(w.fat)
TablesInv == FlatInv /\ Tables /\ Fine(ToSet(todo)) /\ Ordered(todo)

\* What is a directory: the root, or a block that an entry of the root leads to.
LEMMA DirIs ==
    /\ RootBlock \in Dirs
    /\ \A x : x \in Dirs <=> \/ x = RootBlock
                             \/ \E s \in Spots : /\ s.block = RootBlock /\ IsDir(s)
                                                 /\ x = EntryAt(s).first
BY DEF Dirs

\* A directory is a block of the FAT and has a place in the image.
LEMMA DirsAreBlocks ==
    ASSUME Typed
    PROVE  Dirs \subseteq Blocks /\ Dirs \subseteq Places
<1>1. \A s \in Spots : EntryAt(s).first \in Blocks
  BY EntryIs DEF Entries
<1> QED
  BY <1>1, Marks, DirIs

\* A new entry's block is no directory, and its slot is not in use.
NewHere(w) == w.entry.first \in Blocks \ Dirs /\ ~EntryAt(w.slot).active

\* A new entry that fits to the writes to come goes to a slot not in use.
LEMMA NewIsHere ==
    ASSUME OwnerInv, Tables, NEW w \in ToSet(todo), News(w), AddsEntry(ToSet(todo), w)
    PROVE  NewHere(w)
<1>1. w \in Writes /\ w.to = "entry" /\ \E i \in DOMAIN todo : w = todo[i]
  BY ElementOfSeq DEF OwnerInv, Typed, News, ToSet, Range
<1>2. w.slot \in Spots /\ w.entry \in Entries /\ w.entry.active
  BY <1>1, WriteIs DEF AddsEntry
<1>3. ~EntryAt(w.slot).active
  <2> DEFINE b == w.slot.block
             n == Size(b)
  <2>1. CASE w.slot.index = n + 1
    <3>1. b \in Places /\ w.slot = At(b, w.slot.index) /\ n \in Nat
      BY <1>2, SpotIs, SlotHolds DEF OwnerInv
    <3>2. w.slot.index \notin 1 .. n
      BY SMT, <2>1, <3>1
    <3>3. EntryAt(w.slot) = Junk
      BY <3>1, <3>2, SlotHolds DEF OwnerInv
    <3> QED
      BY <3>3, JunkIs
  <2> QED
    BY <2>1 DEF AddsEntry
<1>4. Puts(w)
  BY <1>1, <1>2 DEF Puts
<1>5. \A s \in Spots : EntryAt(s).active => EntryAt(s).first # w.entry.first
  BY <1>1, <1>3, <1>4 DEF OwnerInv, Fits
<1>6. w.entry.first # RootBlock
  BY <1>1, <1>4 DEF OwnerInv, Allots
<1>7. w.entry.first \notin Dirs
  BY <1>5, <1>6, DirIs DEF IsDir
<1> QED
  BY <1>2, <1>3, <1>7 DEF NewHere, Entries

\* The directories are the same as long as no entry comes or goes.
LEMMA DirsKept ==
    ASSUME \A u \in Spots : EntryAt(u)'.active <=> EntryAt(u).active,
           \A u \in Spots : EntryAt(u).active =>
              EntryAt(u)'.kind = EntryAt(u).kind /\ EntryAt(u)'.first = EntryAt(u).first
    PROVE  Dirs' = Dirs
BY DEF Dirs, IsDir

\* An entry is written again: only its slot changes.
LEMMA KeepLands ==
    ASSUME Typed, Tables, NEW R, NEW h \in Writes,
           h.to = "entry", ~News(h), Done(h), Each(R, h)
    PROVE  /\ h.slot \in Spots /\ h.slot.block \in Dirs
           /\ EntryAt(h.slot).active /\ h.entry.active
           /\ h.entry.name = EntryAt(h.slot).name /\ h.entry.kind = EntryAt(h.slot).kind
           /\ h.entry.first = EntryAt(h.slot).first
           /\ h.entry.last => EntryAt(h.slot).last
           /\ EntryAt(h.slot)' = h.entry
           /\ \A u \in Spots : u # h.slot => EntryAt(u)' = EntryAt(u)
           /\ \A p \in Places : Size(p)' = Size(p)
           /\ \A p \in Places : p # h.slot.block => disk'[p] = disk[p]
<1> DEFINE s == h.slot
           b == s.block
<1>1. s \in Spots /\ h.entry \in Entries /\ b \in Places /\ s = At(b, s.index)
  BY WriteIs, SpotIs
<1>2. KeepsEntry(R, h)
  BY DEF Each
<1>3. /\ EntryAt(s).active /\ h.entry.active
      /\ h.entry.name = EntryAt(s).name /\ h.entry.kind = EntryAt(s).kind
      /\ h.entry.first = EntryAt(s).first
      /\ h.entry.last => EntryAt(s).last
  BY <1>2 DEF KeepsEntry
<1>4. s.index \in 1 .. Size(b) /\ Size(b) \in Nat
  BY <1>1, <1>3, EntryIs, SlotHolds, SpotIs
<1>5. s.index \in 1 .. Size(b) + 1 /\ s.index # Size(b) + 1
  BY SMT, <1>4
<1>6. disk' = [disk EXCEPT ![s.block] = Changed(s.block, s.index, h.entry)]
  BY DEF Done
<1>7. /\ \A u \in Spots : EntryAt(u)' = IF u = s THEN h.entry ELSE EntryAt(u)
      /\ \A p \in Places :
           Size(p)' = IF p = s.block /\ s.index = Size(p) + 1 THEN s.index ELSE Size(p)
      /\ \A p \in Places : p # s.block => disk'[p] = disk[p]
  BY <1>1, <1>3, <1>5, <1>6, EntryLands
<1>8. \A p \in Places : Size(p)' = Size(p)
  BY <1>5, <1>7
<1>9. b \in Dirs
  BY <1>1, <1>3 DEF Tables, Housed
<1> QED
  BY <1>1, <1>3, <1>7, <1>8, <1>9

\* An entry is written again.
LEMMA KeepStep ==
    ASSUME Typed, Tables, NEW R, R \subseteq Writes, NEW h \in Writes,
           h.to = "entry", ~News(h), Done(h),
           Fine({h} \cup R), \A w \in R : Before(h, w),
           \A w \in R : News(w) => NewHere(w)
    PROVE  Tables' /\ Fine(R)' /\ Dirs' = Dirs
<1> DEFINE s == h.slot
           b == s.block
<1>1. Each({h} \cup R, h)
  BY DEF Fine
<1>3. /\ s \in Spots /\ b \in Dirs
      /\ EntryAt(s).active /\ h.entry.active
      /\ h.entry.name = EntryAt(s).name /\ h.entry.kind = EntryAt(s).kind
      /\ h.entry.first = EntryAt(s).first
      /\ h.entry.last => EntryAt(s).last
  BY <1>1, KeepLands
<1>7. /\ \A u \in Spots : EntryAt(u)' = IF u = s THEN h.entry ELSE EntryAt(u)
      /\ \A p \in Places : p # s.block => disk'[p] = disk[p]
  BY <1>1, KeepLands
<1>8. \A p \in Places : Size(p)' = Size(p)
  BY <1>1, KeepLands
<1>9. b \in Dirs
  BY <1>3
<1> HIDE DEF s, b
\* The shape of every entry is kept, the mark but once.
<1>10. \A u \in Spots : EntryAt(u)'.active <=> EntryAt(u).active
  BY <1>3, <1>7
<1>11. \A u \in Spots : /\ EntryAt(u)'.name = EntryAt(u).name
                        /\ EntryAt(u)'.kind = EntryAt(u).kind
                        /\ EntryAt(u)'.first = EntryAt(u).first
  BY <1>3, <1>7
<1>12. \A u \in Spots : /\ EntryAt(u)'.last => EntryAt(u).last
                        /\ u # s => EntryAt(u)' = EntryAt(u)
  BY <1>3, <1>7
<1>13. Dirs' = Dirs
  BY <1>10, <1>11, DirsKept
<1>14. Dirs \subseteq Blocks /\ Dirs \subseteq Places
  BY DirsAreBlocks
<1>15. ASSUME NEW d \in Dirs PROVE TableIs(d)'
  <2>1. d \in Places /\ Size(d)' = Size(d) /\ TableIs(d)
    BY <1>8, <1>14, <1>15 DEF Tables
  <2>2. Size(d) \in 1 .. EntriesPerBlock
    BY SMT, <2>1, SlotHolds DEF TableIs
  <2>3. \A k \in 1 .. Size(d) : At(d, k) \in Spots
    BY <2>1, <2>2, SpotIs, SMT, Sizes
  <2>4. ASSUME NEW k \in 1 .. Size(d)
        PROVE  /\ EntryAt(At(d, k))'.active \/ EntryAt(At(d, k))'.last
               /\ k < Size(d) => EntryAt(At(d, k))'.active /\ ~EntryAt(At(d, k))'.last
    <3>1. At(d, k) \in Spots
      BY <2>3
    <3>2. EntryAt(At(d, k)).active \/ EntryAt(At(d, k)).last
      BY <2>1 DEF TableIs
    <3>3. k < Size(d) => EntryAt(At(d, k)).active /\ ~EntryAt(At(d, k)).last
      BY <2>1 DEF TableIs
    <3>4. CASE At(d, k) = s
      BY <1>3, <3>1, <3>3, <3>4, <1>7, Zenon
    <3>5. CASE At(d, k) # s
      BY <3>2, <3>3, Zenon, <3>1, <3>5, <1>12
    <3> QED
      BY <3>4, <3>5
  <2> QED
    BY <2>1, <2>4 DEF TableIs
<1>16. Housed'
  BY <1>10, <1>11, <1>13 DEF Tables, Housed
<1>17. Unique'
  BY <1>10, <1>11 DEF Tables, Unique
<1>18. Tables'
  BY <1>13, <1>15, <1>16, <1>17 DEF Tables
<1>19. ASSUME NEW w \in R PROVE Each(R, w)'
  <2>1. Each({h} \cup R, w) /\ Before(h, w) /\ w \in Writes
    BY DEF Fine
  <2>2. ~News(h) /\ h.to = "entry" /\ h.slot = s
    BY DEF s
  <2>3. ASSUME w.to = "entry", ~News(w) PROVE KeepsEntry(R, w)'
    <3>1. KeepsEntry({h} \cup R, w) /\ w.slot \in Spots /\ w.slot # s
      BY <2>1, <2>2, <2>3, WriteIs DEF Each, Before
    <3>2. EntryAt(w.slot)' = EntryAt(w.slot)
      BY <3>1, <1>12
    <3> QED
      BY <2>2, <3>1, <3>2 DEF KeepsEntry, News
  <2>4. ASSUME News(w) PROVE AddsEntry(R, w)'
    <3> DEFINE c == w.slot.block
    <3>0. PICK n : n = Size(c)
      OBVIOUS
    <3>1. AddsEntry({h} \cup R, w) /\ w.to = "entry" /\ w.slot \in Spots /\ w.slot # s
      BY <2>1, <2>2, <2>4, WriteIs DEF Each, Before, News
    <3>2. EntryAt(w.slot)' = EntryAt(w.slot) /\ c \in Dirs
      BY <3>1, <1>12 DEF AddsEntry
    <3>3. c \in Places /\ TableIs(c) /\ Size(c)' = n
      BY <3>0, <3>2, <1>8, <1>14 DEF Tables
    <3>4. n \in 1 .. EntriesPerBlock
      BY SMT, <3>0, <3>3, SlotHolds DEF TableIs
    <3>5. At(c, n) \in Spots
      BY <3>3, <3>4, SpotIs
    <3>6. \/ w.slot.index = n /\ ~EntryAt(w.slot)'.active
          \/ /\ w.slot.index = n + 1 /\ EntryAt(At(c, n))'.active
             /\ \/ ~EntryAt(At(c, n))'.last
                \/ \E v \in R : v.to = "entry" /\ v.slot = At(c, n) /\ ~v.entry.last
      <4>1. CASE w.slot.index = n /\ ~EntryAt(w.slot).active
        BY <3>2, <4>1
      <4>2. CASE /\ w.slot.index = n + 1 /\ EntryAt(At(c, n)).active
                 /\ \/ ~EntryAt(At(c, n)).last
                    \/ \E v \in {h} \cup R :
                         v.to = "entry" /\ v.slot = At(c, n) /\ ~v.entry.last
        <5>1. EntryAt(At(c, n))'.active
          BY <4>2, <3>5, <1>10
        <5>2. CASE ~EntryAt(At(c, n)).last
          BY <4>2, <5>1, <5>2, <3>5, <1>12
        <5>3. CASE \E v \in {h} \cup R :
                     v.to = "entry" /\ v.slot = At(c, n) /\ ~v.entry.last
          <6>1. CASE h.slot = At(c, n) /\ ~h.entry.last
            BY <4>2, <5>1, <6>1, <2>2, <3>5, <1>7
          <6> QED
            BY <4>2, <5>1, <5>3, <6>1
        <5> QED
          BY <4>2, <5>2, <5>3
      <4> QED
        BY <3>0, <3>1, <4>1, <4>2 DEF AddsEntry
    <3>7. w.entry.first \in Places /\ w.entry.first # b
      BY <2>4, <1>9, Marks DEF NewHere
    <3>8. disk'[w.entry.first] = disk[w.entry.first]
      BY <3>7, <1>7 DEF b
    <3>9. w.entry.kind = "dir" =>
            /\ \A v \in R : v.to = "block" /\ v.place = w.entry.first
                              => v.content.entries = <<Indicator>>
            /\ \/ disk'[w.entry.first].entries = <<Indicator>>
               \/ \E v \in R : v.to = "block" /\ v.place = w.entry.first
      BY <2>2, <3>1, <3>8 DEF AddsEntry
    <3>10. c \in Dirs' /\ w.entry.active /\ w.entry.kind \in {"file", "dir"}
      BY <3>1, <3>2, <1>13 DEF AddsEntry
    <3> QED
      BY <3>3, <3>6, <3>9, <3>10 DEF AddsEntry
  <2>5. ASSUME w.to = "name" PROVE GivesName(R, w)'
    <3>1. GivesName({h} \cup R, w) /\ w.slot \in Spots
      BY <2>1, <2>5, WriteIs DEF Each
    <3>2. EntryAt(w.slot)'.active <=> EntryAt(w.slot).active
      BY <3>1, <1>10
    <3>3. EntryAt(w.slot)'.name = EntryAt(w.slot).name /\ EntryAt(w.slot)'.kind = EntryAt(w.slot).kind
      BY <3>1, <1>11
    <3>4. \A u \in Spots : EntryAt(u)'.active /\ u.block = w.slot.block
                             => EntryAt(u)'.name # w.name
      BY <3>1, <1>10, <1>11 DEF GivesName
    <3>5. \/ /\ EntryAt(w.slot)'.active /\ EntryAt(w.slot)'.name = Unnamed
             /\ Fitting(w.name, EntryAt(w.slot)'.kind)
          \/ \E v \in R : News(v) /\ v.slot = w.slot /\ Fitting(w.name, v.entry.kind)
      BY <3>1, <3>2, <3>3, <2>2 DEF GivesName
    <3> QED
      BY <3>4, <3>5 DEF GivesName
  <2>6. ASSUME w.to = "block" PROVE PutsBlock(w)'
    BY <2>1, <2>6, <1>13 DEF Each, PutsBlock
  <2> QED
    BY <2>3, <2>4, <2>5, <2>6 DEF Each, News
<1> QED
  BY <1>13, <1>18, <1>19 DEF Fine

\* A table has an entry in each of its places.
LEMMA DirHolds ==
    ASSUME Typed, Tables, NEW d \in Dirs
    PROVE  /\ d \in Places /\ d \in Blocks /\ TableIs(d)
           /\ Size(d) \in 1 .. EntriesPerBlock
           /\ \A k \in 1 .. Size(d) : At(d, k) \in Spots
<1>1. d \in Places /\ d \in Blocks /\ TableIs(d)
  BY DirsAreBlocks DEF Tables
<1>2. Size(d) \in 0 .. EntriesPerBlock /\ Size(d) > 0
  BY <1>1, SlotHolds DEF TableIs
<1>3. Size(d) \in 1 .. EntriesPerBlock
  BY SMT, <1>2
<1>4. \A z \in 1 .. EntriesPerBlock : \A k \in 1 .. z : k \in 1 .. EntriesPerBlock
  BY SMT, Sizes
<1> QED
  BY <1>1, <1>3, <1>4, SpotIs

\* A new entry is written, behind the others or over the one that is passive.
LEMMA NewLands ==
    ASSUME Typed, Tables, NEW R, R \subseteq Writes, NEW h \in Writes,
           News(h), Done(h), NewHere(h),
           Each({h} \cup R, h), \A w \in R : Before(h, w)
    PROVE  LET s == h.slot
               b == s.block
           IN  /\ s \in Spots /\ b \in Dirs /\ b \in Places /\ s = At(b, s.index)
               /\ h.entry.active /\ h.entry.kind \in {"file", "dir"} /\ h.entry \in Entries
               /\ ~EntryAt(s).active /\ h.entry.first \in Blocks \ Dirs
               /\ \/ s.index = Size(b)
                  \/ /\ s.index = Size(b) + 1 /\ EntryAt(At(b, Size(b))).active
                     /\ ~EntryAt(At(b, Size(b))).last
               /\ EntryAt(s)' = h.entry
               /\ \A u \in Spots : u # s => EntryAt(u)' = EntryAt(u)
               /\ Size(b)' = s.index
               /\ \A p \in Places : p # b => disk'[p] = disk[p] /\ Size(p)' = Size(p)
<1> DEFINE s == h.slot
           b == s.block
           f == h.entry.first
<1>0. h.to = "entry" /\ h.entry.name = Unnamed /\ h.entry.last
  BY DEF News
<1>1. s \in Spots /\ h.entry \in Entries /\ b \in Places /\ s = At(b, s.index)
  BY <1>0, WriteIs, SpotIs
<1>2. AddsEntry({h} \cup R, h)
  BY DEF Each
<1>3. /\ b \in Dirs /\ h.entry.active /\ h.entry.kind \in {"file", "dir"}
      /\ ~EntryAt(s).active /\ f \in Blocks \ Dirs
  BY <1>2 DEF AddsEntry, NewHere
<1>4. PICK n : n = Size(b)
  OBVIOUS
<1>5. n \in 1 .. EntriesPerBlock /\ TableIs(b) /\ \A k \in 1 .. n : At(b, k) \in Spots
  BY <1>3, <1>4, DirHolds
<1>6. \/ s.index = n
      \/ s.index = n + 1 /\ EntryAt(At(b, n)).active /\ ~EntryAt(At(b, n)).last
  <2>1. SUFFICES ASSUME s.index # n PROVE s.index = n + 1 /\ EntryAt(At(b, n)).active
                                          /\ ~EntryAt(At(b, n)).last
    OBVIOUS
  <2>2. /\ s.index = n + 1 /\ EntryAt(At(b, n)).active
        /\ \/ ~EntryAt(At(b, n)).last
           \/ \E v \in {h} \cup R : v.to = "entry" /\ v.slot = At(b, n) /\ ~v.entry.last
    BY <1>2, <1>4, <2>1 DEF AddsEntry
  <2>3. ASSUME NEW v \in R, v.to = "entry", v.slot = At(b, n) PROVE FALSE
    BY <2>3, <2>2, <1>1, SpotIs DEF Before, Behind
  <2> QED
    BY <1>0, <2>2, <2>3
<1>7. s.index \in 1 .. n + 1 /\ s.index \in Nat /\ n + 1 \notin 1 .. n /\ n # n + 1
  BY SMT, <1>5, <1>6
<1>8. disk' = [disk EXCEPT ![s.block] = Changed(s.block, s.index, h.entry)]
  BY <1>0 DEF Done
<1>9. /\ \A u \in Spots : EntryAt(u)' = IF u = s THEN h.entry ELSE EntryAt(u)
      /\ \A p \in Places :
           Size(p)' = IF p = s.block /\ s.index = Size(p) + 1 THEN s.index ELSE Size(p)
      /\ \A p \in Places : p # s.block => disk'[p] = disk[p]
  BY <1>1, <1>3, <1>4, <1>7, <1>8, EntryLands
<1>10. /\ Size(b)' = s.index
       /\ \A p \in Places : p # b => Size(p)' = Size(p)
  BY <1>1, <1>4, <1>6, <1>7, <1>9
<1> QED
  BY <1>1, <1>3, <1>4, <1>6, <1>9, <1>10

\* A new entry is written.
LEMMA NewStep ==
    ASSUME Typed, Tables, NEW R, R \subseteq Writes, NEW h \in Writes,
           Unnamed \notin Names,
           News(h), Done(h), NewHere(h),
           Fine({h} \cup R), \A w \in R : Before(h, w)
    PROVE  /\ Tables' /\ Fine(R)'
           /\ \A x : x \in Dirs' <=> \/ x \in Dirs
                                     \/ /\ h.slot.block = RootBlock /\ h.entry.kind = "dir"
                                        /\ x = h.entry.first
<1> DEFINE s == h.slot
           b == s.block
           f == h.entry.first
<1>0. h.to = "entry" /\ h.entry.name = Unnamed /\ h.entry.last
  BY DEF News
<1>2. Each({h} \cup R, h) /\ AddsEntry({h} \cup R, h)
  BY DEF Fine, Each
<1>1. s \in Spots /\ h.entry \in Entries /\ b \in Places /\ s = At(b, s.index)
  BY <1>2, NewLands
<1>3. /\ b \in Dirs /\ h.entry.active /\ h.entry.kind \in {"file", "dir"}
      /\ ~EntryAt(s).active /\ f \in Blocks \ Dirs
  BY <1>2, NewLands
<1>4. PICK n : n = Size(b)
  OBVIOUS
<1>5. n \in 1 .. EntriesPerBlock /\ TableIs(b) /\ \A k \in 1 .. n : At(b, k) \in Spots
  BY <1>3, <1>4, DirHolds
<1>6. \/ s.index = n
      \/ s.index = n + 1 /\ EntryAt(At(b, n)).active /\ ~EntryAt(At(b, n)).last
  BY <1>2, <1>4, NewLands
<1>7. s.index \in 1 .. n + 1 /\ s.index \in Nat /\ n + 1 \notin 1 .. n /\ n # n + 1
  BY SMT, <1>5, <1>6
<1>9. /\ \A u \in Spots : EntryAt(u)' = IF u = s THEN h.entry ELSE EntryAt(u)
      /\ \A p \in Places : p # b => disk'[p] = disk[p]
  BY <1>2, NewLands
<1>10. /\ Size(b)' = s.index
       /\ \A p \in Places : p # b => Size(p)' = Size(p)
  BY <1>2, NewLands
<1> HIDE DEF s, b, f
<1>11. EntryAt(s)' = h.entry /\ \A u \in Spots : u # s => EntryAt(u)' = EntryAt(u)
  BY <1>1, <1>9
<1>12. \A x : x \in Dirs' <=> x \in Dirs \/ (b = RootBlock /\ h.entry.kind = "dir" /\ x = f)
  <2>1. \A x : x \in Dirs' <=> \/ x = RootBlock
                               \/ \E u \in Spots : /\ u.block = RootBlock
                                                   /\ EntryAt(u)'.active /\ EntryAt(u)'.kind = "dir"
                                                   /\ x = EntryAt(u)'.first
    BY DEF Dirs, IsDir
  <2>2. ASSUME NEW u \in Spots, u.block = RootBlock, EntryAt(u)'.active, EntryAt(u)'.kind = "dir",
               NEW x, x = EntryAt(u)'.first
        PROVE  x \in Dirs \/ (b = RootBlock /\ h.entry.kind = "dir" /\ x = f)
    <3>1. CASE u = s
      BY <3>1, <2>2, <1>11 DEF b, f
    <3>2. CASE u # s
      BY <3>2, <2>2, <1>11, DirIs DEF IsDir
    <3> QED
      BY <3>1, <3>2
  <2>3. ASSUME NEW x \in Dirs PROVE x \in Dirs'
    <3>1. SUFFICES ASSUME x # RootBlock PROVE x \in Dirs'
      BY <2>1
    <3>2. PICK u \in Spots : u.block = RootBlock /\ IsDir(u) /\ x = EntryAt(u).first
      BY <3>1, DirIs
    <3>3. u # s
      BY <3>2, <1>3 DEF IsDir, s
    <3> QED
      BY <3>2, <3>3, <1>11, <2>1 DEF IsDir
  <2>4. b = RootBlock /\ h.entry.kind = "dir" => f \in Dirs'
    BY <1>1, <1>3, <1>11, <2>1 DEF b, f, s
  <2>5. ASSUME NEW x \in Dirs' PROVE x \in Dirs \/ (b = RootBlock /\ h.entry.kind = "dir" /\ x = f)
    <3>1. CASE x = RootBlock
      BY <3>1, DirIs
    <3>2. CASE x # RootBlock
      BY <3>2, <2>1, <2>2
    <3> QED
      BY <3>1, <3>2
  <2> QED
    BY <2>3, <2>4, <2>5
<1>13. Dirs \subseteq Places /\ Blocks \subseteq Places
  BY DirsAreBlocks, Marks
<1>14. f \in Places /\ f # b /\ disk'[f] = disk[f] /\ Size(f)' = Size(f)
  BY <1>3, <1>9, <1>10, <1>13 DEF b, f, s
\* A new directory finds its table ready.
<1>15. ASSUME h.entry.kind = "dir" PROVE disk'[f].entries = <<Indicator>>
  <2>1. \/ disk[f].entries = <<Indicator>>
        \/ \E v \in {h} \cup R : v.to = "block" /\ v.place = f
    BY <1>2, <1>15 DEF AddsEntry, f
  <2>2. \A v \in {h} \cup R : v.to # "block"
    BY <1>0, <1>15 DEF Before
  <2> QED
    BY <2>1, <2>2, <1>14
<1>16. ASSUME NEW d \in Dirs' PROVE TableIs(d)'
  <2>1. CASE d = b
    <3> DEFINE m == s.index
    <3> HIDE DEF m
    <3>1. ASSUME NEW k \in 1 .. m
          PROVE  /\ EntryAt(At(d, k))'.active \/ EntryAt(At(d, k))'.last
                 /\ k < m => EntryAt(At(d, k))'.active /\ ~EntryAt(At(d, k))'.last
      <4>1. k = m \/ (k \in 1 .. n /\ k < m)
        BY SMT, <3>1, <1>5, <1>6, <1>7 DEF m
      <4>2. CASE k = m
        <5>1. EntryAt(At(d, k))' = h.entry /\ ~(k < m)
          <6>1. ~(k < m)
            BY <4>2, SMT, <3>1
          <6>2. At(d, k) = s
            BY <4>2, <2>1, <1>1 DEF m, b, s
          <6> QED
            BY <6>1, <6>2, <1>11
        <5> QED
          BY <5>1, <1>3, Zenon
      <4>3. CASE k \in 1 .. n /\ k < m
        <5>1. At(d, k) \in Spots /\ At(d, k) # s
          <6>1. k # m
            BY SMT, <4>3, <3>1
          <6>2. At(d, k) # s
            BY <6>1, <1>1, SpotIs DEF m
          <6> QED
            BY <6>2, <4>3, <1>5, <2>1
        <5>2. EntryAt(At(d, k))' = EntryAt(At(d, k))
          BY <5>1, <1>11
        <5>3. k < n \/ (k = n /\ m = n + 1)
          BY SMT, <4>3, <1>5, <1>6 DEF m
        <5>4. CASE k < n
          <6>1. EntryAt(At(d, k)).active /\ ~EntryAt(At(d, k)).last
            BY <5>4, <4>3, <1>4, <1>5, <2>1, Zenon DEF TableIs
          <6> QED
            BY <6>1, <5>2, Zenon
        <5>5. CASE k = n /\ m = n + 1
          BY <5>2, Zenon, <5>5, <1>6, <1>7, <2>1 DEF m
        <5> QED
          BY <5>3, <5>4, <5>5
      <4> QED
        BY <4>1, <4>2, <4>3
    <3>2. Size(d)' = m /\ m > 0
      BY <2>1, <1>10, SMT, <1>5, <1>6 DEF m
    <3> QED
      BY <3>1, <3>2 DEF TableIs
  <2>2. CASE d # b /\ d \in Dirs
    <3>1. TableIs(d) /\ Size(d)' = Size(d) /\ \A k \in 1 .. Size(d) : At(d, k) \in Spots
      BY <2>2, <1>10, <1>13, DirHolds
    <3>2. \A k : At(d, k) # s
      BY <2>2, <1>1, SpotIs
    <3>3. \A k \in 1 .. Size(d) : EntryAt(At(d, k))' = EntryAt(At(d, k))
      BY <3>1, <3>2, <1>11
    <3> QED
      BY <3>1, <3>3 DEF TableIs
  <2>3. CASE d \notin Dirs
    <3>1. d = f /\ disk'[d].entries = <<Indicator>>
      BY <2>3, <1>12, <1>15
    <3>2. Len(<<Indicator>>) = 1 /\ DOMAIN <<Indicator>> = {1} /\ <<Indicator>>[1] = Indicator
      OBVIOUS
    <3>3. Size(d)' = 1
      BY <3>1, <3>2 DEF Size
    <3>4. EntryAt(At(d, 1))' = Indicator
      BY <3>1, <3>2 DEF EntryAt, At
    <3>5. Indicator.last
      BY DEF Indicator
    <3>6. 1 > 0 /\ \A k \in 1 .. 1 : k = 1 /\ ~(k < 1)
      BY SMT
    <3> QED
      BY <3>3, <3>4, <3>5, <3>6 DEF TableIs
  <2> QED
    BY <2>1, <2>2, <2>3
<1>17. Housed'
  <2> SUFFICES ASSUME NEW u \in Spots, EntryAt(u)'.active
               PROVE  /\ u.block \in Dirs' /\ EntryAt(u)'.kind \in {"file", "dir"}
                      /\ Fitting(EntryAt(u)'.name, EntryAt(u)'.kind)
    BY DEF Housed
  <2>1. CASE u = s
    BY <2>1, <1>0, <1>3, <1>11, <1>12 DEF b, Fitting
  <2>2. CASE u # s
    BY <2>2, <1>11, <1>12 DEF Tables, Housed
  <2> QED
    BY <2>1, <2>2
<1>18. Unique'
  <2> SUFFICES ASSUME NEW u \in Spots, NEW v \in Spots, EntryAt(u)'.active, EntryAt(v)'.active,
                      u.block = v.block, EntryAt(u)'.name = EntryAt(v)'.name,
                      EntryAt(u)'.name # Unnamed
               PROVE  u = v
    BY DEF Unique
  <2>1. u # s /\ v # s
    BY <1>0, <1>11
  <2> QED
    BY <2>1, <1>11 DEF Tables, Unique
<1>19. Tables'
  BY <1>16, <1>17, <1>18 DEF Tables
<1>20. ASSUME NEW w \in R PROVE Each(R, w)'
  <2>1. Each({h} \cup R, w) /\ Before(h, w) /\ w \in Writes
    BY DEF Fine
  <2>2. h.to = "entry" /\ h.slot = s /\ News(h)
    BY <1>0 DEF s
  <2>3. ASSUME w.to = "entry", ~News(w) PROVE KeepsEntry(R, w)'
    <3>1. KeepsEntry({h} \cup R, w) /\ w.slot \in Spots /\ w.slot # s /\ Behind(w.slot) # s
      BY <2>1, <2>2, <2>3, WriteIs DEF Each, Before
    <3>2. EntryAt(w.slot)' = EntryAt(w.slot)
      BY <3>1, <1>11
    <3> QED
      BY <2>2, <3>1, <3>2 DEF KeepsEntry, News
  <2>4. ~News(w)
    BY <2>1, <2>2 DEF Before
  <2>5. ASSUME w.to = "name" PROVE GivesName(R, w)'
    <3>1. GivesName({h} \cup R, w) /\ w.slot \in Spots /\ w.name \in Names
      BY <2>1, <2>5, WriteIs DEF Each
    <3>2. ASSUME NEW u \in Spots, EntryAt(u)'.active, u.block = w.slot.block
          PROVE  EntryAt(u)'.name # w.name
      <4>1. CASE u = s
        BY <4>1, <3>1, <1>0, <1>11
      <4>2. CASE u # s
        BY <4>2, <3>1, <3>2, <1>11 DEF GivesName
      <4> QED
        BY <4>1, <4>2
    <3>3. \/ /\ EntryAt(w.slot)'.active /\ EntryAt(w.slot)'.name = Unnamed
             /\ Fitting(w.name, EntryAt(w.slot)'.kind)
          \/ \E v \in R : News(v) /\ v.slot = w.slot /\ Fitting(w.name, v.entry.kind)
      <4>1. CASE /\ EntryAt(w.slot).active /\ EntryAt(w.slot).name = Unnamed
                 /\ Fitting(w.name, EntryAt(w.slot).kind)
        BY <4>1, <3>1, <1>11, <1>3 DEF s
      <4>2. CASE \E v \in {h} \cup R :
                   News(v) /\ v.slot = w.slot /\ Fitting(w.name, v.entry.kind)
        <5>1. ASSUME s = w.slot, Fitting(w.name, h.entry.kind)
              PROVE  /\ EntryAt(w.slot)'.active /\ EntryAt(w.slot)'.name = Unnamed
                     /\ Fitting(w.name, EntryAt(w.slot)'.kind)
          BY <5>1, <1>0, <1>3, <1>11
        <5> QED
          BY <4>2, <5>1, <2>2
      <4> QED
        BY <3>1, <4>1, <4>2 DEF GivesName
    <3> QED
      BY <3>2, <3>3 DEF GivesName
  <2>6. ASSUME w.to = "block" PROVE PutsBlock(w)'
    BY <2>1, <2>6, <1>12, <2>2 DEF Each, PutsBlock, Before
  <2> QED
    BY <2>3, <2>4, <2>5, <2>6 DEF Each, News
<1> QED
  BY <1>12, <1>19, <1>20 DEF Fine, b, s, f

\* A new entry gets its name: nothing else of it changes.
LEMMA NameOnlyLands ==
    ASSUME Typed, Tables, NEW R, R \subseteq Writes, NEW h \in Writes,
           h.to = "name", Done(h),
           Each({h} \cup R, h), \A w \in R : Before(h, w)
    PROVE  LET s == h.slot
               b == s.block
           IN  /\ s \in Spots /\ b \in Dirs /\ h.name \in Names
               /\ EntryAt(s).active /\ EntryAt(s).name = Unnamed /\ Fitting(h.name, EntryAt(s).kind)
               /\ EntryAt(s)' = [EntryAt(s) EXCEPT !.name = h.name] /\ EntryAt(s) \in Entries
               /\ \A u \in Spots : u # s => EntryAt(u)' = EntryAt(u)
               /\ \A p \in Places : Size(p)' = Size(p)
               /\ \A p \in Places : p # b => disk'[p] = disk[p]
               /\ \A u \in Spots : EntryAt(u).active /\ u.block = b
                                     => EntryAt(u).name # h.name
<1> DEFINE s == h.slot
           b == s.block
<1>1. s \in Spots /\ h.name \in Names /\ b \in Places
  BY WriteIs, SpotIs
<1>2. GivesName({h} \cup R, h)
  BY DEF Each
<1>3. EntryAt(s).active /\ EntryAt(s).name = Unnamed /\ Fitting(h.name, EntryAt(s).kind)
  <2>1. ASSUME NEW v \in {h} \cup R, News(v), v.slot = h.slot PROVE FALSE
    <3>1. v.to = "entry"
      BY <2>1 DEF News
    <3>2. v \in R
      BY <3>1
    <3> QED
      BY <2>1, <3>1, <3>2 DEF Before
  <2> QED
    BY <1>2, <2>1 DEF GivesName
<1>4. disk' = [disk EXCEPT ![s.block] =
                       Changed(s.block, s.index, [EntryAt(s) EXCEPT !.name = h.name])]
  BY DEF Done
<1>5. /\ \A u \in Spots : EntryAt(u)' = IF u = s THEN [EntryAt(u) EXCEPT !.name = h.name]
                                                 ELSE EntryAt(u)
      /\ \A p \in Places : Size(p)' = Size(p)
      /\ \A p \in Places : p # s.block => disk'[p] = disk[p]
  BY <1>1, <1>3, <1>4, NameLands
<1>6. EntryAt(s) \in Entries
  BY <1>1, EntryIs
<1>7. b \in Dirs /\ \A u \in Spots : EntryAt(u).active /\ u.block = b
                                       => EntryAt(u).name # h.name
  BY <1>1, <1>2, <1>3 DEF Tables, Housed, GivesName
<1> QED
  BY <1>1, <1>3, <1>5, <1>6, <1>7

\* A new entry gets its name.
LEMMA NameStep ==
    ASSUME Typed, Tables, NEW R, R \subseteq Writes, NEW h \in Writes,
           Unnamed \notin Names,
           h.to = "name", Done(h),
           Fine({h} \cup R), \A w \in R : Before(h, w),
           \A w \in R : News(w) => NewHere(w)
    PROVE  /\ Tables' /\ Fine(R)' /\ Dirs' = Dirs
           /\ EntryAt(h.slot).active /\ EntryAt(h.slot).name = Unnamed
<1> DEFINE s == h.slot
           b == s.block
<1>0. Each({h} \cup R, h)
  BY DEF Fine
<1>1. s \in Spots /\ h.name \in Names /\ b \in Dirs
  BY <1>0, NameOnlyLands
<1>3. EntryAt(s).active /\ EntryAt(s).name = Unnamed /\ Fitting(h.name, EntryAt(s).kind)
  BY <1>0, NameOnlyLands
<1>5. /\ \A u \in Spots : EntryAt(u)' = IF u = s THEN [EntryAt(u) EXCEPT !.name = h.name]
                                                 ELSE EntryAt(u)
      /\ \A p \in Places : Size(p)' = Size(p)
      /\ \A p \in Places : p # b => disk'[p] = disk[p]
  BY <1>0, NameOnlyLands
<1>6. EntryAt(s) \in Entries
  BY <1>1, EntryIs
<1>7. b \in Dirs /\ \A u \in Spots : EntryAt(u).active /\ u.block = b
                                       => EntryAt(u).name # h.name
  BY <1>0, NameOnlyLands
<1> HIDE DEF s, b
<1>8. \A u \in Spots : u # s => EntryAt(u)' = EntryAt(u)
  BY <1>5
<1>9. /\ EntryAt(s)'.active /\ EntryAt(s)'.name = h.name
      /\ EntryAt(s)'.kind = EntryAt(s).kind /\ EntryAt(s)'.first = EntryAt(s).first
      /\ EntryAt(s)'.last = EntryAt(s).last
  BY <1>1, <1>3, <1>5, <1>6 DEF Entries
<1>10. \A u \in Spots : EntryAt(u)'.active <=> EntryAt(u).active
  BY <1>3, <1>8, <1>9
<1>11. \A u \in Spots : /\ EntryAt(u)'.kind = EntryAt(u).kind
                        /\ EntryAt(u)'.first = EntryAt(u).first
  BY <1>8, <1>9
<1>12. \A u \in Spots : EntryAt(u)'.last = EntryAt(u).last
  BY <1>8, <1>9
<1>13. Dirs' = Dirs
  BY <1>10, <1>11, DirsKept
<1>14. ASSUME NEW d \in Dirs PROVE TableIs(d)'
  <2>1. TableIs(d) /\ Size(d)' = Size(d) /\ \A k \in 1 .. Size(d) : At(d, k) \in Spots
    BY <1>5, DirHolds
  <2>2. \A k \in 1 .. Size(d) : /\ EntryAt(At(d, k))'.active <=> EntryAt(At(d, k)).active
                                /\ EntryAt(At(d, k))'.last = EntryAt(At(d, k)).last
    BY <2>1, <1>10, <1>12
  <2>3. /\ Size(d) > 0
        /\ \A k \in 1 .. Size(d) : EntryAt(At(d, k)).active \/ EntryAt(At(d, k)).last
        /\ \A k \in 1 .. Size(d) :
             k < Size(d) => EntryAt(At(d, k)).active /\ ~EntryAt(At(d, k)).last
    BY <2>1 DEF TableIs
  <2>4. \A k \in 1 .. Size(d) : EntryAt(At(d, k))'.active \/ EntryAt(At(d, k))'.last
    BY <2>2, <2>3, Zenon
  <2>5. \A k \in 1 .. Size(d) :
           k < Size(d) => EntryAt(At(d, k))'.active /\ ~EntryAt(At(d, k))'.last
    BY <2>2, <2>3, Zenon
  <2> QED
    BY <2>1, <2>3, <2>4, <2>5 DEF TableIs
<1>15. Housed'
  <2> SUFFICES ASSUME NEW u \in Spots, EntryAt(u)'.active
               PROVE  /\ u.block \in Dirs /\ EntryAt(u)'.kind \in {"file", "dir"}
                      /\ Fitting(EntryAt(u)'.name, EntryAt(u)'.kind)
    BY <1>13 DEF Housed
  <2>1. CASE u = s
    BY <2>1, <1>1, <1>3, <1>9, <1>7 DEF Tables, Housed, b
  <2>2. CASE u # s
    BY <2>2, <1>8 DEF Tables, Housed
  <2> QED
    BY <2>1, <2>2
<1>16. Unique'
  <2> SUFFICES ASSUME NEW u \in Spots, NEW v \in Spots, EntryAt(u)'.active, EntryAt(v)'.active,
                      u.block = v.block, EntryAt(u)'.name = EntryAt(v)'.name,
                      EntryAt(u)'.name # Unnamed, u # v
               PROVE  FALSE
    BY DEF Unique
  <2>1. CASE u = s
    BY <2>1, <1>7, <1>8, <1>9 DEF b
  <2>2. CASE v = s
    BY <2>2, <1>7, <1>8, <1>9 DEF b
  <2>3. CASE u # s /\ v # s
    BY <2>3, <1>8 DEF Tables, Unique
  <2> QED
    BY <2>1, <2>2, <2>3
<1>17. Tables'
  BY <1>13, <1>14, <1>15, <1>16 DEF Tables
<1>18. ASSUME NEW w \in R PROVE Each(R, w)'
  <2>1. Each({h} \cup R, w) /\ Before(h, w) /\ w \in Writes
    BY DEF Fine
  <2>2. h.to = "name" /\ h.slot = s /\ ~News(h)
    BY DEF s, News
  <2>3. ASSUME w.to = "entry", ~News(w) PROVE KeepsEntry(R, w)'
    <3>1. KeepsEntry({h} \cup R, w) /\ w.slot \in Spots /\ w.slot # s
      BY <2>1, <2>2, <2>3, WriteIs DEF Each, Before
    <3>2. EntryAt(w.slot)' = EntryAt(w.slot)
      BY <3>1, <1>8
    <3> QED
      BY <2>2, <3>1, <3>2 DEF KeepsEntry, News
  <2>4. ASSUME News(w) PROVE AddsEntry(R, w)'
    <3> DEFINE c == w.slot.block
    <3>0. PICK n : n = Size(c)
      OBVIOUS
    <3>1. AddsEntry({h} \cup R, w) /\ w.to = "entry" /\ w.slot \in Spots /\ w.slot # s
      BY <2>1, <2>2, <2>4, WriteIs DEF Each, Before, News
    <3>2. EntryAt(w.slot)' = EntryAt(w.slot) /\ c \in Dirs
      BY <3>1, <1>8 DEF AddsEntry
    <3>3. c \in Places /\ Size(c)' = n /\ n \in 1 .. EntriesPerBlock /\ At(c, n) \in Spots
      BY <3>0, <3>2, <1>5, DirHolds, SMT
    <3>4. /\ EntryAt(At(c, n))'.active <=> EntryAt(At(c, n)).active
          /\ EntryAt(At(c, n))'.last = EntryAt(At(c, n)).last
      BY <3>3, <1>10, <1>12
    <3>5. \/ w.slot.index = n /\ ~EntryAt(w.slot)'.active
          \/ /\ w.slot.index = n + 1 /\ EntryAt(At(c, n))'.active
             /\ \/ ~EntryAt(At(c, n))'.last
                \/ \E v \in R : v.to = "entry" /\ v.slot = At(c, n) /\ ~v.entry.last
      BY <2>2, <3>2, <3>4, <3>0, <3>1 DEF AddsEntry
    <3>6. w.entry.first \in Places /\ w.entry.first # b
      BY <2>4, <1>7, Marks DEF NewHere
    <3>7. disk'[w.entry.first] = disk[w.entry.first]
      BY <3>6, <1>5 DEF b
    <3>8. w.entry.kind = "dir" =>
            /\ \A v \in R : v.to = "block" /\ v.place = w.entry.first
                              => v.content.entries = <<Indicator>>
            /\ \/ disk'[w.entry.first].entries = <<Indicator>>
               \/ \E v \in R : v.to = "block" /\ v.place = w.entry.first
      BY <2>2, <3>1, <3>7 DEF AddsEntry
    <3>9. c \in Dirs' /\ w.entry.active /\ w.entry.kind \in {"file", "dir"}
      BY <3>1, <3>2, <1>13 DEF AddsEntry
    <3> QED
      BY <3>3, <3>5, <3>8, <3>9 DEF AddsEntry
  <2>5. w.to # "name"
    BY <2>1, <2>2 DEF Before
  <2>6. ASSUME w.to = "block" PROVE PutsBlock(w)'
    BY <2>1, <2>6, <1>13 DEF Each, PutsBlock
  <2> QED
    BY <2>3, <2>4, <2>5, <2>6 DEF Each, News
<1> QED
  BY <1>3, <1>13, <1>17, <1>18 DEF Fine, s

\* A block that is no directory is written.
LEMMA BlockStep ==
    ASSUME Typed, Tables, NEW R, R \subseteq Writes, NEW h \in Writes,
           h.to = "block", Done(h), Fine({h} \cup R),
           \A w \in R : News(w) => NewHere(w)
    PROVE  /\ Tables' /\ Fine(R)' /\ Dirs' = Dirs
           /\ \A u \in Spots : /\ EntryAt(u).active => EntryAt(u)' = EntryAt(u)
                               /\ EntryAt(u)'.active => EntryAt(u).active
<1> DEFINE p == h.place
<1>1. p \in Places /\ p \in Blocks \ Dirs /\ h.content.entries \in {<< >>, <<Indicator>>}
  BY WriteIs DEF Fine, Each, PutsBlock
<1>2. disk' = [disk EXCEPT ![p] = h.content]
  BY DEF Done
<1>3. /\ disk'[p] = h.content
      /\ \A q \in Places : q # p => disk'[q] = disk[q] /\ Size(q)' = Size(q)
      /\ \A u \in Spots : u.block # p => EntryAt(u)' = EntryAt(u)
  BY <1>1, <1>2, BlockLands
<1>4. \A u \in Spots : u.block = p => ~EntryAt(u)'.active
  <2>1. CASE h.content.entries = << >>
    <3>1. \A u \in Spots : u.block = p => EntryAt(u)' = Junk
      BY <2>1, <1>1, <1>2, BlockLands
    <3> QED
      BY <3>1, JunkIs
  <2>2. CASE h.content.entries = <<Indicator>>
    <3>1. \A u \in Spots : u.block = p => EntryAt(u)' = IF u.index = 1 THEN Indicator ELSE Junk
      BY <2>2, <1>1, <1>2, BlockLands
    <3> QED
      BY <3>1, JunkIs
  <2> QED
    BY <1>1, <2>1, <2>2
<1> HIDE DEF p
<1>5. \A u \in Spots : EntryAt(u).active => u.block # p
  BY <1>1 DEF Tables, Housed
<1>6. \A u \in Spots : /\ EntryAt(u).active => EntryAt(u)' = EntryAt(u)
                       /\ EntryAt(u)'.active => EntryAt(u).active
  BY <1>3, <1>4, <1>5
<1>7. \A u \in Spots : EntryAt(u)'.active <=> EntryAt(u).active
  BY <1>6
<1>8. Dirs' = Dirs
  BY <1>6, <1>7, DirsKept
<1>9. \A d \in Dirs : \A k : At(d, k).block # p
  BY <1>1, SpotIs
<1>10. ASSUME NEW d \in Dirs PROVE TableIs(d)'
  <2>1. /\ TableIs(d) /\ Size(d)' = Size(d) /\ \A k \in 1 .. Size(d) : At(d, k) \in Spots
    BY <1>1, <1>3, DirHolds
  <2>2. \A k \in 1 .. Size(d) : EntryAt(At(d, k))' = EntryAt(At(d, k))
    BY <2>1, <1>3, <1>9
  <2> QED
    BY <2>1, <2>2 DEF TableIs
<1>11. Housed'
  <2> SUFFICES ASSUME NEW u \in Spots, EntryAt(u)'.active
               PROVE  /\ u.block \in Dirs /\ EntryAt(u)'.kind \in {"file", "dir"}
                      /\ Fitting(EntryAt(u)'.name, EntryAt(u)'.kind)
    BY <1>8 DEF Housed
  <2>1. EntryAt(u).active /\ EntryAt(u)' = EntryAt(u)
    BY <1>6
  <2> QED
    BY <2>1 DEF Tables, Housed
<1>12. Unique'
  <2> SUFFICES ASSUME NEW u \in Spots, NEW v \in Spots, EntryAt(u)'.active, EntryAt(v)'.active,
                      u.block = v.block, EntryAt(u)'.name = EntryAt(v)'.name,
                      EntryAt(u)'.name # Unnamed
               PROVE  u = v
    BY DEF Unique
  <2>1. /\ EntryAt(u).active /\ EntryAt(u)' = EntryAt(u)
        /\ EntryAt(v).active /\ EntryAt(v)' = EntryAt(v)
    BY <1>6
  <2> QED
    BY <2>1 DEF Tables, Unique
<1>13. Tables'
  BY <1>8, <1>10, <1>11, <1>12 DEF Tables
<1>14. ASSUME NEW w \in R PROVE Each(R, w)'
  <2>1. Each({h} \cup R, w) /\ w \in Writes
    BY DEF Fine
  <2>2. h.to = "block" /\ h.place = p /\ ~News(h)
    BY DEF p, News
  <2>3. ASSUME w.to = "entry", ~News(w) PROVE KeepsEntry(R, w)'
    <3>1. KeepsEntry({h} \cup R, w) /\ w.slot \in Spots
      BY <2>1, <2>2, <2>3, WriteIs DEF Each
    <3>2. EntryAt(w.slot)' = EntryAt(w.slot)
      BY <3>1, <1>6 DEF KeepsEntry
    <3> QED
      BY <2>2, <3>1, <3>2 DEF KeepsEntry, News
  <2>4. ASSUME News(w) PROVE AddsEntry(R, w)'
    <3> DEFINE c == w.slot.block
    <3>0. PICK n : n = Size(c)
      OBVIOUS
    <3>1. AddsEntry({h} \cup R, w) /\ w.to = "entry" /\ w.slot \in Spots
      BY <2>1, <2>2, <2>4, WriteIs DEF Each, News
    <3>2. c \in Dirs /\ c # p /\ EntryAt(w.slot)' = EntryAt(w.slot)
      BY <3>1, <1>1, <1>3 DEF AddsEntry
    <3>3. c \in Places /\ Size(c)' = n /\ n \in 1 .. EntriesPerBlock /\ At(c, n) \in Spots
      BY <3>0, <3>2, <1>3, DirHolds, SMT
    <3>4. EntryAt(At(c, n))' = EntryAt(At(c, n))
      BY <3>2, <3>3, <1>3, <1>9
    <3>5. \/ w.slot.index = n /\ ~EntryAt(w.slot)'.active
          \/ /\ w.slot.index = n + 1 /\ EntryAt(At(c, n))'.active
             /\ \/ ~EntryAt(At(c, n))'.last
                \/ \E v \in R : v.to = "entry" /\ v.slot = At(c, n) /\ ~v.entry.last
      BY <2>2, <3>2, <3>4, <3>0, <3>1 DEF AddsEntry
    <3>6. w.entry.first \in Places
      BY <2>4, Marks DEF NewHere
    <3>7. w.entry.kind = "dir" =>
            /\ \A v \in R : v.to = "block" /\ v.place = w.entry.first
                              => v.content.entries = <<Indicator>>
            /\ \/ disk'[w.entry.first].entries = <<Indicator>>
               \/ \E v \in R : v.to = "block" /\ v.place = w.entry.first
      <4> SUFFICES ASSUME w.entry.kind = "dir"
                   PROVE  \/ disk'[w.entry.first].entries = <<Indicator>>
                          \/ \E v \in R : v.to = "block" /\ v.place = w.entry.first
        BY <3>1 DEF AddsEntry
      <4>1. /\ \A v \in {h} \cup R : v.to = "block" /\ v.place = w.entry.first
                              => v.content.entries = <<Indicator>>
            /\ \/ disk[w.entry.first].entries = <<Indicator>>
               \/ \E v \in {h} \cup R : v.to = "block" /\ v.place = w.entry.first
        BY <3>1 DEF AddsEntry
      <4>2. CASE p = w.entry.first
        BY <4>1, <4>2, <1>3, <2>2
      <4>3. CASE p # w.entry.first
        BY <4>1, <4>3, <1>3, <2>2, <3>6
      <4> QED
        BY <4>2, <4>3
    <3>8. c \in Dirs' /\ w.entry.active /\ w.entry.kind \in {"file", "dir"}
      BY <3>1, <3>2, <1>8 DEF AddsEntry
    <3> QED
      BY <3>3, <3>5, <3>7, <3>8 DEF AddsEntry
  <2>5. ASSUME w.to = "name" PROVE GivesName(R, w)'
    <3>1. GivesName({h} \cup R, w) /\ w.slot \in Spots
      BY <2>1, <2>5, WriteIs DEF Each
    <3>2. \A u \in Spots : EntryAt(u)'.active /\ u.block = w.slot.block
                             => EntryAt(u)'.name # w.name
      BY <3>1, <1>6 DEF GivesName
    <3>3. \/ /\ EntryAt(w.slot)'.active /\ EntryAt(w.slot)'.name = Unnamed
             /\ Fitting(w.name, EntryAt(w.slot)'.kind)
          \/ \E v \in R : News(v) /\ v.slot = w.slot /\ Fitting(w.name, v.entry.kind)
      BY <3>1, <1>6, <2>2 DEF GivesName
    <3> QED
      BY <3>2, <3>3 DEF GivesName
  <2>6. ASSUME w.to = "block" PROVE PutsBlock(w)'
    BY <2>1, <2>6, <1>8 DEF Each, PutsBlock
  <2> QED
    BY <2>3, <2>4, <2>5, <2>6 DEF Each, News
<1> QED
  BY <1>6, <1>8, <1>13, <1>14 DEF Fine

\* A plan is its first write and the rest, in which no write comes too early.
LEMMA TailSet ==
    ASSUME NEW S, NEW q \in Seq(S), q # << >>
    PROVE  /\ Head(q) \in S /\ ToSet(q) \subseteq S
           /\ ToSet(q) = {Head(q)} \cup ToSet(Tail(q))
           /\ Ordered(q) => /\ Ordered(Tail(q))
                            /\ \A w \in ToSet(Tail(q)) : Before(Head(q), w)
<1> DEFINE t == Tail(q)
<1>1. /\ t \in Seq(S) /\ 1 \in DOMAIN q /\ Head(q) = q[1]
      /\ \A i \in DOMAIN t : i \in Nat /\ i + 1 \in DOMAIN q /\ 1 < i + 1 /\ t[i] = q[i + 1]
      /\ \A i \in DOMAIN q : i \in Nat /\ (i = 1 \/ (i - 1 \in DOMAIN t /\ t[i - 1] = q[i]))
  BY TailAt
<1>2. \A i \in DOMAIN q : q[i] \in S
  BY ElementOfSeq
<1> HIDE DEF t
<1>3. ToSet(q) = {q[i] : i \in DOMAIN q} /\ ToSet(t) = {t[i] : i \in DOMAIN t}
  BY DEF ToSet, Range
<1>4. ToSet(q) = {Head(q)} \cup ToSet(t)
  BY <1>1, <1>3
<1>5. ASSUME Ordered(q) PROVE Ordered(t) /\ \A w \in ToSet(t) : Before(Head(q), w)
  <2>1. ASSUME NEW i \in DOMAIN t, NEW j \in DOMAIN t, i < j PROVE Before(t[i], t[j])
    <3>1. i + 1 < j + 1
      BY SMT, <1>1, <2>1
    <3> QED
      BY <1>1, <1>5, <3>1 DEF Ordered
  <2>2. ASSUME NEW i \in DOMAIN t PROVE Before(Head(q), t[i])
    BY <1>1, <1>5 DEF Ordered
  <2> QED
    BY <1>3, <2>1, <2>2 DEF Ordered
<1> QED
  BY <1>1, <1>2, <1>3, <1>4, <1>5 DEF t

\* The superblock or the FAT is written.
LEMMA StillStep ==
    ASSUME NEW R, NEW h, h.to \in {"sb", "fat"}, Done(h), Fine({h} \cup R)
    PROVE  /\ Tables => Tables'
           /\ Fine(R)' /\ Dirs' = Dirs /\ disk' = disk
<1>1. disk' = disk
  BY DEF Done
<1>2. \A u : EntryAt(u)' = EntryAt(u)
  BY <1>1 DEF EntryAt
<1>3. \A p : Size(p)' = Size(p)
  BY <1>1 DEF Size
<1>4. Dirs' = Dirs
  BY <1>2 DEF Dirs, IsDir
<1>5. Tables => Tables'
  BY <1>2, <1>3, <1>4 DEF Tables, TableIs, Housed, Unique
<1>6. ASSUME NEW w \in R PROVE Each(R, w)'
  <2>1. Each({h} \cup R, w) /\ h.to # "entry" /\ h.to # "block" /\ ~News(h)
    BY DEF Fine, News
  <2>2. ASSUME w.to = "entry", ~News(w) PROVE KeepsEntry(R, w)'
    BY <1>2, <2>1, <2>2 DEF Each, KeepsEntry, News
  <2>3. ASSUME News(w) PROVE AddsEntry(R, w)'
    BY <1>1, <1>2, <1>3, <1>4, <2>1, <2>3 DEF AddsEntry, Each
  <2>4. ASSUME w.to = "name" PROVE GivesName(R, w)'
    BY <1>2, <2>1, <2>4 DEF GivesName, Each
  <2>5. ASSUME w.to = "block" PROVE PutsBlock(w)'
    BY <1>4, <2>1, <2>5 DEF Each, PutsBlock
  <2> QED
    BY <2>2, <2>3, <2>4, <2>5 DEF Each, News
<1> QED
  BY <1>1, <1>4, <1>5, <1>6 DEF Fine

\* All new entries still to be written go to slots not in use.
LEMMA NewsAreHere ==
    ASSUME OwnerInv, TablesInv
    PROVE  \A w \in ToSet(todo) : News(w) => NewHere(w)
BY NewIsHere DEF TablesInv, Fine, Each

\* The tables after the next write.
LEMMA WriteKeepsTables ==
    ASSUME OwnerInv, TablesInv, Write, Unnamed \notin Names
    PROVE  TablesInv'
<1>1. PICK h, R : /\ h = Head(todo) /\ R = ToSet(Tail(todo))
                  /\ h \in Writes /\ R \subseteq Writes /\ ToSet(todo) = {h} \cup R
                  /\ Ordered(Tail(todo)) /\ \A w \in R : Before(h, w)
  BY TailSet DEF OwnerInv, Typed, Write, TablesInv
<1>2. Done(h) /\ todo' = Tail(todo) /\ ToSet(todo') = R
  BY <1>1 DEF Write
<1>3. Fine({h} \cup R) /\ Tables /\ Typed
  BY <1>1 DEF TablesInv, OwnerInv
<1>4. \A w \in {h} \cup R : News(w) => NewHere(w)
  BY <1>1, NewsAreHere
<1>5. Tables' /\ Fine(R)'
  <2>1. CASE h.to \in {"sb", "fat"}
    BY <2>1, <1>2, <1>3, StillStep
  <2>2. CASE h.to = "entry" /\ ~News(h)
    BY <2>2, <1>1, <1>2, <1>3, <1>4, KeepStep
  <2>3. CASE News(h)
    BY <2>3, <1>1, <1>2, <1>3, <1>4, NewStep
  <2>4. CASE h.to = "name"
    BY <2>4, <1>1, <1>2, <1>3, <1>4, NameStep
  <2>5. CASE h.to = "block"
    BY <2>5, <1>1, <1>2, <1>3, <1>4, BlockStep
  <2> QED
    BY <2>1, <2>2, <2>3, <2>4, <2>5, <1>1, WriteIs
<1>6. FlatInv'
  <2>1. Flat(fat)'
    BY <1>1, <1>2 DEF Done, TablesInv, FlatInv, Flat
  <2>2. \A w \in R : w.to = "fat" => Flat(w.fat)
    BY <1>1 DEF TablesInv, FlatInv
  <2> QED
    BY <2>1, <2>2, <1>2 DEF FlatInv
<1>7. Fine(ToSet(todo))'
  BY <1>2, <1>5 DEF Fine
<1>8. Ordered(todo)'
  BY <1>1, <1>2
<1> QED
  BY <1>5, <1>6, <1>7, <1>8 DEF TablesInv

\* With nothing left to write all is fine.
LEMMA NothingIsFine == Fine(ToSet(<< >>)) /\ Ordered(<< >>) /\ ToSet(<< >>) = {}
BY DEF Fine, Ordered, ToSet, Range

\* What depends only on the image stays as long as the image does.
LEMMA SameTables ==
    ASSUME UNCHANGED <<fat, disk>>
    PROVE  /\ Flat(fat) => Flat(fat)'
           /\ Tables => Tables'
           /\ Dirs' = Dirs
           /\ \A R : Fine(R) => Fine(R)'
           /\ \A u : EntryAt(u)' = EntryAt(u)
           /\ \A p : Size(p)' = Size(p)
<1>1. \A u : EntryAt(u)' = EntryAt(u)
  BY DEF EntryAt
<1>2. \A p : Size(p)' = Size(p)
  BY DEF Size
<1>3. Dirs' = Dirs
  BY <1>1 DEF Dirs, IsDir
<1>4. Tables => Tables'
  BY <1>1, <1>2, <1>3 DEF Tables, TableIs, Housed, Unique
<1>5. ASSUME NEW R, Fine(R), NEW w \in R PROVE Each(R, w)'
  <2>1. KeepsEntry(R, w) => KeepsEntry(R, w)'
    BY <1>1 DEF KeepsEntry
  <2>2. AddsEntry(R, w) => AddsEntry(R, w)'
    BY <1>1, <1>2, <1>3 DEF AddsEntry
  <2>3. GivesName(R, w) => GivesName(R, w)'
    BY <1>1 DEF GivesName
  <2>4. PutsBlock(w) => PutsBlock(w)'
    BY <1>3 DEF PutsBlock
  <2>5. Each(R, w)
    BY <1>5 DEF Fine
  <2> QED
    BY <2>1, <2>2, <2>3, <2>4, <2>5 DEF Each
<1> QED
  BY <1>1, <1>2, <1>3, <1>4, <1>5 DEF Fine, Flat

\* The image as it is created: one table, its only entry marked last.
LEMMA InitTables ==
    ASSUME Init
    PROVE  TablesInv /\ \A b \in Dirs : Marked(b)
<1>1. todo = << >> /\ fat = [b \in Blocks |->
                               IF b = RootBlock THEN FAT_ENTRY_END ELSE FAT_ENTRY_EMPTY]
  BY DEF Init
<1>2. FlatInv
  BY <1>1, Marks, NothingIsFine DEF FlatInv, Flat
<1>3. ASSUME NEW u \in Spots
      PROVE  EntryAt(u) = IF u = At(RootBlock, 1) THEN Indicator ELSE Junk
  <2>1. disk = [p \in Places |-> IF p = RootBlock THEN TableOf(<<Indicator>>) ELSE Zeroed]
    BY DEF Init
  <2>2. u.block \in Places /\ u = At(u.block, u.index)
    BY SpotIs
  <2>3. CASE u.block = RootBlock
    <3>1. disk[u.block].entries = <<Indicator>>
      BY <2>1, <2>2, <2>3 DEF TableOf
    <3>2. DOMAIN <<Indicator>> = {1} /\ <<Indicator>>[1] = Indicator
      OBVIOUS
    <3>3. u = At(RootBlock, 1) <=> u.index = 1
      BY <2>2, <2>3, SpotIs
    <3> QED
      BY <3>1, <3>2, <3>3 DEF EntryAt
  <2>4. CASE u.block # RootBlock
    <3>1. disk[u.block].entries = << >> /\ DOMAIN << >> = {}
      BY <2>1, <2>2, <2>4 DEF Zeroed
    <3>2. u # At(RootBlock, 1)
      BY <2>4, SpotIs
    <3> QED
      BY <3>1, <3>2 DEF EntryAt
  <2> QED
    BY <2>3, <2>4
<1>4. \A u \in Spots : ~EntryAt(u).active
  BY <1>3, JunkIs
<1>5. Dirs = {RootBlock}
  BY <1>4 DEF Dirs, IsDir
<1>6. Size(RootBlock) = 1
  <2>1. disk[RootBlock].entries = <<Indicator>>
    BY Marks DEF Init, TableOf
  <2>2. Len(<<Indicator>>) = 1
    OBVIOUS
  <2> QED
    BY <2>1, <2>2 DEF Size
<1>7. EntryAt(At(RootBlock, 1)).last
  <2>1. 1 \in 1 .. EntriesPerBlock
    BY SMT, Sizes
  <2>2. At(RootBlock, 1) \in Spots
    BY <2>1, Marks, SpotIs
  <2>3. Indicator.last
    BY DEF Indicator
  <2> QED
    BY <2>2, <2>3, <1>3
<1>8. 1 > 0 /\ \A k \in 1 .. 1 : k = 1 /\ ~(k < 1)
  BY SMT
<1>9. TableIs(RootBlock)
  BY <1>6, <1>7, <1>8 DEF TableIs
<1>10. Tables
  BY <1>4, <1>5, <1>9 DEF Tables, Housed, Unique
<1> QED
  BY <1>1, <1>2, <1>5, <1>6, <1>7, <1>10, NothingIsFine DEF TablesInv, Marked

\* A table whose last entry is not marked is about to get a new one.
Ends(R, b) == Marked(b) \/ \E w \in R : News(w) /\ w.slot = At(b, Size(b) + 1)
MarksInv == \A b \in Dirs : Ends(ToSet(todo), b)

\* A write leaves no table without an end, or the write of the mark is to come.
LEMMA WriteKeepsMarks ==
    ASSUME OwnerInv, TablesInv, MarksInv, Write, Unnamed \notin Names
    PROVE  MarksInv'
<1>1. PICK h, R : /\ h = Head(todo) /\ R = ToSet(Tail(todo))
                  /\ h \in Writes /\ R \subseteq Writes /\ ToSet(todo) = {h} \cup R
                  /\ Ordered(Tail(todo)) /\ \A w \in R : Before(h, w)
  BY TailSet DEF OwnerInv, Typed, Write, TablesInv
<1>2. Done(h) /\ todo' = Tail(todo) /\ ToSet(todo') = R
  BY <1>1 DEF Write
<1>3. Fine({h} \cup R) /\ Each({h} \cup R, h) /\ Tables /\ Typed
  BY <1>1 DEF TablesInv, OwnerInv, Fine
<1>4. \A w \in {h} \cup R : News(w) => NewHere(w)
  BY <1>1, NewsAreHere
<1>5. \A d \in Dirs : Ends({h} \cup R, d)
  BY <1>1 DEF MarksInv
<1> SUFFICES ASSUME NEW d \in Dirs' PROVE Ends(R, d)'
  BY <1>2 DEF MarksInv, Ends
\* Where neither the number of the entries nor the last one changes.
<1>6. ASSUME d \in Dirs, ~News(h), Size(d)' = Size(d),
             EntryAt(At(d, Size(d))).last => EntryAt(At(d, Size(d)))'.last
      PROVE  Ends(R, d)'
  <2>0. PICK n : n = Size(d) /\ n = Size(d)'
    BY <1>6
  <2>1. CASE Marked(d)
    <3>1. EntryAt(At(d, n)).last \/ n = EntriesPerBlock
      BY <2>0, <2>1 DEF Marked
    <3>2. EntryAt(At(d, n)).last => EntryAt(At(d, n))'.last
      BY <2>0, <1>6
    <3> QED
      BY <2>0, <3>1, <3>2, Zenon DEF Marked, Ends
  <2>2. CASE \E w \in {h} \cup R : News(w) /\ w.slot = At(d, n + 1)
    BY <2>0, <2>2, <1>6 DEF Ends
  <2> QED
    BY <1>5, <1>6, <2>0, <2>1, <2>2 DEF Ends
<1>7. CASE h.to \in {"sb", "fat"}
  <2>1. disk' = disk /\ Dirs' = Dirs
    BY <1>2, <1>7 DEF Dirs, IsDir, EntryAt, Done
  <2>3. ~News(h)
    BY <1>7 DEF News
  <2>2. Size(d)' = Size(d) /\ EntryAt(At(d, Size(d)))' = EntryAt(At(d, Size(d)))
    BY <2>1 DEF Size, EntryAt
  <2> QED
    BY <2>1, <2>2, <2>3, <1>6
<1>8. CASE h.to = "entry" /\ ~News(h)
  <2>0. Dirs' = Dirs
    BY <1>1, <1>2, <1>3, <1>4, <1>8, KeepStep
  <2>1. PICK n : n = Size(d) /\ n \in 1 .. EntriesPerBlock /\ At(d, n) \in Spots /\ d \in Places
    BY <2>0, <1>3, DirHolds, SMT
  <2>2. /\ EntryAt(h.slot)' = h.entry /\ h.slot \in Spots /\ Size(d)' = n
        /\ \A u \in Spots : u # h.slot => EntryAt(u)' = EntryAt(u)
    BY <2>1, <1>1, <1>2, <1>3, <1>8, KeepLands
  <2>3. CASE h.slot = At(d, n) /\ EntryAt(At(d, n)).last /\ ~h.entry.last
    <3>1. PICK v \in {h} \cup R : News(v) /\ v.slot = Behind(h.slot)
      BY <1>3, <1>8, <2>3 DEF Each, KeepsEntry
    <3>2. v \in R /\ v.slot = At(d, n + 1)
      BY <3>1, <1>8, <2>3, SpotIs DEF Behind
    <3> QED
      BY <3>1, <3>2, <2>2 DEF Ends
  <2>4. CASE ~(h.slot = At(d, n) /\ EntryAt(At(d, n)).last /\ ~h.entry.last)
    <3>1. EntryAt(At(d, n)).last => EntryAt(At(d, n))'.last
      BY <2>1, <2>2, <2>4
    <3>2. PICK a : a = At(d, n)
      OBVIOUS
    <3>3. EntryAt(a).last => EntryAt(a)'.last
      BY <3>1, <3>2
    <3>4. PICK m : m = Size(d)
      OBVIOUS
    <3>5. CASE Marked(d)
      BY <3>1, <2>2, Zenon, <2>1, <3>5 DEF Marked, Ends
    <3>6. CASE \E w \in {h} \cup R : News(w) /\ w.slot = At(d, n + 1)
      BY <2>2, <3>6, <1>8 DEF Ends
    <3> QED
      BY <2>0, <2>1, <1>5, <3>5, <3>6 DEF Ends
  <2> QED
    BY <2>3, <2>4
<1>9. CASE News(h)
  <2>1. \A x : x \in Dirs' <=> \/ x \in Dirs
                               \/ /\ h.slot.block = RootBlock /\ h.entry.kind = "dir"
                                  /\ x = h.entry.first
    BY <1>1, <1>2, <1>3, <1>4, <1>9, NewStep
  <2> DEFINE s == h.slot
             b == s.block
  <2>2. /\ s \in Spots /\ b \in Dirs /\ s = At(b, s.index)
        /\ h.entry.first \notin Dirs
        /\ EntryAt(s)' = h.entry /\ Size(b)' = s.index
        /\ \A u \in Spots : u # s => EntryAt(u)' = EntryAt(u)
        /\ \A p \in Places : p # b => disk'[p] = disk[p] /\ Size(p)' = Size(p)
    BY <1>1, <1>2, <1>3, <1>4, <1>9, NewLands
  <2> HIDE DEF s, b
  <2>3. CASE d = b
    <3>1. EntryAt(At(d, s.index))'.last
      BY <2>2, <2>3, <1>9 DEF News
    <3>2. PICK m : m = s.index
      OBVIOUS
    <3> QED
      BY <2>2, <2>3, <3>1 DEF Marked, Ends
  <2>4. CASE d # b /\ d \in Dirs
    <3>1. PICK n : n = Size(d) /\ n \in 1 .. EntriesPerBlock /\ At(d, n) \in Spots /\ d \in Places
      BY <2>4, <1>3, DirHolds, SMT
    <3>2. Size(d)' = n /\ At(d, n) # s
      BY <2>2, <2>4, <3>1, SpotIs
    <3>3. EntryAt(At(d, n))' = EntryAt(At(d, n))
      BY <2>2, <3>1, <3>2
    <3>4. CASE Marked(d)
      BY <3>2, <3>3, Zenon, <3>1, <3>4 DEF Marked, Ends
    <3>5. CASE \E w \in {h} \cup R : News(w) /\ w.slot = At(d, n + 1)
      <4>1. h.slot # At(d, n + 1)
        BY <2>2, <2>4, SpotIs DEF s, b
      <4>2. \E w \in R : News(w) /\ w.slot = At(d, n + 1)
        BY <3>5, <4>1
      <4> QED
        BY <3>2, <4>2 DEF Ends
    <3> QED
      BY <2>4, <3>1, <1>5, <3>4, <3>5 DEF Ends
  <2>5. CASE d \notin Dirs
    <3>1. d = h.entry.first /\ h.entry.kind = "dir"
      BY <2>1, <2>5
    <3>2. AddsEntry({h} \cup R, h)
      BY <1>3, <1>9 DEF Each
    <3>3. \A v \in {h} \cup R : v.to # "block"
      BY <3>1, <1>1, <1>9 DEF Before, News
    <3>4. disk[d].entries = <<Indicator>>
      BY <3>1, <3>2, <3>3 DEF AddsEntry
    <3>5. d \in Places /\ d # b
      BY <3>1, <2>2, <2>5, Marks, <1>4, <1>9 DEF NewHere
    <3>6. disk'[d].entries = <<Indicator>>
      BY <3>4, <3>5, <2>2
    <3>7. Len(<<Indicator>>) = 1 /\ DOMAIN <<Indicator>> = {1} /\ <<Indicator>>[1] = Indicator
      OBVIOUS
    <3>8. Size(d)' = 1
      BY <3>6, <3>7 DEF Size
    <3>9. EntryAt(At(d, 1))' = Indicator
      BY <3>6, <3>7 DEF EntryAt, At
    <3>10. Indicator.last
      BY DEF Indicator
    <3> QED
      BY <3>8, <3>9, <3>10 DEF Marked, Ends
  <2> QED
    BY <2>3, <2>4, <2>5
<1>10. CASE h.to = "name"
  <2>0. Dirs' = Dirs /\ ~News(h)
    BY <1>1, <1>2, <1>3, <1>4, <1>10, NameStep DEF News
  <2>1. PICK n : n = Size(d) /\ n \in 1 .. EntriesPerBlock /\ At(d, n) \in Spots /\ d \in Places
    BY <2>0, <1>3, DirHolds, SMT
  <2>2. /\ EntryAt(h.slot)' = [EntryAt(h.slot) EXCEPT !.name = h.name]
        /\ EntryAt(h.slot) \in Entries
        /\ \A u \in Spots : u # h.slot => EntryAt(u)' = EntryAt(u)
        /\ Size(d)' = n
    BY ZenonT(40), <1>1, <1>2, <1>3, <1>10, <2>1, NameOnlyLands
  <2>3. EntryAt(h.slot)'.last = EntryAt(h.slot).last
    BY <2>2 DEF Entries
  <2>4. EntryAt(At(d, n))'.last = EntryAt(At(d, n)).last
    <3>1. CASE At(d, n) = h.slot
      BY <3>1, <2>3
    <3>2. CASE At(d, n) # h.slot
      BY <3>2, <2>1, <2>2
    <3> QED
      BY <3>1, <3>2
  <2>5. CASE Marked(d)
    BY <2>2, <2>4, Zenon, <2>1, <2>5 DEF Marked, Ends
  <2>6. CASE \E w \in {h} \cup R : News(w) /\ w.slot = At(d, n + 1)
    BY <2>2, <2>6, <2>0 DEF Ends
  <2> QED
    BY <2>0, <2>1, <1>5, <2>5, <2>6 DEF Ends
<1>11. CASE h.to = "block"
  <2>0. Dirs' = Dirs /\ ~News(h)
    BY <1>1, <1>2, <1>3, <1>4, <1>11, BlockStep DEF News
  <2>1. PICK n : n = Size(d) /\ n \in 1 .. EntriesPerBlock /\ At(d, n) \in Spots /\ d \in Places
    BY <2>0, <1>3, DirHolds, SMT
  <2>2. /\ h.place \in Places /\ h.place \notin Dirs
        /\ disk' = [disk EXCEPT ![h.place] = h.content]
    BY <1>1, <1>2, <1>3, <1>11, WriteIs DEF Each, PutsBlock, Done
  <2>3. Size(d)' = n /\ EntryAt(At(d, n))' = EntryAt(At(d, n))
    <3>1. d # h.place /\ At(d, n).block # h.place
      BY <2>0, <2>2, SpotIs
    <3> QED
      BY ZenonT(40), <3>1, <2>1, <2>2, <1>3, BlockLands
  <2>5. CASE Marked(d)
    BY <2>3, Zenon, <2>1, <2>5 DEF Marked, Ends
  <2>6. CASE \E w \in {h} \cup R : News(w) /\ w.slot = At(d, n + 1)
    BY <2>3, <2>6, <2>0 DEF Ends
  <2> QED
    BY <2>0, <2>1, <1>5, <2>5, <2>6 DEF Ends
<1> QED
  BY <1>1, <1>7, <1>8, <1>9, <1>10, <1>11, WriteIs DEF News

-----------------------------------------------------------------------------
(* The writes of a plan *)

\* What two series write, and in which order, when one follows the other.
LEMMA OrderedThen ==
    ASSUME NEW v \in Seq(Writes), NEW w \in Seq(Writes)
    PROVE  /\ v \o w \in Seq(Writes)
           /\ ToSet(v \o w) = ToSet(v) \cup ToSet(w)
           /\ Ordered(v) /\ Ordered(w) /\ (\A a \in ToSet(v), b \in ToSet(w) : Before(a, b))
                => Ordered(v \o w)
<1> DEFINE q == v \o w
           m == Len(v)
<1>1. /\ q \in Seq(Writes)
      /\ \A i \in DOMAIN v : i \in DOMAIN q /\ q[i] = v[i]
      /\ \A i \in DOMAIN w : m + i \in DOMAIN q /\ q[m + i] = w[i]
      /\ \A i \in DOMAIN q : \/ i \in DOMAIN v /\ q[i] = v[i]
                             \/ \E j \in DOMAIN w : i = m + j /\ q[i] = w[j]
  BY ConcatAt
<1>2. /\ \A i \in DOMAIN v, j \in DOMAIN w : i < m + j /\ ~(m + j < i)
      /\ \A i, j \in DOMAIN w : m + i < m + j <=> i < j
  BY ConcatOrder
<1> HIDE DEF q, m
<1>3. ToSet(q) = ToSet(v) \cup ToSet(w)
  <2>1. \A x : x \in ToSet(v) \cup ToSet(w) => x \in ToSet(q)
    BY <1>1 DEF ToSet, Range
  <2>2. \A x : x \in ToSet(q) => x \in ToSet(v) \cup ToSet(w)
    BY <1>1 DEF ToSet, Range
  <2> QED
    BY <2>1, <2>2
<1>4. ASSUME Ordered(v), Ordered(w), \A a \in ToSet(v), b \in ToSet(w) : Before(a, b),
             NEW i \in DOMAIN q, NEW j \in DOMAIN q, i < j
      PROVE  Before(q[i], q[j])
  <2>1. CASE i \in DOMAIN v /\ j \in DOMAIN v
    BY <2>1, <1>1, <1>4 DEF Ordered
  <2>2. CASE i \in DOMAIN v /\ \E l \in DOMAIN w : j = m + l /\ q[j] = w[l]
    <3>1. PICK l \in DOMAIN w : q[j] = w[l]
      BY <2>2
    <3>2. q[i] \in ToSet(v) /\ q[j] \in ToSet(w)
      BY <2>2, <3>1, <1>1 DEF ToSet, Range
    <3> QED
      BY <3>2, <1>4
  <2>3. CASE /\ \E k \in DOMAIN w : i = m + k /\ q[i] = w[k]
             /\ \E l \in DOMAIN w : j = m + l /\ q[j] = w[l]
    <3>1. PICK k \in DOMAIN w, l \in DOMAIN w :
             i = m + k /\ q[i] = w[k] /\ j = m + l /\ q[j] = w[l]
      BY <2>3
    <3>2. k < l
      BY <3>1, <1>2, <1>4
    <3> QED
      BY <3>1, <3>2, <1>4 DEF Ordered
  <2>4. CASE j \in DOMAIN v /\ \E k \in DOMAIN w : i = m + k /\ q[i] = w[k]
    BY <2>4, <1>2, <1>4
  <2> QED
    BY <2>1, <2>2, <2>3, <2>4, <1>1
<1> QED
  BY <1>1, <1>3, <1>4 DEF Ordered, q

\* The writes of a short series, and their order.
LEMMA ShortSets ==
    /\ ToSet(<< >>) = {} /\ Ordered(<< >>)
    /\ \A a \in Writes : ToSet(<<a>>) = {a} /\ Ordered(<<a>>)
    /\ \A a, b \in Writes : ToSet(<<a, b>>) = {a, b} /\ (Before(a, b) => Ordered(<<a, b>>))
<1>1. ASSUME NEW a \in Writes PROVE ToSet(<<a>>) = {a} /\ Ordered(<<a>>)
  BY SMT DEF ToSet, Range, Ordered
<1>2. ASSUME NEW a \in Writes, NEW b \in Writes
      PROVE  ToSet(<<a, b>>) = {a, b} /\ (Before(a, b) => Ordered(<<a, b>>))
  BY SMT DEF ToSet, Range, Ordered
<1> QED
  BY <1>1, <1>2, NothingIsFine

\* Writes that no order matters to.
Quiet(w) == w.to \in {"sb", "fat"}
Light(w) == w.to \in {"sb", "fat", "block"}

\* Writes that change no entry may come at any time, and blocks before entries.
LEMMA LightOrder ==
    /\ \A v, w : Light(v) \/ Quiet(w) => Before(v, w)
    /\ \A v, w : w.to = "block" /\ ~(News(v) /\ v.entry.kind = "dir") => Before(v, w)
    /\ \A w : Light(w) => ~News(w)
    /\ \A q : (\A w \in ToSet(q) : Light(w)) => Ordered(q)
<1>1. /\ \A v, w : Light(v) \/ Quiet(w) => Before(v, w)
      /\ \A v, w : w.to = "block" /\ ~(News(v) /\ v.entry.kind = "dir") => Before(v, w)
      /\ \A w : Light(w) => ~News(w)
  BY DEF Light, Quiet, Before, News
<1>2. ASSUME NEW q, \A w \in ToSet(q) : Light(w), NEW i \in DOMAIN q, NEW j \in DOMAIN q
      PROVE  Before(q[i], q[j])
  BY <1>1, <1>2 DEF ToSet, Range
<1> QED
  BY <1>1, <1>2 DEF Ordered

\* An image that no command is changing, whose directories' tables do not grow.
AtRest == /\ Typed /\ Linked(fat) /\ Owned /\ Flat(fat) /\ Tables
          /\ Unnamed \notin Names

\* A file of a directory's table is in none of the directories.
LEMMA EntryFirst ==
    ASSUME AtRest, NEW s \in Spots, EntryAt(s).active
    PROVE  /\ EntryAt(s).first \in Blocks /\ EntryAt(s).first \in Taken(fat)
           /\ EntryAt(s).first # RootBlock
           /\ EntryAt(s).kind # "dir" => EntryAt(s).first \notin Dirs
<1>1. EntryAt(s).first \in Taken(fat) /\ EntryAt(s).first # RootBlock
  BY DEF AtRest, Owned
<1>2. ASSUME EntryAt(s).kind # "dir", EntryAt(s).first \in Dirs PROVE FALSE
  <2>1. PICK t \in Spots : IsDir(t) /\ EntryAt(s).first = EntryAt(t).first
    BY <1>1, <1>2, DirIs
  <2>2. t = s
    BY <2>1 DEF AtRest, Owned, IsDir
  <2> QED
    BY <1>2, <2>1, <2>2 DEF IsDir
<1> QED
  BY <1>1, <1>2 DEF Taken

\* The directory that a path's last name is in.
LEMMA ParentIsDir ==
    ASSUME AtRest, NEW path \in Paths, ParentFound(path)
    PROVE  /\ ParentBlock(path) \in Dirs /\ ParentBlock(path) \in Taken(fat)
           /\ ParentBlock(path) \in Blocks
           /\ Len(path) # 1 =>
                LET t == SlotOf(RootBlock, path[1])
                IN  /\ t \in Spots /\ t.block = RootBlock /\ IsDir(t)
                    /\ EntryAt(t).name = path[1] /\ path[1] # Unnamed
                    /\ EntryAt(t).first = ParentBlock(path)
                    /\ ParentBlock(path) # RootBlock
<1>1. CASE Len(path) = 1
  BY <1>1, DirIs, Marks DEF ParentBlock, AtRest, Linked
<1>2. CASE Len(path) # 1
  <2> DEFINE t == SlotOf(RootBlock, path[1])
  <2>1. Found(RootBlock, path[1]) /\ EntryAt(t).kind = "dir" /\ path[1] \in Names
    BY <1>2, PathIs DEF ParentFound
  <2>2. TableIs(RootBlock)
    BY DirIs DEF AtRest, Tables
  <2>3. t \in Spots /\ t.block = RootBlock /\ EntryAt(t).active /\ EntryAt(t).name = path[1]
    BY <2>1, <2>2, TableFound, Marks DEF AtRest
  <2>4. ParentBlock(path) = EntryAt(t).first
    BY <1>2 DEF ParentBlock
  <2> HIDE DEF t
  <2>5. IsDir(t)
    BY <2>1, <2>3 DEF IsDir, t
  <2>6. ParentBlock(path) \in Dirs
    BY <2>3, <2>4, <2>5, DirIs
  <2>7. /\ ParentBlock(path) \in Taken(fat) /\ ParentBlock(path) \in Blocks
        /\ ParentBlock(path) # RootBlock
    BY <2>3, <2>4, EntryFirst
  <2>8. path[1] # Unnamed
    BY <2>1 DEF AtRest
  <2> QED
    BY <2>3, <2>4, <2>5, <2>6, <2>7, <2>8 DEF t
<1> QED
  BY <1>1, <1>2

\* A FAT that links two blocks among the writes.
Grows(q) == \E i \in DOMAIN q : q[i].to = "fat" /\ ~Flat(q[i].fat)

\* A plan that lengthens a table still does when more writes follow.
LEMMA GrowsThen ==
    ASSUME NEW v \in Seq(Writes), NEW w \in Seq(Writes), Grows(v)
    PROVE  Grows(v \o w)
BY ConcatAt DEF Grows

\* Where the table of directory b takes a new entry: at its passive end, or
\* behind its last entry.
Placed(b, end, place) ==
    /\ end \in Spots /\ place \in Spots /\ b \in Dirs
    /\ end = At(b, Size(b))
    /\ \/ ~EntryAt(end).active /\ place = end
       \/ EntryAt(end).active /\ place = Behind(end)

\* What add_dir_entry answers when it has changed nothing, and when it has
\* taken a free block for e.
RefusedHere(r) == r.res \in {"full", "error"} /\ r.writes = << >> /\ r.sb = sb /\ r.fat = fat
AddedHere(r, b, e) ==
    /\ r.res = "done" /\ r.first = find_free_block(fat) /\ FreeBlocks(fat) # {}
    /\ NeededBlocks(e) <= sb.numFree
    /\ r.sb = OneFewerFree(sb)
    /\ r.fat = [fat EXCEPT ![r.first] = FAT_ENTRY_END]
    /\ \E end, place :
         /\ Placed(b, end, place)
         /\ r.writes = Allocation(r.first, e, r.sb, r.fat)
                         \o Insertion(end, place, [e EXCEPT !.first = r.first,
                                                            !.last = TRUE])

\* A directory's table is full while there is a free block to lengthen it.
Outgrown(b) == /\ Size(b) = EntriesPerBlock /\ EntryAt(At(b, Size(b))).active
               /\ FreeBlocks(fat) # {}

\* What add_dir_entry answers at rest: the table is full (and grows), there is
\* no room, or it takes a free block for the entry.
LEMMA AddIsPlaced ==
    ASSUME AtRest, NEW b \in Dirs, Marked(b), b \in Taken(fat), NEW e \in NewOnes,
           NEW r, r = add_dir_entry(b, e, sb, fat)
    PROVE  \/ Grows(r.writes) /\ Outgrown(b)
           \/ RefusedHere(r) \/ AddedHere(r, b, e)
<1> DEFINE slots == Slots(b)
           k == Len(Walk(b))
           n == Size(b)
<1>1. b \in Blocks /\ b \in Places /\ Typed /\ Flat(fat) /\ TableIs(b) /\ Marked(b)
  BY DirsAreBlocks DEF AtRest, Tables
<1>2. k = n /\ n \in 1 .. EntriesPerBlock
  BY <1>1, TableWalk, Zenon
<1>3. /\ Len(slots) = EntriesPerBlock
      /\ \A i \in 1 .. EntriesPerBlock : slots[i] = At(b, i)
  BY <1>1, FlatSlots
<1>4. r = AddAfter(slots, n, e, sb, fat)
  BY <1>2 DEF add_dir_entry
<1>5. slots[n] = At(b, n) /\ At(b, n) \in Spots
  BY <1>1, <1>2, <1>3, SpotIs
<1> DEFINE end == At(b, n)
<1>6. end \in Spots /\ end = At(b, Size(b)) /\ end.block = b /\ end.index = n
  BY <1>5, SpotIs
<1> HIDE DEF slots, k, end
<1>7. ASSUME NEW place, Placed(b, end, place), r = AddAt(end, place, e, << >>, sb, fat)
      PROVE  RefusedHere(r) \/ AddedHere(r, b, e)
  <2>0. ASSUME NEW res \in {"full", "error"}, r = Refused(res, << >>, sb, fat)
        PROVE  RefusedHere(r)
    BY <2>0 DEF Refused, RefusedHere
  <2>1. CASE NeededBlocks(e) > sb.numFree
    BY <2>0, <2>1, <1>7 DEF AddAt
  <2>2. CASE ~(NeededBlocks(e) > sb.numFree) /\ FreeBlocks(fat) = {}
    BY <2>0, <2>2, <1>7 DEF AddAt
  <2>3. CASE ~(NeededBlocks(e) > sb.numFree) /\ FreeBlocks(fat) # {}
    <3> DEFINE first == find_free_block(fat)
               s2 == OneFewerFree(sb)
               f2 == [fat EXCEPT ![first] = FAT_ENTRY_END]
               e2 == [e EXCEPT !.first = first, !.last = TRUE]
               q == Allocation(first, e, s2, f2) \o Insertion(end, place, e2)
    <3>1. r = [res |-> "done", first |-> first, sb |-> s2, fat |-> f2, writes |-> << >> \o q]
      BY <2>3, <1>7 DEF AddAt, Added, AllocateThenInsert
    <3>2. q \in Seq(Writes)
      <4>1. first \in Blocks /\ first \notin Taken(fat)
        BY <2>3, FreeIs
      <4>2. s2 \in Superblocks
        BY OneFewerIs DEF AtRest, Typed
      <4> HIDE DEF first, s2
      <4>3. f2 \in Fats /\ Linked(f2) /\ Taken(f2) = Taken(fat) \cup {first}
        BY <4>1, TakeFree DEF AtRest, Typed
      <4>4. e2 \in Entries /\ e2.name \in Names /\ e2.active /\ e2.first = first
        BY <4>1 DEF NewOnes, Entries
      <4> HIDE DEF f2, e2
      <4>5. Allocation(first, e, s2, f2) \in Seq(Writes)
        BY <4>1, <4>2, <4>3, AllocationIs DEF NewOnes
      <4>6. Insertion(end, place, e2) \in Seq(Writes)
        <5>1. [e2 EXCEPT !.name = Unnamed] \in Entries
          BY <4>4 DEF Entries
        <5>2. place \in Spots /\ end \in Spots
          BY <1>7 DEF Placed
        <5>3. [EntryAt(end) EXCEPT !.last = FALSE] \in Entries
          BY <5>2, <1>1, EntryIs DEF Entries
        <5>4. /\ PutEntry(end, [EntryAt(end) EXCEPT !.last = FALSE]) \in Writes
              /\ PutEntry(place, [e2 EXCEPT !.name = Unnamed]) \in Writes
              /\ PutName(place, e2.name) \in Writes
          BY <4>4, <5>1, <5>2, <5>3, PutIs
        <5>5. /\ <<PutEntry(end, [EntryAt(end) EXCEPT !.last = FALSE])>> \in Seq(Writes)
              /\ << >> \in Seq(Writes)
              /\ <<PutEntry(place, [e2 EXCEPT !.name = Unnamed]), PutName(place, e2.name)>>
                   \in Seq(Writes)
          BY <5>4, Short
        <5> QED
          BY <5>5, ConcatAt DEF Insertion
      <4> QED
        BY <4>5, <4>6, ConcatAt
    <3> HIDE DEF q
    <3>3. << >> \o q = q
      BY <3>2, ConcatEmptySeq
    <3>4. /\ r.res = "done" /\ r.first = first /\ r.sb = s2 /\ r.fat = f2 /\ r.writes = q
      BY <3>1, <3>3
    <3>5. NeededBlocks(e) <= sb.numFree
      <4>1. NeededBlocks(e) \in Nat /\ sb.numFree \in Nat
        BY DEF NeededBlocks, NewOnes, Entries, AtRest, Typed, Superblocks
      <4> QED
        BY SMT, <2>3, <4>1
    <3>6. \E x, y : Placed(b, x, y) /\ r.writes = Allocation(first, e, s2, f2)
                                                    \o Insertion(x, y, e2)
      BY <1>7, <3>4 DEF q
    <3> QED
      BY <2>3, <3>4, <3>5, <3>6 DEF AddedHere
  <2> QED
    BY <2>1, <2>2, <2>3
<1>8. CASE ~EntryAt(end).active
  <2>1. r = AddAt(end, end, e, << >>, sb, fat)
    BY <1>8, <1>4, <1>5 DEF AddAfter, end
  <2>2. Placed(b, end, end)
    BY <1>6, <1>8 DEF Placed
  <2> QED
    BY <1>7, <2>1, <2>2
<1>9. CASE EntryAt(end).active /\ n < EntriesPerBlock
  <2>1. n + 1 \in 1 .. EntriesPerBlock
    BY SMT, <1>2, <1>9, Sizes
  <2>2. slots[n + 1] = Behind(end) /\ Behind(end) \in Spots
    BY <1>1, <1>3, <1>6, <2>1, SpotIs DEF Behind
  <2>3. r = AddAt(end, Behind(end), e, << >>, sb, fat)
    BY <1>9, <1>3, <1>4, <1>5, <2>2 DEF AddAfter, end
  <2>4. Placed(b, end, Behind(end))
    BY <1>6, <1>9, <2>2 DEF Placed
  <2> QED
    BY <1>7, <2>3, <2>4
<1>10. CASE EntryAt(end).active /\ ~(n < EntriesPerBlock) /\ FreeBlocks(fat) = {}
  BY <1>10, <1>3, <1>4, <1>5 DEF Refused, RefusedHere, AddAfter, end
<1>11. CASE EntryAt(end).active /\ ~(n < EntriesPerBlock) /\ FreeBlocks(fat) # {}
  <2> DEFINE free == find_free_block(fat)
             f == [fat EXCEPT ![b] = free, ![free] = FAT_ENTRY_END]
             s == OneFewerFree(sb)
             outside == [block |-> FAT_ENTRY_END, index |-> 1]
             grow == WriteSuperblockAndFat(s, f)
  <2>1. r = AddAt(end, outside, e, grow, s, f)
    BY <1>11, <1>3, <1>4, <1>5, <1>6 DEF AddAfter, AddGrown, end
  <2>2. free \in Blocks /\ free \notin Taken(fat)
    BY <1>11, FreeIs
  <2> HIDE DEF free
  <2>3. f \in Fats /\ Linked(f) /\ f[b] = free
    <3>1. f \in Fats /\ Linked(f)
      BY <2>2, LinkFree DEF AtRest, Typed
    <3>2. f[b] = free
      BY <1>1, <2>2 DEF Typed, Fats
    <3> QED
      BY <3>1, <3>2
  <2>4. ~Flat(f)
    BY <1>1, <2>2, <2>3 DEF Flat
  <2>5. s \in Superblocks
    BY OneFewerIs DEF AtRest, Typed
  <2> HIDE DEF f, s
  <2>6. grow \in Seq(Writes)
    BY <2>3, <2>5, SuperblockAndFat
  <2>7. Grows(grow)
    <3>1. PutSuperblock(s) \in Writes /\ PutFat(f) \in Writes
      BY <2>3, <2>5, PutIs
    <3>2. 2 \in DOMAIN grow /\ grow[2] = PutFat(f)
      BY <3>1, Short DEF WriteSuperblockAndFat
    <3> QED
      BY <3>2, <2>4 DEF Grows, PutFat
  <2>8. Planned(r)
    BY AddDirEntryIs DEF AtRest
  <2> HIDE DEF grow, outside
  <2>9. r.writes = grow \/ \E q : r.writes = grow \o q
    <3>1. CASE NeededBlocks(e) > s.numFree
      BY <2>1, <3>1 DEF AddAt, Refused
    <3>2. CASE ~(NeededBlocks(e) > s.numFree) /\ FreeBlocks(f) = {}
      BY <2>1, <3>2 DEF AddAt, Refused
    <3>3. CASE ~(NeededBlocks(e) > s.numFree) /\ FreeBlocks(f) # {}
      <4> DEFINE free2 == find_free_block(f)
                 f2 == [f EXCEPT ![free2] = FAT_ENTRY_END]
                 q == AllocateThenInsert(
                        Allocation(free2, e, OneFewerFree(s), f2),
                        Insertion(end, outside, [e EXCEPT !.first = free2, !.last = TRUE]))
      <4>1. r = Added(end, outside, e, free2, grow, OneFewerFree(s), f2)
        BY <2>1, <3>3 DEF AddAt
      <4>2. r.writes = grow \o q
        BY <4>1 DEF Added
      <4> HIDE DEF q
      <4> QED
        BY <4>2
    <3> QED
      BY <3>1, <3>2, <3>3
  <2>10. \A q : r.writes = grow \o q => Grows(r.writes)
    <3> SUFFICES ASSUME NEW q, r.writes = grow \o q PROVE Grows(r.writes)
      OBVIOUS
    <3> QED
      BY <2>7 DEF Grows
  <2>11. Outgrown(b)
    BY <1>11, SMT, <1>2, Sizes DEF Outgrown, end
  <2> QED
    BY <2>7, <2>9, <2>10, <2>11
<1> QED
  BY <1>7, <1>8, <1>9, <1>10, <1>11

\* The size of one directory of the root is written.
SizeOnly(w) ==
    /\ w.to = "entry" /\ w.slot \in Spots /\ w.slot.block = RootBlock /\ IsDir(w.slot)
    /\ EntryAt(w.slot).name # Unnamed
    /\ \E n : w.entry = [EntryAt(w.slot) EXCEPT !.size = n]

\* The three writes that put a new entry into its table.
Demotes(end) == PutEntry(end, [EntryAt(end) EXCEPT !.last = FALSE])
Enters(place, e) == PutEntry(place, [e EXCEPT !.name = Unnamed])
EntryWrites(end, place, e) ==
    (IF end # place THEN {Demotes(end)} ELSE {}) \cup {Enters(place, e), PutName(place, e.name)}

\* A new entry that a plan may put.
NewLast(e) == e \in Entries /\ e.name \in Names /\ e.active /\ e.last

\* Where these writes go, and what they are.
LEMMA EntryWritesLie ==
    ASSUME AtRest, NEW b, NEW end, NEW place, Placed(b, end, place)
    PROVE  /\ end.block = b /\ place.block = b
           /\ end # place => place = Behind(end) /\ EntryAt(end).active
BY SpotIs DEF Behind, Placed

\* Of the writes that add an entry one is new; the others move the mark and name it.
LEMMA EntryWritesNews ==
    ASSUME AtRest, NEW b, NEW end, NEW place, Placed(b, end, place), NEW e, NewLast(e)
    PROVE  /\ News(Enters(place, e)) /\ ~News(Demotes(end)) /\ ~News(PutName(place, e.name))
           /\ Enters(place, e).entry.kind = e.kind /\ Enters(place, e).entry.first = e.first
           /\ Enters(place, e) \in Writes /\ PutName(place, e.name) \in Writes
           /\ Demotes(end) \in Writes
<1>1. end \in Spots /\ place \in Spots /\ end = At(b, Size(b))
      /\ (end # place => place = Behind(end) /\ EntryAt(end).active)
  BY DEF Placed
<1>3. [e EXCEPT !.name = Unnamed] \in Entries
  BY DEF NewLast, Entries
<1>4. [EntryAt(end) EXCEPT !.last = FALSE] \in Entries
  <2>1. EntryAt(end) \in Entries
    BY <1>1, EntryIs DEF AtRest
  <2> QED
    BY <2>1 DEF Entries
<1>5. /\ Enters(place, e) \in Writes /\ PutName(place, e.name) \in Writes
      /\ Demotes(end) \in Writes
  BY <1>1, <1>3, <1>4, PutIs DEF NewLast, Enters, Demotes
<1>6. /\ Enters(place, e).entry = [e EXCEPT !.name = Unnamed]
      /\ Demotes(end).entry = [EntryAt(end) EXCEPT !.last = FALSE]
      /\ Enters(place, e).to = "entry" /\ Enters(place, e).slot = place
      /\ Demotes(end).to = "entry" /\ Demotes(end).slot = end
      /\ PutName(place, e.name).to = "name" /\ PutName(place, e.name).slot = place
      /\ PutName(place, e.name).name = e.name
  BY DEF Enters, Demotes, PutEntry, PutName
<1>7. /\ [e EXCEPT !.name = Unnamed].kind = e.kind
      /\ [e EXCEPT !.name = Unnamed].first = e.first
      /\ [e EXCEPT !.name = Unnamed].name = Unnamed
  BY DEF NewLast, Entries
<1>8. [e EXCEPT !.name = Unnamed].last
  BY DEF NewLast, Entries
<1>9. ~[EntryAt(end) EXCEPT !.last = FALSE].last
  BY <1>1, EntryIs DEF Entries, AtRest
<1>10. /\ News(Enters(place, e)) /\ ~News(Demotes(end)) /\ ~News(PutName(place, e.name))
  BY <1>6, <1>7, <1>8, <1>9, Zenon DEF News
<1> QED
  BY <1>5, <1>6, <1>7, <1>10

\* The slot behind a slot is another one.
LEMMA BehindIsNext ==
    ASSUME NEW s \in Spots
    PROVE  Behind(s) # s
<1>1. s.index \in Nat /\ s = At(s.block, s.index)
  BY SpotIs
<1>2. s.index + 1 # s.index
  BY <1>1
<1> QED
  BY <1>1, <1>2, SpotIs DEF Behind

\* The writes of an insertion: the entry, the mark it takes over, its name.
LEMMA InsertionSet ==
    ASSUME AtRest, NEW b, NEW end, NEW place, Placed(b, end, place), NEW e, NewLast(e)
    PROVE  /\ Insertion(end, place, e) \in Seq(Writes)
           /\ ToSet(Insertion(end, place, e)) = EntryWrites(end, place, e)
           /\ Ordered(Insertion(end, place, e))
<1> DEFINE d == Demotes(end)
           a == Enters(place, e)
           n == PutName(place, e.name)
<1>1. a \in Writes /\ n \in Writes /\ d \in Writes
  BY EntryWritesNews
<1>2. /\ News(a) /\ ~News(d) /\ ~News(n)
      /\ a.to = "entry" /\ a.slot = place /\ d.to = "entry" /\ d.slot = end
      /\ n.to = "name" /\ n.slot = place
      /\ (end # place => place = Behind(end))
  <2>1. News(a) /\ ~News(d) /\ ~News(n)
    BY EntryWritesNews
  <2>2. /\ a.to = "entry" /\ a.slot = place /\ d.to = "entry" /\ d.slot = end
        /\ n.to = "name" /\ n.slot = place
        /\ (end # place => place = Behind(end))
    BY DEF Enters, Demotes, PutEntry, PutName, Placed
  <2> QED
    BY <2>1, <2>2
<1>3. Before(a, n)
  BY <1>2 DEF Before
<1>10. end \in Spots /\ place \in Spots
  BY DEF Placed
<1>4. Insertion(end, place, e) = (IF end # place THEN <<d>> ELSE << >>) \o <<a, n>>
  BY DEF Insertion, Demotes, Enters
<1>5. EntryWrites(end, place, e) = (IF end # place THEN {d} ELSE {}) \cup {a, n}
  BY DEF EntryWrites
<1> HIDE DEF a, d, n
<1>6. end # place => Before(d, a) /\ Before(d, n)
  BY <1>2, <1>10, BehindIsNext DEF Before
<1>7. <<a, n>> \in Seq(Writes) /\ ToSet(<<a, n>>) = {a, n} /\ Ordered(<<a, n>>)
  BY <1>1, <1>3, Short, ShortSets
<1>8. CASE end # place
  <2>1. <<d>> \in Seq(Writes) /\ ToSet(<<d>>) = {d} /\ Ordered(<<d>>)
    BY <1>1, Short, ShortSets
  <2>2. \A x \in ToSet(<<d>>), y \in ToSet(<<a, n>>) : Before(x, y)
    BY <2>1, <1>6, <1>7, <1>8
  <2> QED
    BY <2>1, <2>2, <1>4, <1>5, <1>7, <1>8, OrderedThen
<1>9. CASE end = place
  BY <1>4, <1>5, <1>7, <1>9, ConcatEmptySeq
<1> QED
  BY <1>8, <1>9

\* The last write of two series is that of the second one.
LEMMA LastThen ==
    ASSUME NEW v \in Seq(Writes), NEW w \in Seq(Writes), w # << >>
    PROVE  v \o w # << >> /\ Last(v \o w) = Last(w)
<1> DEFINE q == v \o w
           m == Len(v)
           n == Len(w)
<1>1. /\ q \in Seq(Writes) /\ Len(q) = m + n
      /\ \A i \in 1 .. m + n : q[i] = IF i <= m THEN v[i] ELSE w[i - m]
  BY ConcatProperties
<1>2. m \in Nat /\ n \in Nat \ {0}
  BY LenProperties, EmptySeq
<1> HIDE DEF m, n, q
<1>3. PICK k : k = m + n /\ k \in 1 .. m + n /\ ~(k <= m) /\ k - m = n /\ k # 0
  BY SMT, <1>2
<1>4. q[k] = w[n] /\ Len(q) = k
  BY <1>1, <1>3
<1>5. q # << >>
  BY <1>1, <1>3, EmptySeq
<1> QED
  BY <1>1, <1>4, <1>5 DEF Last, q, n

\* A write of a size changes nothing else.
LEMMA SizeOnlyIs ==
    ASSUME Typed, NEW w, SizeOnly(w)
    PROVE  /\ ~News(w) /\ w.to = "entry" /\ w.slot \in Spots /\ w.slot.block = RootBlock
           /\ IsDir(w.slot)
           /\ w.entry.active /\ w.entry.name = EntryAt(w.slot).name
           /\ w.entry.kind = EntryAt(w.slot).kind /\ w.entry.first = EntryAt(w.slot).first
           /\ w.entry.last = EntryAt(w.slot).last
<1>1. /\ w.to = "entry" /\ w.slot \in Spots /\ w.slot.block = RootBlock /\ IsDir(w.slot)
      /\ EntryAt(w.slot).name # Unnamed
      /\ \E n : w.entry = [EntryAt(w.slot) EXCEPT !.size = n]
  BY DEF SizeOnly
<1>2. EntryAt(w.slot) \in Entries /\ EntryAt(w.slot).active
  BY <1>1, EntryIs DEF IsDir
<1>3. PICK n : w.entry = [EntryAt(w.slot) EXCEPT !.size = n]
  BY <1>1
<1>4. /\ w.entry.active = EntryAt(w.slot).active /\ w.entry.name = EntryAt(w.slot).name
      /\ w.entry.kind = EntryAt(w.slot).kind /\ w.entry.first = EntryAt(w.slot).first
      /\ w.entry.last = EntryAt(w.slot).last
  BY ZenonT(40), <1>2, <1>3 DEF Entries
<1>5. ~News(w)
  BY <1>1, <1>4 DEF News
<1> QED
  BY <1>1, <1>2, <1>4, <1>5, Zenon

\* The block that mkdir writes for a directory.
NewTable(first) == PutBlock(first, TableOf(<<Indicator>>))

\* The writes of an allocation: superblock, FAT, and the table of a directory.
LEMMA AllocationSet ==
    ASSUME NEW first \in Blocks, NEW e \in Entries, NEW s \in Superblocks, NEW f \in Fats,
           Linked(f)
    PROVE  /\ Allocation(first, e, s, f) \in Seq(Writes)
           /\ ToSet(Allocation(first, e, s, f)) =
                {PutSuperblock(s), PutFat(f)}
                  \cup (IF e.kind = "dir" THEN {NewTable(first)} ELSE {})
<1> DEFINE t == NewTable(first)
<1>1. /\ PutSuperblock(s) \in Writes /\ PutFat(f) \in Writes
  BY PutIs
<1>2. t \in Writes
  <2>1. TableOf(<<Indicator>>) \in Contents
    <3>1. /\ <<Indicator>> \in Seq(Entries) /\ Len(<<Indicator>>) = 1 /\ NoPiece \in Pieces
      BY JunkIs DEF NoPiece, Pieces
    <3>2. 1 <= EntriesPerBlock
      BY SMT, Sizes
    <3> QED
      BY <3>1, <3>2 DEF TableOf, Contents
  <2> QED
    BY <2>1, Marks, PutIs DEF NewTable
<1>3. /\ WriteSuperblockAndFat(s, f) \in Seq(Writes)
      /\ ToSet(WriteSuperblockAndFat(s, f)) = {PutSuperblock(s), PutFat(f)}
  BY <1>1, Short, ShortSets DEF WriteSuperblockAndFat
<1>4. <<t>> \in Seq(Writes) /\ ToSet(<<t>>) = {t} /\ << >> \in Seq(Writes) /\ ToSet(<< >>) = {}
  BY <1>2, Short, ShortSets
<1>5. Allocation(first, e, s, f) =
        WriteSuperblockAndFat(s, f) \o (IF e.kind = "dir" THEN <<t>> ELSE << >>)
  BY DEF Allocation, NewTable
<1> HIDE DEF t
<1>6. CASE e.kind = "dir"
  BY <1>3, <1>4, <1>5, <1>6, OrderedThen DEF t
<1>7. CASE e.kind # "dir"
  BY <1>3, <1>4, <1>5, <1>7, OrderedThen
<1> QED
  BY <1>6, <1>7

\* The one piece of a file that fits into a block.
Piece(first, l) == PutBlock(first, DataOf([id |-> l.id, no |-> 1]))

\* A file of at most one block is copied by at most one write.
LEMMA CopySet ==
    ASSUME NEW first \in Blocks, NEW l \in LinuxFiles, l.len <= 1
    PROVE  /\ copy_file_from_linux(first, l) \in Seq(Writes)
           /\ ToSet(copy_file_from_linux(first, l)) =
                IF l.len = 1 THEN {Piece(first, l)} ELSE {}
<1> DEFINE n == l.len
<1>1. copy_file_from_linux(first, l) \in Seq(Writes)
  BY CopyIs
<1>2. copy_file_from_linux(first, l)
        = [i \in 1 .. n |-> PutBlock(first + i - 1, DataOf([id |-> l.id, no |-> i]))]
  BY DEF copy_file_from_linux
<1>3. n \in {0, 1}
  BY SMT, LinuxFileIs
<1>4. first + 1 - 1 = first /\ 1 .. 1 = {1} /\ 1 .. 0 = {}
  BY SMT DEF Blocks
<1>5. CASE n = 1
  <2>1. DOMAIN copy_file_from_linux(first, l) = {1}
    BY <1>2, <1>4, <1>5
  <2>2. copy_file_from_linux(first, l)[1] = Piece(first, l)
    <3>1. 1 \in 1 .. n
      BY <1>4, <1>5
    <3>2. copy_file_from_linux(first, l)[1]
            = PutBlock(first + 1 - 1, DataOf([id |-> l.id, no |-> 1]))
      BY <1>2, <3>1
    <3> QED
      BY <1>4, <3>2 DEF Piece
  <2>3. ToSet(copy_file_from_linux(first, l)) = {copy_file_from_linux(first, l)[1]}
    BY <2>1 DEF ToSet, Range
  <2> QED
    BY <1>1, <1>5, <2>2, <2>3
<1>6. CASE n = 0
  <2>1. DOMAIN copy_file_from_linux(first, l) = {}
    BY <1>2, <1>4, <1>6
  <2>2. ToSet(copy_file_from_linux(first, l)) = {}
    BY <2>1 DEF ToSet, Range
  <2> QED
    BY <1>1, <1>6, <2>2
<1> QED
  BY <1>1, <1>3, <1>5, <1>6

\* The superblock that a command leaves.
Grown(s, n) == [s EXCEPT !.rootSize = @ + n]

\* The sizes are added to the parent and, by the last write, to the superblock.
LEMMA SizesSet ==
    ASSUME AtRest, NEW path \in Paths, ParentFound(path), NEW n \in Nat,
           NEW s \in Superblocks, NEW z, z = AddSizes(path, n, s)
    PROVE  /\ z \in Seq(Writes) /\ Ordered(z) /\ z # << >>
           /\ PutSuperblock(Grown(s, n)) \in ToSet(z)
           /\ Last(z) = PutSuperblock(Grown(s, n))
           /\ \A w \in ToSet(z) : \/ w = PutSuperblock(Grown(s, n))
                                  \/ SizeOnly(w) /\ Len(path) # 1
<1> DEFINE slot == SlotOf(RootBlock, path[1])
           a == PutEntry(slot, [EntryAt(slot) EXCEPT !.size = @ + n])
           b == PutSuperblock(Grown(s, n))
<1>1. z = (IF Len(path) = 1 THEN << >> ELSE <<a>>) \o <<b>>
  BY DEF AddSizes, Grown
<1>2. b \in Writes /\ b.to = "sb"
  <2>1. s.rootSize + n \in Nat
    BY SMT DEF Superblocks
  <2>2. Grown(s, n) \in Superblocks
    BY <2>1 DEF Superblocks, Grown
  <2> QED
    BY <2>2, PutIs DEF PutSuperblock
<1>3. CASE Len(path) = 1
  <2>1. /\ <<b>> \in Seq(Writes) /\ ToSet(<<b>>) = {b} /\ Ordered(<<b>>)
        /\ <<b>> # << >> /\ Last(<<b>>) = b
    BY <1>2, Short, ShortSets DEF Last
  <2>2. z = <<b>>
    BY <1>1, <1>3, <2>1, ConcatEmptySeq
  <2> HIDE DEF b
  <2>3. b = PutSuperblock(Grown(s, n))
    BY DEF b
  <2> QED
    BY <2>1, <2>2, <2>3
<1>4. CASE Len(path) # 1
  <2>1. slot \in Spots /\ slot.block = RootBlock /\ IsDir(slot) /\ EntryAt(slot).name # Unnamed
    BY <1>4, ParentIsDir, Zenon
  <2> HIDE DEF slot
  <2>2. EntryAt(slot) \in Entries
    BY <2>1, EntryIs DEF AtRest
  <2>3. a \in Writes
    <3>1. EntryAt(slot).size + n \in Nat
      BY SMT, <2>2 DEF Entries
    <3>2. [EntryAt(slot) EXCEPT !.size = @ + n] \in Entries
      BY <2>2, <3>1 DEF Entries
    <3> QED
      BY <2>1, <3>2, PutIs
  <2>4. SizeOnly(a)
    BY <2>1 DEF SizeOnly, PutEntry
  <2>5. z = <<a>> \o <<b>>
    BY <1>1, <1>4
  <2>6. Before(a, b)
    BY <1>2, LightOrder DEF Quiet
  <2>7. b = PutSuperblock(Grown(s, n))
    OBVIOUS
  <2> HIDE DEF a, b
  <2>8. /\ <<a>> \in Seq(Writes) /\ ToSet(<<a>>) = {a} /\ Ordered(<<a>>)
        /\ <<b>> \in Seq(Writes) /\ ToSet(<<b>>) = {b} /\ Ordered(<<b>>)
        /\ <<b>> # << >> /\ Last(<<b>>) = b
    BY <1>2, <2>3, Short, ShortSets DEF Last
  <2>9. /\ z \in Seq(Writes) /\ ToSet(z) = {a, b} /\ Ordered(z)
    <3>1. \A p \in ToSet(<<a>>), q \in ToSet(<<b>>) : Before(p, q)
      BY <2>6, <2>8
    <3>2. z \in Seq(Writes) /\ ToSet(z) = ToSet(<<a>>) \cup ToSet(<<b>>) /\ Ordered(z)
      BY <2>5, <2>8, <3>1, OrderedThen
    <3> QED
      BY <2>8, <3>2
  <2>10. z # << >> /\ Last(z) = b
    BY <2>5, <2>8, LastThen
  <2> QED
    BY <1>4, <2>4, <2>7, <2>9, <2>10
<1> QED
  BY <1>3, <1>4

\* The parts of a plan that adds the entry e: blocks and FATs (v), then the
\* entry itself, the FAT again (q), the file's piece (c) and the sizes (z).
Parts(path, e, v, q, c, z) ==
    /\ v \in Seq(Writes) /\ \A w \in ToSet(v) : Light(w)
    /\ q \in Seq(Writes) /\ \A w \in ToSet(q) : Quiet(w)
    /\ c \in Seq(Writes) /\ \A w \in ToSet(c) : w.to = "block"
    /\ e.kind = "dir" => c = << >>
    /\ z \in Seq(Writes) /\ Ordered(z) /\ z # << >>
    /\ \A w \in ToSet(z) : Quiet(w) \/ (SizeOnly(w) /\ Len(path) # 1)

Series(end, place, e, v, q, c, z) == v \o Insertion(end, place, e) \o q \o c \o z

\* The parts of a command that adds an entry follow each other in the right order.
LEMMA AddingOrder ==
    ASSUME AtRest, NEW path \in Paths, ParentFound(path),
           NEW end, NEW place, Placed(ParentBlock(path), end, place), NEW e, NewLast(e),
           NEW v, NEW q, NEW c, NEW z, Parts(path, e, v, q, c, z),
           NEW ws, ws = Series(end, place, e, v, q, c, z)
    PROVE  /\ ws \in Seq(Writes) /\ Ordered(ws) /\ ws # << >> /\ Last(ws) = Last(z)
           /\ ToSet(ws) = ToSet(v) \cup EntryWrites(end, place, e)
                            \cup ToSet(q) \cup ToSet(c) \cup ToSet(z)
<1> DEFINE i == Insertion(end, place, e)
           d == Demotes(end)
           a == Enters(place, e)
           n == PutName(place, e.name)
           b == ParentBlock(path)
<1>0. /\ v \in Seq(Writes) /\ \A w \in ToSet(v) : Light(w)
      /\ q \in Seq(Writes) /\ \A w \in ToSet(q) : Quiet(w)
      /\ c \in Seq(Writes) /\ \A w \in ToSet(c) : w.to = "block"
      /\ e.kind = "dir" => c = << >>
      /\ z \in Seq(Writes) /\ Ordered(z) /\ z # << >>
      /\ \A w \in ToSet(z) : Quiet(w) \/ (SizeOnly(w) /\ Len(path) # 1)
  BY DEF Parts
<1>1. i \in Seq(Writes) /\ ToSet(i) = EntryWrites(end, place, e) /\ Ordered(i)
  BY InsertionSet
<1>2. /\ \A w \in ToSet(v) : Light(w)
      /\ \A w \in ToSet(q) : Quiet(w)
      /\ \A w \in ToSet(q) \cup ToSet(c) : Light(w) /\ ~News(w)
  BY <1>0, LightOrder DEF Light, Quiet
<1>3. Ordered(v) /\ Ordered(q) /\ Ordered(c)
  BY <1>0, <1>2, LightOrder
<1>4. /\ v \o i \in Seq(Writes) /\ ToSet(v \o i) = ToSet(v) \cup ToSet(i) /\ Ordered(v \o i)
  BY <1>0, <1>1, <1>2, <1>3, LightOrder, OrderedThen
<1> DEFINE j == v \o i
<1> HIDE DEF i, j
<1>5. /\ j \o q \in Seq(Writes) /\ ToSet(j \o q) = ToSet(j) \cup ToSet(q) /\ Ordered(j \o q)
  BY <1>0, <1>3, <1>4, OrderedThen, <1>2, LightOrder DEF j
<1>6. ToSet(j) = ToSet(v) \cup EntryWrites(end, place, e)
  BY <1>0, <1>1, <1>4 DEF j
<1> DEFINE k == j \o q
<1>7. \A x \in ToSet(k) : \/ Light(x) /\ ~News(x)
                          \/ x \in EntryWrites(end, place, e)
  BY <1>0, <1>2, <1>5, <1>6, LightOrder
<1>8. /\ News(a) /\ ~News(d) /\ ~News(n)
      /\ a.entry.kind = e.kind
      /\ EntryWrites(end, place, e) \subseteq {a, d, n}
  BY <1>0, EntryWritesNews DEF EntryWrites
<1>9. /\ a.slot.block = b /\ d.slot.block = b /\ n.slot.block = b
  BY <1>0, EntryWritesLie DEF Enters, Demotes, PutEntry, PutName
<1> HIDE DEF k, a, d, n, b
<1>10. /\ k \o c \in Seq(Writes) /\ ToSet(k \o c) = ToSet(k) \cup ToSet(c) /\ Ordered(k \o c)
  <2>1. CASE e.kind = "dir"
    BY <1>5, <1>0, <2>1, ShortSets, ConcatEmptySeq DEF k
  <2>2. CASE e.kind # "dir"
    <3>1. \A x \in ToSet(k) : ~(News(x) /\ x.entry.kind = "dir")
      BY <1>0, <2>2, <1>7, <1>8
    <3>2. \A x \in ToSet(k), y \in ToSet(c) : Before(x, y)
      BY <1>0, <3>1, LightOrder
    <3> QED
      BY <1>0, <3>2, <1>3, <1>5, OrderedThen DEF k
  <2> QED
    BY <1>0, <2>1, <2>2
<1> DEFINE l == k \o c
<1>11. \A x \in ToSet(l) : \/ Light(x) /\ ~News(x)
                           \/ x.slot.block = b
  BY <1>0, <1>2, <1>7, <1>8, <1>9, <1>10
<1> HIDE DEF l
<1>12. \A x \in ToSet(l), y \in ToSet(z) : Before(x, y)
  <2> SUFFICES ASSUME NEW x \in ToSet(l), NEW y \in ToSet(z) PROVE Before(x, y)
    OBVIOUS
  <2>1. CASE Quiet(y) \/ Light(x)
    BY <1>0, <2>1, LightOrder
  <2>2. CASE ~Quiet(y) /\ ~Light(x)
    <3>1. SizeOnly(y) /\ Len(path) # 1
      BY <1>0, <2>2
    <3>2. y.to = "entry" /\ ~News(y) /\ y.slot.block = RootBlock
      BY <3>1, SizeOnlyIs DEF AtRest
    <3>3. x.slot.block = b /\ b # RootBlock
      BY <1>0, <2>2, <3>1, <1>11, ParentIsDir, Zenon DEF b
    <3>4. x.slot # y.slot /\ Behind(y.slot) # x.slot
      BY <3>2, <3>3, SpotIs DEF Behind
    <3> QED
      BY <3>2, <3>4 DEF Before
  <2> QED
    BY <1>0, <2>1, <2>2
<1>13. /\ l \o z \in Seq(Writes) /\ ToSet(l \o z) = ToSet(l) \cup ToSet(z) /\ Ordered(l \o z)
       /\ l \o z # << >> /\ Last(l \o z) = Last(z)
  BY <1>0, <1>10, <1>12, OrderedThen, LastThen DEF l
<1>14. ws = l \o z
  BY DEF l, k, j, i, Series
<1>15. ToSet(l) = ToSet(v) \cup EntryWrites(end, place, e) \cup ToSet(q) \cup ToSet(c)
  BY <1>0, <1>5, <1>6, <1>10 DEF l, k
<1> QED
  BY <1>0, <1>13, <1>14, <1>15

\* What a plan that adds e may write; K are its blocks.
Adding(R, K, end, place, e) ==
    /\ \A w \in R : Quiet(w) \/ w \in K \/ SizeOnly(w) \/ w \in EntryWrites(end, place, e)
    /\ K \subseteq R /\ EntryWrites(end, place, e) \subseteq R

\* An entry that is written with its size alone, and a block of no directory,
\* fit among any writes.
LEMMA MildIsFine ==
    ASSUME Typed, NEW R, NEW w
    PROVE  /\ SizeOnly(w) => Each(R, w)
           /\ Quiet(w) => Each(R, w)
           /\ w.to = "block" /\ PutsBlock(w) => Each(R, w)
<1>1. ASSUME SizeOnly(w) PROVE Each(R, w)
  <2>1. /\ ~News(w) /\ w.to = "entry" /\ IsDir(w.slot)
        /\ w.entry.active /\ w.entry.name = EntryAt(w.slot).name
        /\ w.entry.kind = EntryAt(w.slot).kind /\ w.entry.first = EntryAt(w.slot).first
        /\ w.entry.last = EntryAt(w.slot).last
    BY <1>1, SizeOnlyIs, Zenon
  <2>2. KeepsEntry(R, w)
    BY <2>1, Zenon DEF KeepsEntry, IsDir
  <2> QED
    BY <2>1, <2>2 DEF Each
<1>2. ASSUME Quiet(w) PROVE Each(R, w)
  BY <1>2 DEF Each, Quiet, News
<1>3. ASSUME w.to = "block", PutsBlock(w) PROVE Each(R, w)
  BY <1>3 DEF Each, News
<1> QED
  BY <1>1, <1>2, <1>3

\* Every write of a command that adds an entry fits to the image and to the others.
LEMMA AddingIsFine ==
    ASSUME AtRest, NEW b, NEW end, NEW place, Placed(b, end, place), NEW e, NewLast(e),
           e.kind \in {"file", "dir"}, Fitting(e.name, e.kind),
           \A s \in Spots : EntryAt(s).active /\ s.block = b => EntryAt(s).name # e.name,
           NEW K, NEW R, Adding(R, K, end, place, e),
           \A w \in K : /\ w.to = "block" /\ PutsBlock(w)
                        /\ e.kind = "dir" => w.content.entries = <<Indicator>>,
           e.kind = "dir" => \E w \in K : w.place = e.first
    PROVE  Fine(R)
<1> DEFINE d == Demotes(end)
           a == Enters(place, e)
           n == PutName(place, e.name)
<1>1. EntryWrites(end, place, e) = (IF end # place THEN {d} ELSE {}) \cup {a, n}
  BY DEF EntryWrites
<1>2. end.block = b /\ place.block = b
  BY EntryWritesLie
<1>3. News(a) /\ ~News(d) /\ ~News(n)
  BY EntryWritesNews
<1>4. /\ a.to = "entry" /\ a.slot = place /\ d.to = "entry" /\ d.slot = end
      /\ n.to = "name" /\ n.slot = place /\ n.name = e.name
      /\ a.entry = [e EXCEPT !.name = Unnamed]
      /\ d.entry = [EntryAt(end) EXCEPT !.last = FALSE]
  BY DEF Enters, Demotes, PutEntry, PutName
<1>5. /\ a.entry.active /\ a.entry.kind = e.kind /\ a.entry.first = e.first
  BY <1>4 DEF NewLast, Entries
<1>6. end \in Spots /\ EntryAt(end) \in Entries
  BY EntryIs DEF Placed, AtRest
<1>7. /\ end = At(b, Size(b)) /\ b \in Dirs
      /\ \/ ~EntryAt(end).active /\ place = end
         \/ EntryAt(end).active /\ place = Behind(end)
  BY DEF Placed
<1> HIDE DEF a, d, n
<1>8. a \in R /\ n \in R /\ (end # place => d \in R) /\ K \subseteq R
  BY <1>1 DEF Adding
<1>9. ASSUME end # place PROVE Each(R, d)
  <2>1. /\ d.entry.active = EntryAt(end).active /\ d.entry.name = EntryAt(end).name
        /\ d.entry.kind = EntryAt(end).kind /\ d.entry.first = EntryAt(end).first
        /\ d.entry.last = FALSE
    BY <1>4, <1>6 DEF Entries
  <2>2. EntryAt(end).active /\ place = Behind(end)
    BY <1>7, <1>9
  <2>3. \E v \in R : News(v) /\ v.slot = Behind(d.slot)
    BY <1>3, <1>4, <1>8, <2>2
  <2>4. KeepsEntry(R, d)
    BY <1>4, <2>1, <2>2, <2>3, Zenon DEF KeepsEntry
  <2> QED
    BY <1>3, <1>4, <2>4 DEF Each
<1>10. AddsEntry(R, a)
  <2>0. a.slot.block = b
    BY <1>2, <1>4
  <2>1. \/ a.slot.index = Size(b) /\ ~EntryAt(a.slot).active
        \/ /\ a.slot.index = Size(b) + 1 /\ EntryAt(At(b, Size(b))).active
           /\ \E v \in R : v.to = "entry" /\ v.slot = At(b, Size(b)) /\ ~v.entry.last
    <3>1. CASE ~EntryAt(end).active /\ place = end
      BY <3>1, <1>4, <1>7, SpotIs
    <3>2. CASE EntryAt(end).active /\ place = Behind(end)
      <4>1. end # place
        BY <3>2, <1>6, BehindIsNext
      <4>2. ~d.entry.last
        BY <1>4, <1>6 DEF Entries
      <4>3. a.slot.index = Size(b) + 1
        BY <3>2, <1>4, <1>7, SpotIs DEF Behind
      <4> QED
        BY <3>2, <4>1, <4>2, <4>3, <1>4, <1>7, <1>8
    <3> QED
      BY <3>1, <3>2, <1>7
  <2>2. ASSUME e.kind = "dir"
        PROVE  /\ \A v \in R : v.to = "block" /\ v.place = e.first
                                 => v.content.entries = <<Indicator>>
               /\ \E v \in R : v.to = "block" /\ v.place = e.first
    <3>1. ASSUME NEW v \in R, v.to = "block" PROVE v \in K
      <4>1. ~Quiet(v) /\ v # a /\ v # d /\ v # n
        BY <3>1, <1>4 DEF Quiet
      <4>2. ~SizeOnly(v)
        BY <3>1 DEF SizeOnly
      <4> QED
        BY <4>1, <4>2, <1>1 DEF Adding
    <3> QED
      BY <3>1, <2>2, <1>8
  <2> QED
    BY <2>0, <2>1, <2>2, <1>5, <1>7 DEF AddsEntry
<1>11. GivesName(R, n)
  <2>1. \E v \in R : News(v) /\ v.slot = n.slot /\ Fitting(n.name, v.entry.kind)
    BY <1>3, <1>4, <1>5, <1>8
  <2> QED
    BY <2>1, <1>2, <1>4 DEF GivesName
<1>12. Each(R, a)
  BY <1>3, <1>4, <1>10 DEF Each
<1>13. Each(R, n)
  BY <1>3, <1>4, <1>11 DEF Each
<1>14. ASSUME NEW w \in R PROVE Each(R, w)
  <2>1. CASE Quiet(w) \/ SizeOnly(w) \/ w \in K
    BY <2>1, MildIsFine DEF AtRest
  <2>2. CASE w \in EntryWrites(end, place, e)
    BY <2>2, <1>1, <1>9, <1>12, <1>13
  <2> QED
    BY <2>1, <2>2 DEF Adding
<1> QED
  BY <1>14 DEF Fine

-----------------------------------------------------------------------------
(* What each command plans *)

\* The superblocks that ws writes, s the last one.
Closes(ws, S, s) ==
    /\ \A w \in ToSet(ws) : w.to = "sb" => w.sb \in S \cup {s}
    /\ Last(ws) = PutSuperblock(s)

\* ws puts the new entry e at the end of the directory of the path, and writes
\* the blocks K.
Enlarges(ws, path, e, K) ==
    /\ NewLast(e) /\ e.name = Last(path) /\ e.first \in Blocks \ Taken(fat)
    /\ FreeBlocks(fat) # {} /\ NeededBlocks(e) <= sb.numFree
    /\ \E end, place : /\ Placed(ParentBlock(path), end, place)
                       /\ Adding(ToSet(ws), K, end, place, e)

\* ws writes no entry but for the size of the path's directory.
Mild(ws) == \A w \in ToSet(ws) : Quiet(w) \/ SizeOnly(w)

\* A path that is missing has a name that no entry of its directory has.
LEMMA MissingIs ==
    ASSUME AtRest, NEW path \in Paths, PathMissing(path)
    PROVE  /\ ParentFound(path) /\ Marked(ParentBlock(path))
           /\ \A s \in Spots : EntryAt(s).active /\ s.block = ParentBlock(path)
                                 => EntryAt(s).name # Last(path)
<1>1. /\ ParentFound(path) /\ ~Found(ParentBlock(path), Last(path))
      /\ ~ReadsJunk(ParentBlock(path))
  BY DEF PathMissing, Missing
<1>2. ParentBlock(path) \in Dirs /\ ParentBlock(path) \in Blocks
  BY <1>1, ParentIsDir
<1>3. TableIs(ParentBlock(path))
  BY <1>2 DEF AtRest, Tables
<1> QED
  BY <1>1, <1>2, <1>3, TableFound DEF AtRest

\* A path that is found has an entry in its directory.
LEMMA FoundHere ==
    ASSUME AtRest, NEW path \in Paths, PathFound(path)
    PROVE  /\ ParentFound(path)
           /\ PathSlot(path) \in Spots /\ PathSlot(path).block = ParentBlock(path)
           /\ EntryAt(PathSlot(path)).active /\ EntryAt(PathSlot(path)).name = Last(path)
<1>1. ParentFound(path) /\ Found(ParentBlock(path), Last(path))
  BY DEF PathFound
<1>2. ParentBlock(path) \in Dirs /\ ParentBlock(path) \in Blocks
  BY <1>1, ParentIsDir
<1>3. TableIs(ParentBlock(path))
  BY <1>2 DEF AtRest, Tables
<1> QED
  BY <1>1, <1>2, <1>3, TableFound DEF AtRest, PathSlot

\* A series that puts a new entry into a free block.
LEMMA AddingSeries ==
    ASSUME AtRest, NEW path \in Paths, ParentFound(path),
           NEW end, NEW place, Placed(ParentBlock(path), end, place), NEW e, NewLast(e),
           NEW v, NEW q, NEW c, NEW z, Parts(path, e, v, q, c, z),
           NEW K, K \subseteq ToSet(v) \cup ToSet(c),
           \A w \in ToSet(v) \cup ToSet(c) : Quiet(w) \/ w \in K,
           NEW S, \A w \in ToSet(v) \cup ToSet(q) : w.to = "sb" => w.sb \in S,
           NEW s, Last(z) = PutSuperblock(s),
           \A w \in ToSet(z) : w.to = "sb" => w.sb = s,
           NEW ws, ws = Series(end, place, e, v, q, c, z)
    PROVE  /\ ws \in Seq(Writes) /\ Ordered(ws) /\ ws # << >>
           /\ Closes(ws, S, s)
           /\ Adding(ToSet(ws), K, end, place, e)
<1>1. /\ ws \in Seq(Writes) /\ Ordered(ws) /\ ws # << >> /\ Last(ws) = Last(z)
      /\ ToSet(ws) = ToSet(v) \cup EntryWrites(end, place, e)
                       \cup ToSet(q) \cup ToSet(c) \cup ToSet(z)
  <2>1. ws \in Seq(Writes) /\ Ordered(ws)
    BY AddingOrder
  <2>2. ws # << >> /\ Last(ws) = Last(z)
    BY AddingOrder
  <2>3. ToSet(ws) = ToSet(v) \cup EntryWrites(end, place, e)
                     \cup ToSet(q) \cup ToSet(c) \cup ToSet(z)
    BY AddingOrder
  <2> QED
    BY <2>1, <2>2, <2>3
<1>2. /\ \A w \in ToSet(q) : Quiet(w)
      /\ \A w \in ToSet(z) : Quiet(w) \/ (SizeOnly(w) /\ Len(path) # 1)
      /\ \A w \in ToSet(c) : w.to = "block"
  BY DEF Parts
<1>3. ASSUME NEW w \in ToSet(ws), w.to = "sb" PROVE w.sb \in S \cup {s}
  BY <1>1, <1>2, <1>3 DEF EntryWrites, Enters, Demotes, PutEntry, PutName
<1>4. Closes(ws, S, s)
  BY <1>1, <1>3 DEF Closes
<1>5. Adding(ToSet(ws), K, end, place, e)
  <2>1. ASSUME NEW w \in ToSet(ws)
        PROVE  Quiet(w) \/ w \in K \/ SizeOnly(w) \/ w \in EntryWrites(end, place, e)
    BY <1>1, <1>2
  <2>2. K \subseteq ToSet(ws) /\ EntryWrites(end, place, e) \subseteq ToSet(ws)
    BY <1>1
  <2> QED
    BY <2>1, <2>2 DEF Adding
<1> QED
  BY <1>1, <1>4, <1>5

\* A series that puts a new entry, from what add_dir_entry answers.
LEMMA EnlargingPlan ==
    ASSUME AtRest, NEW path \in Paths, ParentFound(path), Marked(ParentBlock(path)),
           NEW e \in NewOnes, e.name = Last(path),
           NEW r, r = add_dir_entry(ParentBlock(path), e, sb, fat), r.res = "done",
           ~Grows(r.writes),
           NEW t \in Superblocks,
           NEW c \in Seq(Writes), \A w \in ToSet(c) : w.to = "block",
           e.kind = "dir" => c = << >>,
           NEW n \in Nat,
           NEW ws, ws = r.writes \o WriteSuperblockAndFat(t, r.fat) \o c \o AddSizes(path, n, t)
    PROVE  /\ r.first \in Blocks \ Taken(fat)
           /\ ws \in Seq(Writes) /\ Ordered(ws) /\ ws # << >>
           /\ Closes(ws, {OneFewerFree(sb), t}, Grown(t, n))
           /\ Enlarges(ws, path, [e EXCEPT !.first = r.first, !.last = TRUE],
                       ToSet(c) \cup (IF e.kind = "dir" THEN {NewTable(r.first)} ELSE {}))
<1> DEFINE b == ParentBlock(path)
           first == find_free_block(fat)
           s2 == OneFewerFree(sb)
           f2 == [fat EXCEPT ![first] = FAT_ENTRY_END]
           e2 == [e EXCEPT !.first = first, !.last = TRUE]
           v == Allocation(first, e, s2, f2)
           q == WriteSuperblockAndFat(t, f2)
           z == AddSizes(path, n, t)
<1>1. b \in Dirs /\ b \in Taken(fat)
  BY ParentIsDir
<1>2. /\ r.first = first /\ FreeBlocks(fat) # {}
      /\ NeededBlocks(e) <= sb.numFree /\ r.sb = s2 /\ r.fat = f2
      /\ \E end, place : Placed(b, end, place) /\ r.writes = v \o Insertion(end, place, e2)
  <2>1. AddedHere(r, b, e)
    BY <1>1, AddIsPlaced DEF RefusedHere
  <2>2. /\ r.first = first /\ FreeBlocks(fat) # {}
        /\ NeededBlocks(e) <= sb.numFree /\ r.sb = s2
    BY <2>1 DEF AddedHere
  <2>3. r.fat = f2
    BY <2>1, <2>2 DEF AddedHere
  <2>4. PICK end, place :
          /\ Placed(b, end, place)
          /\ r.writes = Allocation(r.first, e, r.sb, r.fat)
                          \o Insertion(end, place, [e EXCEPT !.first = r.first,
                                                             !.last = TRUE])
    BY <2>1 DEF AddedHere
  <2>5. r.writes = v \o Insertion(end, place, e2)
    BY <2>2, <2>3, <2>4
  <2> QED
    BY <2>2, <2>3, <2>4, <2>5, Zenon
<1>3. PICK end, place : Placed(b, end, place) /\ r.writes = v \o Insertion(end, place, e2)
  BY <1>2
<1>4. first \in Blocks /\ first \notin Taken(fat)
  BY <1>2, FreeIs
<1> HIDE DEF first
<1>5. s2 \in Superblocks
  BY OneFewerIs DEF AtRest, Typed
<1>6. f2 \in Fats /\ Linked(f2)
  BY <1>4, TakeFree DEF AtRest, Typed
<1>7. /\ e2 \in Entries /\ e2.active /\ e2.last /\ e2.name = Last(path) /\ e2.kind = e.kind
      /\ e2.first = first /\ e2.size = e.size
  <2>1. e2 \in Entries /\ e2.name = Last(path) /\ e2.kind = e.kind
        /\ e2.first = first /\ e2.size = e.size
    BY <1>4 DEF NewOnes, Entries
  <2>2. e2.active /\ e2.last
    BY DEF NewOnes, Entries
  <2> QED
    BY <2>1, <2>2
<1>8. NewLast(e2)
  BY <1>7, PathIs DEF NewLast
<1>9. e \in Entries /\ PutSuperblock(s2) \in Writes /\ PutFat(f2) \in Writes
      /\ PutSuperblock(t) \in Writes
  BY <1>5, <1>6, PutIs DEF NewOnes
<1> HIDE DEF s2, f2, e2
<1>10. /\ v \in Seq(Writes)
       /\ ToSet(v) = {PutSuperblock(s2), PutFat(f2)}
                       \cup (IF e.kind = "dir" THEN {NewTable(first)} ELSE {})
  BY <1>4, <1>5, <1>6, <1>9, AllocationSet
<1>11. q \in Seq(Writes) /\ ToSet(q) = {PutSuperblock(t), PutFat(f2)}
  BY <1>9, Short, ShortSets DEF WriteSuperblockAndFat
<1>12. /\ z \in Seq(Writes) /\ Ordered(z) /\ z # << >>
       /\ Last(z) = PutSuperblock(Grown(t, n))
       /\ \A w \in ToSet(z) : \/ w = PutSuperblock(Grown(t, n))
                              \/ SizeOnly(w) /\ Len(path) # 1
  BY SizesSet
<1>13. ws = Series(end, place, e2, v, q, c, z)
  BY <1>2, <1>3 DEF Series
<1> HIDE DEF v, q, z, b
<1>14. /\ \A s : PutSuperblock(s).to = "sb" /\ PutSuperblock(s).sb = s
       /\ \A f : PutFat(f).to = "fat"
       /\ NewTable(first).to = "block"
  BY DEF PutSuperblock, PutFat, PutBlock, NewTable
<1>15. /\ \A w \in ToSet(v) : Light(w)
       /\ \A w \in ToSet(q) : Quiet(w)
       /\ \A w \in ToSet(z) : Quiet(w) \/ (SizeOnly(w) /\ Len(path) # 1)
  BY <1>10, <1>11, <1>12, <1>14 DEF Light, Quiet
<1> DEFINE K == ToSet(c) \cup (IF e.kind = "dir" THEN {NewTable(first)} ELSE {})
<1>16. Parts(path, e2, v, q, c, z)
  BY <1>7, <1>10, <1>11, <1>12, <1>15 DEF Parts
<1>17. Placed(ParentBlock(path), end, place)
  BY <1>3 DEF b
<1>18. /\ K \subseteq ToSet(v) \cup ToSet(c)
       /\ \A w \in ToSet(v) \cup ToSet(c) : Quiet(w) \/ w \in K
       /\ \A w \in ToSet(v) \cup ToSet(q) : w.to = "sb" => w.sb \in {s2, t}
       /\ \A w \in ToSet(z) : w.to = "sb" => w.sb = Grown(t, n)
  <2>1. K \subseteq ToSet(v) \cup ToSet(c)
    BY <1>10
  <2>2. \A w \in ToSet(v) \cup ToSet(c) : Quiet(w) \/ w \in K
    BY <1>10, <1>14 DEF Quiet
  <2>3. \A w \in ToSet(v) \cup ToSet(q) : w.to = "sb" => w.sb \in {s2, t}
    BY <1>10, <1>11, <1>14
  <2>4. \A w \in ToSet(z) : w.to = "sb" => w.sb = Grown(t, n)
    BY <1>12, <1>14 DEF SizeOnly
  <2> QED
    BY <2>1, <2>2, <2>3, <2>4
<1> HIDE DEF K
<1>21. /\ ws \in Seq(Writes) /\ Ordered(ws) /\ ws # << >>
       /\ Closes(ws, {s2, t}, Grown(t, n))
       /\ Adding(ToSet(ws), K, end, place, e2)
  BY <1>8, <1>12, <1>13, <1>16, <1>17, <1>18, AddingSeries
<1>19. NeededBlocks(e2) <= sb.numFree
  BY <1>2, <1>7 DEF NeededBlocks
<1>20. Enlarges(ws, path, e2, K)
  BY <1>2, <1>4, <1>7, <1>8, <1>17, <1>19, <1>21 DEF Enlarges
<1> QED
  BY <1>2, <1>4, <1>20, <1>21 DEF s2, e2, K

\* A series that a command may leave to be done.
Plan(ws) == ws \in Seq(Writes) /\ Ordered(ws) /\ ws # << >>

\* A command that makes no entry: the sizes, and what was read, are written.
LEMMA MildPlan ==
    ASSUME AtRest, NEW path \in Paths, ParentFound(path), NEW n \in Nat,
           NEW t \in Superblocks,
           NEW ws, \/ ws = AddSizes(path, n, t)
                   \/ ws = WriteSuperblockAndFat(t, fat) \o AddSizes(path, n, t)
    PROVE  Plan(ws) /\ Mild(ws) /\ Closes(ws, {t}, Grown(t, n))
<1> DEFINE z == AddSizes(path, n, t)
           q == WriteSuperblockAndFat(t, fat)
<1>1. /\ z \in Seq(Writes) /\ Ordered(z) /\ z # << >>
      /\ Last(z) = PutSuperblock(Grown(t, n))
      /\ \A w \in ToSet(z) : \/ w = PutSuperblock(Grown(t, n))
                             \/ SizeOnly(w) /\ Len(path) # 1
  BY SizesSet
<1>2. q \in Seq(Writes) /\ ToSet(q) = {PutSuperblock(t), PutFat(fat)}
  BY Short, ShortSets, PutIs DEF WriteSuperblockAndFat, AtRest, Typed
<1> HIDE DEF q, z
<1>3. /\ \A s : PutSuperblock(s).to = "sb" /\ PutSuperblock(s).sb = s
      /\ \A f : PutFat(f).to = "fat"
  BY DEF PutSuperblock, PutFat
<1>4. /\ \A w \in ToSet(z) : Quiet(w) \/ SizeOnly(w)
      /\ \A w \in ToSet(z) : w.to = "sb" => w.sb = Grown(t, n)
      /\ \A w \in ToSet(q) : Quiet(w)
      /\ \A w \in ToSet(q) : w.to = "sb" => w.sb = t
  BY <1>1, <1>2, <1>3 DEF Quiet, SizeOnly
<1>5. CASE ws = z
  <2>1. Plan(ws) /\ Mild(ws)
    BY <1>1, <1>4, <1>5 DEF Plan, Mild
  <2>2. Closes(ws, {t}, Grown(t, n))
    BY <1>1, <1>4, <1>5 DEF Closes
  <2> QED
    BY <2>1, <2>2
<1>6. CASE ws = q \o z
  <2>1. /\ ws \in Seq(Writes) /\ ToSet(ws) = ToSet(q) \cup ToSet(z)
        /\ Last(ws) = Last(z) /\ ws # << >>
    BY <1>1, <1>2, <1>6, OrderedThen, LastThen
  <2>2. Ordered(q) /\ \A a \in ToSet(q), b \in ToSet(z) : Before(a, b)
    BY <1>4, LightOrder DEF Light, Quiet
  <2>3. Ordered(ws)
    BY <1>1, <1>2, <1>6, <2>2, OrderedThen
  <2>4. Plan(ws) /\ Mild(ws)
    BY <1>4, <2>1, <2>3 DEF Plan, Mild
  <2>5. Closes(ws, {t}, Grown(t, n))
    BY <1>1, <1>4, <2>1 DEF Closes
  <2> QED
    BY <2>4, <2>5
<1> QED
  BY <1>5, <1>6 DEF q, z

\* What a command that makes the directory of the path writes.
OneMoreDir(s) == [s EXCEPT !.numDirs = @ + 1]
OneMoreFile(s) == [s EXCEPT !.numFiles = @ + 1]
MakesDir(path, ws) ==
    /\ PathMissing(path) /\ Last(path) \in DirNames /\ sb.numDirs <= SizeBound
    /\ \E e : /\ e.kind = "dir" /\ Enlarges(ws, path, e, {NewTable(e.first)})
              /\ LET t == OneMoreDir(OneFewerFree(sb))
                 IN  Closes(ws, {OneFewerFree(sb), t}, Grown(t, 0))
RefusesDir(path, ws) ==
    /\ PathMissing(path) /\ sb.numDirs <= SizeBound
    /\ Mild(ws) /\ Closes(ws, {OneMoreDir(sb)}, Grown(OneMoreDir(sb), 0))

\* mkdir either adds a directory or gives up and only counts it.
LEMMA MkdirIs ==
    ASSUME AtRest, NEW path \in Paths, Last(path) \in DirNames, mkdir(path), ~Grows(todo')
    PROVE  /\ Plan(todo')
           /\ \/ MakesDir(path, todo') /\ making'.what = Directory
              \/ RefusesDir(path, todo') /\ making'.what = stored[path]
<1> DEFINE b == ParentBlock(path)
           e == NewEntry(Last(path), "dir", 0, {"r", "w"})
<1>1. PICK r : /\ r = add_dir_entry(b, e, sb, fat)
               /\ MakeDir(path, r, OneMoreDir(r.sb))
  BY DEF mkdir, OneMoreDir
<1>2. PathMissing(path) /\ sb.numDirs <= SizeBound
  BY DEF mkdir
<1>3. ParentFound(path) /\ Marked(b)
  BY <1>2, MissingIs
<1>4. b \in Dirs /\ b \in Taken(fat)
  BY <1>3, ParentIsDir
<1>5. e \in NewOnes /\ e.kind = "dir" /\ e.name = Last(path)
  BY PathIs, NewEntryIs DEF NewEntry, Indicator
<1> HIDE DEF b, e
<1> DEFINE t == OneMoreDir(r.sb)
           z == AddSizes(path, 0, t)
           q == WriteSuperblockAndFat(t, r.fat)
<1>6. PICK ws : ws = todo'
  OBVIOUS
<1>7. /\ ws = IF r.res = "error" THEN r.writes ELSE r.writes \o q \o z
      /\ ws # << >>
      /\ making'.what = IF r.res = "done" THEN Directory ELSE stored[path]
  BY <1>1, <1>6 DEF MakeDir, Start
<1>8. r.writes \in Seq(Writes) /\ r.sb \in Superblocks /\ r.fat \in Fats
  BY <1>1, <1>4, <1>5, AddDirEntryIs DEF Planned, AtRest
<1>9. t \in Superblocks
  BY <1>8, CountedIs DEF OneMoreDir
<1>10. q \in Seq(Writes) /\ z \in Seq(Writes)
  <2>1. PutSuperblock(t) \in Writes /\ PutFat(r.fat) \in Writes
    BY <1>8, <1>9, PutIs
  <2>2. q \in Seq(Writes)
    BY <2>1, Short DEF WriteSuperblockAndFat
  <2>3. 0 \in Nat
    OBVIOUS
  <2>4. z \in Seq(Writes)
    BY <1>3, <1>9, <2>3, SizesSet
  <2> QED
    BY <2>2, <2>4
<1> HIDE DEF t, q, z
<1>11. ~Grows(r.writes)
  <2>1. CASE r.res = "error"
    BY <2>1, <1>6, <1>7
  <2>2. CASE r.res # "error"
    <3>1. ASSUME Grows(r.writes) PROVE FALSE
      <4>1. Grows(r.writes \o q) /\ r.writes \o q \in Seq(Writes)
        BY <1>8, <1>10, <3>1, GrowsThen, ConcatAt
      <4>2. Grows(r.writes \o q \o z)
        BY <1>10, <4>1, GrowsThen
      <4> QED
        BY <2>2, <4>2, <1>6, <1>7
    <3> QED
      BY <3>1
  <2> QED
    BY <2>1, <2>2
<1>12. RefusedHere(r) \/ AddedHere(r, b, e)
  BY <1>1, <1>3, <1>4, <1>5, <1>11, AddIsPlaced
<1>13. CASE RefusedHere(r)
  <2>1. r.res \in {"full", "error"} /\ r.writes = << >> /\ r.sb = sb /\ r.fat = fat
    BY <1>13 DEF RefusedHere
  <2>2. r.res = "full" /\ ws = << >> \o q \o z
    BY <1>7, <2>1
  <2>3. << >> \o q = q
    BY <1>10, ConcatEmptySeq
  <2>4. ws = WriteSuperblockAndFat(t, fat) \o AddSizes(path, 0, t)
    BY <2>1, <2>2, <2>3 DEF q, z
  <2>5. Plan(ws) /\ Mild(ws) /\ Closes(ws, {t}, Grown(t, 0))
    BY <1>3, <1>9, <2>4, MildPlan
  <2>6. t = OneMoreDir(sb)
    BY <2>1 DEF t
  <2> QED
    BY <1>2, <1>6, <1>7, <2>2, <2>5, <2>6 DEF RefusesDir
<1>14. CASE AddedHere(r, b, e)
  <2>1. r.res = "done" /\ r.sb = OneFewerFree(sb)
    BY <1>14 DEF AddedHere
  <2>2. ws = r.writes \o q \o << >> \o z
    <3>1. r.writes \o q \in Seq(Writes)
      BY <1>8, <1>10, ConcatAt
    <3>2. (r.writes \o q) \o << >> = r.writes \o q
      BY <3>1, ConcatEmptySeq
    <3> QED
      BY <1>7, <2>1, <3>2
  <2>3. << >> \in Seq(Writes) /\ ToSet(<< >>) = {}
    BY Short, ShortSets
  <2> DEFINE e2 == [e EXCEPT !.first = r.first, !.last = TRUE]
  <2>4. ws = r.writes \o WriteSuperblockAndFat(t, r.fat) \o << >> \o AddSizes(path, 0, t)
    BY <2>2 DEF q, z
  <2>5. /\ ws \in Seq(Writes) /\ Ordered(ws) /\ ws # << >>
        /\ Closes(ws, {OneFewerFree(sb), t}, Grown(t, 0))
        /\ Enlarges(ws, path, e2, ToSet(<< >>) \cup
                     (IF e.kind = "dir" THEN {NewTable(r.first)} ELSE {}))
    <3>1. 0 \in Nat
      OBVIOUS
    <3>2. Marked(ParentBlock(path)) /\ r = add_dir_entry(ParentBlock(path), e, sb, fat)
      BY <1>1, <1>3 DEF b
    <3>3. \A w \in ToSet(<< >>) : w.to = "block"
      BY <2>3
    <3> QED
      BY <1>3, <1>5, <1>9, <1>11, <2>1, <2>3, <2>4, <3>1, <3>2, <3>3, EnlargingPlan
  <2>6. e2.first = r.first /\ e2.kind = "dir"
    BY <1>5 DEF NewOnes, Entries
  <2>7. t = OneMoreDir(OneFewerFree(sb))
    BY <2>1 DEF t
  <2> HIDE DEF e2
  <2>8. Enlarges(ws, path, e2, {NewTable(e2.first)})
    BY <2>5, <2>6, <2>3, <1>5
  <2>9. Closes(ws, {OneFewerFree(sb), OneMoreDir(OneFewerFree(sb))},
               Grown(OneMoreDir(OneFewerFree(sb)), 0))
    BY <2>5, <2>7
  <2>10. MakesDir(path, ws)
    BY <1>2, <2>6, <2>8, <2>9 DEF MakesDir
  <2> QED
    BY <1>6, <1>7, <2>1, <2>5, <2>10 DEF Plan
<1> QED
  BY <1>12, <1>13, <1>14

\* The blocks that the copy of a file writes.
Copied(first, l) == IF l.len = 1 THEN {Piece(first, l)} ELSE {}

\* What a command that makes a file writes.
MakesFile(path, ws, l) ==
    /\ PathMissing(path) /\ Last(path) \in FileNames
    /\ \E e : /\ e.kind = "file" /\ e.size = l.len
              /\ Enlarges(ws, path, e, Copied(e.first, l))
              /\ LET t == OneMoreFile(OneFewerFree(sb))
                 IN  Closes(ws, {OneFewerFree(sb), t}, Grown(t, l.len))

\* write of a name not yet there adds a file.
LEMMA WriteNewIs ==
    ASSUME AtRest, NEW path \in Paths, Last(path) \in FileNames,
           NEW l \in LinuxFiles, l.len <= 1, WriteNew(path, l), ~Grows(todo')
    PROVE  Plan(todo') /\ MakesFile(path, todo', l) /\ making'.what = l.id
<1> DEFINE b == ParentBlock(path)
           e == NewEntry(Last(path), "file", l.len, l.mode)
<1>1. PICK r : /\ r = add_dir_entry(b, e, sb, fat)
               /\ MakeFile(path, r, OneMoreFile(r.sb), l)
  BY DEF WriteNew, OneMoreFile
<1>2. PathMissing(path)
  BY DEF WriteNew
<1>3. ParentFound(path) /\ Marked(b)
  BY <1>2, MissingIs
<1>4. b \in Dirs /\ b \in Taken(fat)
  BY <1>3, ParentIsDir
<1>5. e \in NewOnes /\ e.kind = "file" /\ e.name = Last(path) /\ e.size = l.len
  BY PathIs, NewEntryIs, LinuxFileIs DEF NewEntry, Indicator
<1> HIDE DEF b, e
<1> DEFINE t == OneMoreFile(r.sb)
           z == AddSizes(path, l.len, t)
           q == WriteSuperblockAndFat(t, r.fat)
           c == copy_file_from_linux(r.first, l)
<1>6. PICK ws : ws = todo'
  OBVIOUS
<1>7. /\ ws = IF r.res # "done" THEN r.writes ELSE r.writes \o q \o c \o z
      /\ ws # << >>
      /\ making'.what = IF r.res = "done" THEN l.id ELSE stored[path]
  BY <1>1, <1>6 DEF MakeFile, Start
<1>8. /\ r.writes \in Seq(Writes) /\ r.sb \in Superblocks /\ r.fat \in Fats
      /\ r.res = "done" => r.first \in Blocks
  BY <1>1, <1>4, <1>5, AddDirEntryIs DEF Planned, AtRest
<1>9. t \in Superblocks
  BY <1>8, CountedIs DEF OneMoreFile
<1>10. q \in Seq(Writes) /\ z \in Seq(Writes)
  <2>1. PutSuperblock(t) \in Writes /\ PutFat(r.fat) \in Writes
    BY <1>8, <1>9, PutIs
  <2>2. q \in Seq(Writes)
    BY <2>1, Short DEF WriteSuperblockAndFat
  <2>3. z \in Seq(Writes)
    BY <1>3, <1>9, LinuxFileIs, SizesSet
  <2> QED
    BY <2>2, <2>3
<1>11. r.res = "done" => /\ c \in Seq(Writes) /\ ToSet(c) = Copied(r.first, l)
                         /\ \A w \in ToSet(c) : w.to = "block"
  <2>1. ASSUME r.res = "done" PROVE c \in Seq(Writes) /\ ToSet(c) = Copied(r.first, l)
    BY <2>1, <1>8, CopySet DEF Copied
  <2>2. Piece(r.first, l).to = "block"
    BY DEF Piece, PutBlock
  <2> QED
    BY <2>1, <2>2 DEF Copied
<1> HIDE DEF t, q, z, c
<1>12. ~Grows(r.writes)
  <2>1. CASE r.res # "done"
    BY <2>1, <1>6, <1>7
  <2>2. CASE r.res = "done"
    <3>1. ASSUME Grows(r.writes) PROVE FALSE
      <4>1. Grows(r.writes \o q) /\ r.writes \o q \in Seq(Writes)
        BY <1>8, <1>10, <3>1, GrowsThen, ConcatAt
      <4>2. Grows(r.writes \o q \o c) /\ r.writes \o q \o c \in Seq(Writes)
        BY <1>11, <2>2, <4>1, GrowsThen, ConcatAt
      <4>3. Grows(r.writes \o q \o c \o z)
        BY <1>10, <4>2, GrowsThen
      <4> QED
        BY <2>2, <4>3, <1>6, <1>7
    <3> QED
      BY <3>1
  <2> QED
    BY <2>1, <2>2
<1>13. RefusedHere(r) \/ AddedHere(r, b, e)
  BY <1>1, <1>3, <1>4, <1>5, <1>12, AddIsPlaced
<1>14. AddedHere(r, b, e)
  BY <1>7, <1>13 DEF RefusedHere
<1>15. r.res = "done" /\ r.sb = OneFewerFree(sb)
  BY <1>14 DEF AddedHere
<1> DEFINE e2 == [e EXCEPT !.first = r.first, !.last = TRUE]
<1>16. ws = r.writes \o WriteSuperblockAndFat(t, r.fat) \o c \o AddSizes(path, l.len, t)
  BY <1>7, <1>15 DEF q, z
<1>17. /\ ws \in Seq(Writes) /\ Ordered(ws) /\ ws # << >>
       /\ Closes(ws, {OneFewerFree(sb), t}, Grown(t, l.len))
       /\ Enlarges(ws, path, e2, ToSet(c) \cup
                    (IF e.kind = "dir" THEN {NewTable(r.first)} ELSE {}))
  <2>1. Marked(ParentBlock(path)) /\ r = add_dir_entry(ParentBlock(path), e, sb, fat)
    BY <1>1, <1>3 DEF b
  <2>2. l.len \in Nat
    BY LinuxFileIs
  <2> QED
    BY <1>3, <1>5, <1>9, <1>11, <1>12, <1>15, <1>16, <2>1, <2>2, EnlargingPlan
<1>18. e2.first = r.first /\ e2.kind = "file" /\ e2.size = l.len
  BY <1>5 DEF NewOnes, Entries
<1>19. t = OneMoreFile(OneFewerFree(sb))
  BY <1>15 DEF t
<1> HIDE DEF e2
<1>20. ToSet(c) \cup (IF e.kind = "dir" THEN {NewTable(r.first)} ELSE {})
         = Copied(e2.first, l)
  BY <1>5, <1>11, <1>15, <1>18
<1>21. Enlarges(ws, path, e2, Copied(e2.first, l))
  BY <1>17, <1>20
<1>22. Closes(ws, {OneFewerFree(sb), OneMoreFile(OneFewerFree(sb))},
              Grown(OneMoreFile(OneFewerFree(sb)), l.len))
  BY <1>17, <1>19
<1>23. MakesFile(path, ws, l)
  BY <1>2, <1>18, <1>21, <1>22 DEF MakesFile
<1> QED
  BY <1>6, <1>7, <1>15, <1>17, <1>23 DEF Plan

-----------------------------------------------------------------------------
(* Commands that write an entry again *)

\* ws writes e in the place of the path's entry, and the blocks K.
Replaces(path, ws, e, K) ==
    LET s == PathSlot(path)
    IN  /\ PathFound(path) /\ EntryAt(s).kind = "file"
        /\ e.active /\ e.name = EntryAt(s).name /\ e.kind = "file"
        /\ e.first = EntryAt(s).first /\ e.last = EntryAt(s).last
        /\ PutEntry(s, e) \in ToSet(ws) /\ K \subseteq ToSet(ws)
        /\ \A w \in ToSet(ws) : Quiet(w) \/ SizeOnly(w) \/ w \in K \/ w = PutEntry(s, e)

\* The name of a file is one that write is given.
LEMMA KindOfName ==
    ASSUME AtRest, DirNames \cap FileNames = {}, NEW path \in Paths, PathFound(path)
    PROVE  /\ Last(path) \in FileNames <=> EntryAt(PathSlot(path)).kind = "file"
           /\ Last(path) \in DirNames <=> EntryAt(PathSlot(path)).kind = "dir"
<1> DEFINE s == PathSlot(path)
<1>1. s \in Spots /\ EntryAt(s).active /\ EntryAt(s).name = Last(path)
  BY FoundHere
<1>2. Last(path) \in Names /\ Last(path) # Unnamed
  BY PathIs DEF AtRest
<1>3. EntryAt(s).kind \in {"file", "dir"} /\ Fitting(EntryAt(s).name, EntryAt(s).kind)
  BY <1>1 DEF AtRest, Tables, Housed
<1> QED
  BY <1>1, <1>2, <1>3 DEF Fitting, Names

Overwrites(path, ws, l) ==
    /\ \E e : e.size = l.len /\ Replaces(path, ws, e, Copied(e.first, l))
    /\ Closes(ws, {sb}, Grown(sb, l.len))

\* write over a file replaces its content, at the same entry.
LEMMA WriteOverIs ==
    ASSUME AtRest, DirNames \cap FileNames = {},
           NEW path \in Paths, Last(path) \in FileNames,
           NEW l \in LinuxFiles, l.len <= 1, NEW pw \in Given, WriteOver(path, l, pw)
    PROVE  Plan(todo') /\ Overwrites(path, todo', l) /\ making'.what = l.id
<1> DEFINE s == PathSlot(path)
           e == Overwritten(EntryAt(s), l)
           c == copy_file_from_linux(EntryAt(s).first, l)
           z == AddSizes(path, l.len, sb)
<1>1. PICK ws : ws = todo'
  OBVIOUS
<1>2. /\ PathFound(path) /\ ws = <<PutEntry(s, e)>> \o c \o z /\ making'.what = l.id
  BY <1>1 DEF WriteOver, Start
<1>3. /\ s \in Spots /\ EntryAt(s).active /\ EntryAt(s).name = Last(path)
      /\ EntryAt(s).kind = "file" /\ ParentFound(path)
  BY <1>2, FoundHere, KindOfName
<1>4. EntryAt(s) \in Entries /\ EntryAt(s).first \in Blocks
  BY <1>3, EntryIs DEF AtRest, Entries
<1>5. /\ e \in Entries /\ e.active /\ e.name = EntryAt(s).name /\ e.kind = "file"
      /\ e.first = EntryAt(s).first /\ e.last = EntryAt(s).last /\ e.size = l.len
  <2>1. NewEntry(EntryAt(s).name, "file", l.len, l.mode) \in Entries
    BY <1>4, LinuxFileIs, NewEntryIs DEF Entries
  <2>2. e \in Entries
    BY <1>4, <2>1 DEF Overwritten, Entries
  <2>3. e.active
    BY DEF Overwritten, NewEntry, Indicator
  <2>4. /\ e.name = EntryAt(s).name /\ e.kind = "file"
        /\ e.first = EntryAt(s).first /\ e.size = l.len
    BY DEF Overwritten, NewEntry, Indicator
  <2>5. e.last = EntryAt(s).last
    BY DEF Overwritten, NewEntry, Indicator
  <2> QED
    BY <2>2, <2>3, <2>4, <2>5
<1> DEFINE p == PutEntry(s, e)
<1>6. /\ p \in Writes /\ <<p>> \in Seq(Writes) /\ ToSet(<<p>>) = {p} /\ Ordered(<<p>>)
  BY Short, ShortSets, <1>3, <1>5, PutIs
<1>7. p.to = "entry" /\ p.slot = s /\ p.entry = e /\ ~News(p)
  <2>1. p.to = "entry" /\ p.slot = s /\ p.entry = e
    BY DEF PutEntry
  <2>2. Last(path) # Unnamed
    BY PathIs DEF AtRest
  <2> QED
    BY <1>3, <1>5, <2>1, <2>2 DEF News
<1>8. c \in Seq(Writes) /\ ToSet(c) = Copied(EntryAt(s).first, l)
  BY <1>4, CopySet DEF Copied
<1>9. \A w \in ToSet(c) : w.to = "block"
  BY <1>8 DEF Copied, Piece, PutBlock
<1>10. sb \in Superblocks /\ l.len \in Nat
  BY LinuxFileIs DEF AtRest, Typed
<1>11. /\ z \in Seq(Writes) /\ Ordered(z) /\ z # << >>
       /\ Last(z) = PutSuperblock(Grown(sb, l.len))
       /\ \A w \in ToSet(z) : \/ w = PutSuperblock(Grown(sb, l.len))
                              \/ SizeOnly(w) /\ Len(path) # 1
  BY <1>3, <1>10, SizesSet
<1>12. /\ PutSuperblock(Grown(sb, l.len)).to = "sb"
       /\ PutSuperblock(Grown(sb, l.len)).sb = Grown(sb, l.len)
  BY DEF PutSuperblock
<1>13. \A w \in ToSet(z) : Quiet(w) \/ SizeOnly(w)
  BY <1>11, <1>12 DEF Quiet
<1> HIDE DEF e, c, z, p
\* A size is written to another entry, that of a directory.
<1>14. \A w \in ToSet(z) : Before(p, w)
  <2>1. SUFFICES ASSUME NEW w \in ToSet(z) PROVE Before(p, w)
    OBVIOUS
  <2>2. CASE Quiet(w)
    BY <2>2, LightOrder DEF Quiet, Before, News
  <2>3. CASE SizeOnly(w)
    <3>1. w.to = "entry" /\ IsDir(w.slot)
      BY <2>3 DEF SizeOnly
    <3>2. w.slot # s
      BY <1>3, <3>1 DEF IsDir
    <3> QED
      BY <1>7, <3>1, <3>2 DEF Before
  <2> QED
    BY <2>1, <2>2, <2>3, <1>13
<1>15. /\ <<p>> \o c \in Seq(Writes) /\ ToSet(<<p>> \o c) = {p} \cup ToSet(c)
       /\ Ordered(<<p>> \o c)
  <2>1. Ordered(c)
    BY <1>9, LightOrder DEF Light
  <2>2. \A w \in ToSet(c) : Before(p, w)
    BY <1>7, <1>9, LightOrder
  <2> QED
    BY <1>6, <1>8, <2>1, <2>2, OrderedThen
<1>16. /\ ws \in Seq(Writes) /\ ToSet(ws) = {p} \cup ToSet(c) \cup ToSet(z)
       /\ Ordered(ws) /\ ws # << >> /\ Last(ws) = Last(z)
  <2>1. \A a \in {p} \cup ToSet(c), w \in ToSet(z) : Before(a, w)
    BY <1>9, <1>14, LightOrder DEF Light
  <2>2. ws = (<<p>> \o c) \o z
    BY <1>2 DEF p
  <2> QED
    BY <1>11, <1>15, <2>1, <2>2, OrderedThen, LastThen
<1>17. Replaces(path, ws, e, Copied(e.first, l))
  <2>1. Copied(e.first, l) = ToSet(c)
    BY <1>5, <1>8
  <2>2. \A w \in ToSet(ws) : Quiet(w) \/ SizeOnly(w) \/ w \in ToSet(c) \/ w = PutEntry(s, e)
    BY <1>13, <1>16 DEF p
  <2>3. PutEntry(s, e) \in ToSet(ws)
    BY <1>16 DEF p
  <2> QED
    BY <1>2, <1>3, <1>5, <1>16, <2>1, <2>2, <2>3 DEF Replaces
<1>18. Closes(ws, {sb}, Grown(sb, l.len))
  <2>1. ASSUME NEW w \in ToSet(ws), w.to = "sb" PROVE w.sb = Grown(sb, l.len)
    BY <2>1, <1>7, <1>9, <1>11, <1>12, <1>16 DEF SizeOnly
  <2> QED
    BY <1>11, <1>16, <2>1 DEF Closes
<1> QED
  BY <1>1, <1>2, <1>5, <1>16, <1>17, <1>18 DEF Plan, Overwrites

\* A command that writes the sizes alone, for a file that is not there.
Resizes(path, ws) == ParentFound(path) /\ Mild(ws) /\ Closes(ws, {sb}, Grown(sb, 1))

\* write that is refused or finds no room changes sizes only.
LEMMA WriteNothingIs ==
    ASSUME AtRest, NEW path \in Paths, NEW pw \in Given, WriteNothing(path, pw)
    PROVE  Plan(todo') /\ Resizes(path, todo') /\ making'.what = stored[path]
<1>1. PICK ws : ws = todo'
  OBVIOUS
<1>2. ws = AddSizes(path, 1, sb) /\ making'.what = stored[path]
  BY <1>1 DEF WriteNothing, Start
<1>3. ParentFound(path)
  BY DEF WriteNothing, PathMissing, PathFound
<1>4. 1 \in Nat /\ sb \in Superblocks
  BY DEF AtRest, Typed
<1>5. Plan(ws) /\ Mild(ws) /\ Closes(ws, {sb}, Grown(sb, 1))
  BY <1>2, <1>3, <1>4, MildPlan
<1> QED
  BY <1>1, <1>2, <1>3, <1>5 DEF Resizes

\* A command that changes what an entry says of the file.
Edits(path, ws) ==
    \E e : /\ e.size = EntryAt(PathSlot(path)).size
           /\ Replaces(path, ws, e, {})
           /\ ws = <<PutEntry(PathSlot(path), e)>>

\* A single write of an entry that keeps name, kind, block and size is an edit.
LEMMA EditIs ==
    ASSUME AtRest, NEW path \in Paths, PathFound(path),
           NEW e \in Entries, NEW old, old = EntryAt(PathSlot(path)), old.kind = "file",
           e.active = old.active, e.last = old.last,
           e.name = old.name, e.kind = old.kind, e.first = old.first, e.size = old.size,
           NEW ws, ws = <<PutEntry(PathSlot(path), e)>>
    PROVE  Plan(ws) /\ Edits(path, ws)
<1> DEFINE s == PathSlot(path)
           p == PutEntry(s, e)
<1>1. s \in Spots /\ EntryAt(s).active /\ ParentFound(path)
  BY FoundHere
<1>2. p \in Writes
  BY <1>1, PutIs
<1>3. ws \in Seq(Writes) /\ ToSet(ws) = {p} /\ Ordered(ws)
  BY <1>2, Short, ShortSets
<1>4. ws # << >>
  OBVIOUS
<1>5. e.active
  BY <1>1
<1>6. Replaces(path, ws, e, {})
  BY <1>3, <1>5 DEF Replaces
<1> QED
  BY <1>3, <1>4, <1>6 DEF Plan, Edits

\* chmod edits one entry.
LEMMA ChmodIs ==
    ASSUME AtRest, NEW path \in Paths, NEW plus \in BOOLEAN,
           NEW letters \in {<<"r">>, <<"w">>, <<"r", "w">>}, NEW pw \in Given,
           chmod(path, plus, letters, pw)
    PROVE  Plan(todo') /\ Edits(path, todo') /\ making'.what = stored[path]
<1>1. PICK old : old = EntryAt(PathSlot(path))
  OBVIOUS
<1> DEFINE e == [old EXCEPT !.mode = set_permission(@, plus, letters)]
<1>2. PICK ws : ws = todo'
  OBVIOUS
<1>3. /\ PathFound(path) /\ old.kind = "file"
      /\ ws = <<PutEntry(PathSlot(path), e)>> /\ making'.what = stored[path]
  BY <1>1, <1>2 DEF chmod, Start
<1>4. old \in Entries
  BY <1>1, <1>3, FoundHere, EntryIs DEF AtRest
<1>5. set_permission(old.mode, plus, letters) \in SUBSET {"r", "w"}
  BY <1>4 DEF set_permission, Entries
<1>6. /\ e \in Entries /\ e.active = old.active /\ e.last = old.last /\ e.name = old.name
      /\ e.kind = old.kind /\ e.first = old.first /\ e.size = old.size
  <2>1. e \in Entries /\ e.name = old.name
        /\ e.kind = old.kind /\ e.first = old.first /\ e.size = old.size
    BY <1>4, <1>5 DEF Entries
  <2>2. e.active = old.active /\ e.last = old.last
    BY <1>4 DEF Entries
  <2> QED
    BY <2>1, <2>2
<1> HIDE DEF e
<1> QED
  BY <1>1, <1>2, <1>3, <1>6, EditIs

\* addpw edits one entry.
LEMMA AddpwIs ==
    ASSUME AtRest, NEW path \in Paths, NEW new \in Passwords, NEW pw \in Given,
           addpw(path, new, pw)
    PROVE  Plan(todo') /\ Edits(path, todo') /\ making'.what = stored[path]
<1>1. PICK old : old = EntryAt(PathSlot(path))
  OBVIOUS
<1> DEFINE e == [old EXCEPT !.pw = new, !.locked = TRUE]
<1>2. PICK ws : ws = todo'
  OBVIOUS
<1>3. /\ PathFound(path) /\ old.kind = "file"
      /\ ws = <<PutEntry(PathSlot(path), e)>> /\ making'.what = stored[path]
  BY <1>1, <1>2 DEF addpw, Start
<1>4. old \in Entries
  BY <1>1, <1>3, FoundHere, EntryIs DEF AtRest
<1>5. /\ e \in Entries /\ e.active = old.active /\ e.last = old.last /\ e.name = old.name
      /\ e.kind = old.kind /\ e.first = old.first /\ e.size = old.size
  <2>1. e \in Entries /\ e.name = old.name
        /\ e.kind = old.kind /\ e.first = old.first /\ e.size = old.size
    BY <1>4 DEF Entries, Given0
  <2>2. e.active = old.active /\ e.last = old.last
    BY <1>4 DEF Entries
  <2> QED
    BY <2>1, <2>2
<1> HIDE DEF e
<1> QED
  BY <1>1, <1>2, <1>3, <1>5, EditIs

\* What a command on the path plans, and what it makes.
Planning(path, ws, what) ==
    \/ MakesDir(path, ws) /\ what = Directory
    \/ \E l \in LinuxFiles : MakesFile(path, ws, l) /\ what = l.id
    \/ \E l \in LinuxFiles : Overwrites(path, ws, l) /\ what = l.id
    \/ Edits(path, ws) /\ what = stored[path]
    \/ (RefusesDir(path, ws) \/ Resizes(path, ws)) /\ what = stored[path]

\* What every command plans that does not stray and lengthens no table.
LEMMA CommandIs ==
    ASSUME AtRest, DirNames \cap FileNames = {}, \A l \in LinuxFiles : l.len <= 1,
           NEW path \in Paths, Command(path), ~Stray(path), ~Grows(todo')
    PROVE  \E ws, what : /\ Start(path, ws, what)
                         /\ Plan(ws) /\ Planning(path, ws, what)
<1>1. PICK ws, what : ws = todo' /\ what = making'.what
  OBVIOUS
<1>2. CASE Last(path) \in DirNames /\ mkdir(path)
  <2>1. Start(path, ws, what)
    BY <1>1, <1>2 DEF mkdir, MakeDir, Start
  <2>2. Plan(ws) /\ (\/ MakesDir(path, ws) /\ what = Directory
                     \/ RefusesDir(path, ws) /\ what = stored[path])
    BY <1>1, <1>2, MkdirIs
  <2> QED
    BY <2>1, <2>2 DEF Planning
<1>3. ASSUME Last(path) \in FileNames, NEW l \in LinuxFiles, WriteNew(path, l)
      PROVE  Start(path, ws, what) /\ Plan(ws) /\ Planning(path, ws, what)
  <2>1. Start(path, ws, what)
    <3>1. PICK r, t : MakeFile(path, r, t, l)
      BY <1>3, Zenon DEF WriteNew
    <3>2. PICK q, x : Start(path, q, x)
      BY <3>1, Zenon DEF MakeFile
    <3>3. q = ws /\ x = what
      BY <1>1, <3>2 DEF Start
    <3> QED
      BY <3>2, <3>3
  <2>2. Plan(ws) /\ MakesFile(path, ws, l) /\ what = l.id
    BY <1>1, <1>3, WriteNewIs
  <2> QED
    BY <2>1, <2>2 DEF Planning
<1>4. ASSUME Last(path) \in FileNames, NEW l \in LinuxFiles, NEW pw \in Given,
             WriteOver(path, l, pw)
      PROVE  Start(path, ws, what) /\ Plan(ws) /\ Planning(path, ws, what)
  <2>1. Start(path, ws, what)
    BY <1>1, <1>4 DEF WriteOver, Start
  <2>2. Plan(ws) /\ Overwrites(path, ws, l) /\ what = l.id
    BY <1>1, <1>4, WriteOverIs
  <2> QED
    BY <2>1, <2>2 DEF Planning
<1>5. ASSUME NEW pw \in Given, WriteNothing(path, pw)
      PROVE  Start(path, ws, what) /\ Plan(ws) /\ Planning(path, ws, what)
  <2>1. Start(path, ws, what)
    BY <1>1, <1>5 DEF WriteNothing, Start
  <2>2. Plan(ws) /\ Resizes(path, ws) /\ what = stored[path]
    BY <1>1, <1>5, WriteNothingIs
  <2> QED
    BY <2>1, <2>2 DEF Planning
<1>6. ASSUME NEW pw \in Given, NEW plus \in BOOLEAN,
             NEW letters \in {<<"r">>, <<"w">>, <<"r", "w">>}, chmod(path, plus, letters, pw)
      PROVE  Start(path, ws, what) /\ Plan(ws) /\ Planning(path, ws, what)
  <2>1. Start(path, ws, what)
    BY <1>1, <1>6 DEF chmod, Start
  <2>2. Plan(ws) /\ Edits(path, ws) /\ what = stored[path]
    BY <1>1, <1>6, ChmodIs
  <2> QED
    BY <2>1, <2>2 DEF Planning
<1>7. ASSUME NEW pw \in Given, NEW new \in Passwords, addpw(path, new, pw)
      PROVE  Start(path, ws, what) /\ Plan(ws) /\ Planning(path, ws, what)
  <2>1. Start(path, ws, what)
    BY <1>1, <1>7 DEF addpw, Start
  <2>2. Plan(ws) /\ Edits(path, ws) /\ what = stored[path]
    BY <1>1, <1>7, AddpwIs
  <2> QED
    BY <2>1, <2>2 DEF Planning
<1> QED
  BY <1>2, <1>3, <1>4, <1>5, <1>6, <1>7 DEF Command

-----------------------------------------------------------------------------
(* Plans fit to the image *)

\* Writes of sizes, counts and the FAT fit to every image.
LEMMA FineMild ==
    ASSUME Typed, NEW ws, Mild(ws)
    PROVE  Fine(ToSet(ws))
BY MildIsFine DEF Fine, Mild

\* A directory's table and a file's piece are no directory's block.
LEMMA NoDirsBlock ==
    ASSUME NEW first \in Blocks \ Dirs
    PROVE  /\ LET w == NewTable(first)
              IN  /\ w.to = "block" /\ w.place = first /\ PutsBlock(w)
                  /\ w.content.entries = <<Indicator>>
           /\ \A l : \A w \in Copied(first, l) : w.to = "block" /\ w.place = first /\ PutsBlock(w)
<1>1. LET w == NewTable(first)
      IN  /\ w.to = "block" /\ w.place = first /\ PutsBlock(w)
          /\ w.content.entries = <<Indicator>>
  BY DEF NewTable, PutBlock, PutsBlock, TableOf
<1>2. ASSUME NEW l, NEW w \in Copied(first, l)
      PROVE  w.to = "block" /\ w.place = first /\ PutsBlock(w)
  BY <1>2 DEF Piece, PutBlock, PutsBlock, DataOf, Copied
<1> QED
  BY <1>1, <1>2

\* The FAT calls no directory's block free.
LEMMA DirsAreTaken ==
    ASSUME AtRest
    PROVE  Dirs \subseteq Taken(fat)
<1>1. RootBlock \in Taken(fat)
  BY DEF AtRest, Linked
<1>2. \A s \in Spots : EntryAt(s).active => EntryAt(s).first \in Taken(fat)
  BY DEF AtRest, Owned
<1> QED
  BY <1>1, <1>2, DirIs DEF IsDir

\* The writes that replace a file fit to the image.
LEMMA FineReplaces ==
    ASSUME AtRest, NEW path \in Paths, NEW ws, NEW e, NEW K, Replaces(path, ws, e, K),
           \A w \in K : w.to = "block" /\ PutsBlock(w)
    PROVE  Fine(ToSet(ws))
<1> DEFINE s == PathSlot(path)
           p == PutEntry(s, e)
<1>1. /\ PathFound(path) /\ EntryAt(s).kind = "file"
      /\ e.active /\ e.name = EntryAt(s).name /\ e.kind = "file"
      /\ e.first = EntryAt(s).first /\ e.last = EntryAt(s).last
      /\ \A w \in ToSet(ws) : Quiet(w) \/ SizeOnly(w) \/ w \in K \/ w = p
  BY DEF Replaces
<1>2. EntryAt(s).active /\ EntryAt(s).name = Last(path) /\ Last(path) # Unnamed
  BY <1>1, FoundHere, PathIs DEF AtRest
<1>3. p.to = "entry" /\ p.slot = s /\ p.entry = e
  BY DEF PutEntry
<1> HIDE DEF p, s
<1>4. \A R : Each(R, p)
  <2>1. ~News(p)
    BY <1>1, <1>2, <1>3 DEF News
  <2>2. \A R : KeepsEntry(R, p)
    BY <1>1, <1>2, <1>3, Zenon DEF KeepsEntry
  <2> QED
    BY <1>3, <2>1, <2>2 DEF Each
<1> QED
  BY <1>1, <1>4, MildIsFine DEF Fine, AtRest

\* The writes that add an entry fit to the image.
LEMMA FineEnlarges ==
    ASSUME AtRest, NEW path \in Paths, PathMissing(path),
           NEW ws, NEW e, NEW K, Enlarges(ws, path, e, K),
           e.kind \in {"file", "dir"}, Fitting(e.name, e.kind),
           \A w \in K : /\ w.to = "block" /\ PutsBlock(w)
                        /\ e.kind = "dir" => w.content.entries = <<Indicator>>,
           e.kind = "dir" => \E w \in K : w.place = e.first
    PROVE  Fine(ToSet(ws))
<1>1. /\ NewLast(e) /\ e.name = Last(path)
      /\ \E end, place : /\ Placed(ParentBlock(path), end, place)
                         /\ Adding(ToSet(ws), K, end, place, e)
  BY DEF Enlarges
<1>2. \A s \in Spots : EntryAt(s).active /\ s.block = ParentBlock(path)
                         => EntryAt(s).name # e.name
  BY <1>1, MissingIs
<1>3. PICK end, place : /\ Placed(ParentBlock(path), end, place)
                        /\ Adding(ToSet(ws), K, end, place, e)
  BY <1>1
<1>4. PICK b : b = ParentBlock(path)
  OBVIOUS
<1>5. /\ Placed(b, end, place)
      /\ \A s \in Spots : EntryAt(s).active /\ s.block = b => EntryAt(s).name # e.name
  BY <1>2, <1>3, <1>4
<1>6. PICK R : R = ToSet(ws)
  OBVIOUS
<1>7. Adding(R, K, end, place, e)
  BY <1>3, <1>6
<1>8. Fine(R)
  BY <1>1, <1>5, <1>7, AddingIsFine
<1> QED
  BY <1>6, <1>8

\* Every plan fits to the image.
LEMMA PlanningIsFine ==
    ASSUME AtRest, NEW path \in Paths, NEW ws, NEW what, Planning(path, ws, what)
    PROVE  Fine(ToSet(ws))
<1>1. CASE MakesDir(path, ws)
  <2>1. PICK e : e.kind = "dir" /\ Enlarges(ws, path, e, {NewTable(e.first)})
    BY <1>1 DEF MakesDir
  <2>2. PathMissing(path) /\ Last(path) \in DirNames
    BY <1>1 DEF MakesDir
  <2>3. e.name = Last(path) /\ e.first \in Blocks \ Taken(fat)
    BY <2>1 DEF Enlarges
  <2>4. e.first \in Blocks \ Dirs
    BY <2>3, DirsAreTaken
  <2>5. Fitting(e.name, e.kind)
    BY <2>1, <2>2, <2>3 DEF Fitting
  <2>6. LET w == NewTable(e.first)
        IN  /\ w.to = "block" /\ w.place = e.first /\ PutsBlock(w)
            /\ w.content.entries = <<Indicator>>
    BY <2>4, NoDirsBlock
  <2> QED
    BY <2>1, <2>2, <2>5, <2>6, FineEnlarges
<1>2. ASSUME NEW l \in LinuxFiles, MakesFile(path, ws, l) PROVE Fine(ToSet(ws))
  <2>1. PICK e : e.kind = "file" /\ Enlarges(ws, path, e, Copied(e.first, l))
    BY <1>2 DEF MakesFile
  <2>2. PathMissing(path) /\ Last(path) \in FileNames
    BY <1>2 DEF MakesFile
  <2>3. e.name = Last(path) /\ e.first \in Blocks \ Taken(fat)
    BY <2>1 DEF Enlarges
  <2>4. e.first \in Blocks \ Dirs
    BY <2>3, DirsAreTaken
  <2>5. Fitting(e.name, e.kind)
    BY <2>1, <2>2, <2>3 DEF Fitting
  <2>6. \A w \in Copied(e.first, l) : w.to = "block" /\ PutsBlock(w)
    BY <2>4, NoDirsBlock
  <2> QED
    BY <2>1, <2>2, <2>5, <2>6, FineEnlarges
<1>3. ASSUME NEW l \in LinuxFiles, Overwrites(path, ws, l) PROVE Fine(ToSet(ws))
  <2>1. PICK e : Replaces(path, ws, e, Copied(e.first, l))
    BY <1>3 DEF Overwrites
  <2>2. /\ PathFound(path) /\ EntryAt(PathSlot(path)).kind = "file"
        /\ e.first = EntryAt(PathSlot(path)).first
    BY <2>1 DEF Replaces
  <2>3. PathSlot(path) \in Spots /\ EntryAt(PathSlot(path)).active
    BY <2>2, FoundHere
  <2>4. e.first \in Blocks \ Dirs
    BY <2>2, <2>3, EntryFirst
  <2>5. \A w \in Copied(e.first, l) : w.to = "block" /\ PutsBlock(w)
    BY <2>4, NoDirsBlock
  <2> QED
    BY <2>1, <2>5, FineReplaces
<1>4. CASE Edits(path, ws)
  BY <1>4, FineReplaces DEF Edits
<1>5. CASE RefusesDir(path, ws) \/ Resizes(path, ws)
  BY <1>5, FineMild DEF RefusesDir, Resizes, AtRest
<1> QED
  BY <1>1, <1>2, <1>3, <1>4, <1>5 DEF Planning

-----------------------------------------------------------------------------
(* The theorem of the directories *)

\* A command plans a FAT that links two blocks: it lengthens a full table.
TableGrows == todo = << >> /\ Grows(todo')

\* At rest nothing is left to be written.
LEMMA RestIs ==
    ASSUME OwnerInv, TablesInv, todo = << >>, Unnamed \notin Names
    PROVE  AtRest /\ ToSet(todo) = {}
BY NothingIsFine DEF OwnerInv, TablesInv, FlatInv, AtRest

\* A command that starts leaves the tables as they are.
LEMMA StartKeepsTables ==
    ASSUME OwnerInv, TablesInv, Unnamed \notin Names, todo = << >>,
           NEW path \in Paths, NEW ws, NEW what, Start(path, ws, what),
           Plan(ws), Planning(path, ws, what), ~Grows(ws)
    PROVE  TablesInv'
<1>1. AtRest
  BY RestIs
<1>2. Fine(ToSet(ws)) /\ Ordered(ws) /\ ws \in Seq(Writes)
  BY <1>1, PlanningIsFine DEF Plan
<1>3. UNCHANGED <<fat, disk>> /\ todo' = ws
  BY DEF Start
<1>4. Flat(fat)' /\ Tables' /\ Fine(ToSet(ws))'
  BY <1>1, <1>2, <1>3, SameTables DEF AtRest
<1>5. \A w \in ToSet(ws) : w.to = "fat" => Flat(w.fat)
  BY DEF Grows, ToSet, Range
<1> QED
  BY <1>2, <1>3, <1>4, <1>5 DEF TablesInv, FlatInv

\* Where the image is the same, the same tables are marked.
LEMMA SameMarks ==
    ASSUME UNCHANGED <<fat, disk>>, NEW b, Marked(b)
    PROVE  Marked(b)'
<1>1. PICK n : n = Size(b)
  OBVIOUS
<1>2. Size(b)' = n /\ EntryAt(At(b, n))' = EntryAt(At(b, n))
  BY <1>1, SameTables
<1>3. EntryAt(At(b, n)).last \/ n = EntriesPerBlock
  BY <1>1 DEF Marked
<1>4. CASE n = EntriesPerBlock
  BY <1>2, <1>4 DEF Marked
<1>5. CASE EntryAt(At(b, n)).last
  BY <1>2, Zenon, <1>5 DEF Marked
<1> QED
  BY <1>3, <1>4, <1>5

\* A command that starts finds every table marked and leaves it so.
LEMMA StartKeepsMarks ==
    ASSUME MarksInv, todo = << >>, UNCHANGED <<fat, disk>>
    PROVE  MarksInv'
<1>1. \A b \in Dirs : Marked(b)
  BY NothingIsFine DEF MarksInv, Ends
<1>2. Dirs' = Dirs
  BY SameTables
<1>3. \A b \in Dirs : Marked(b)'
  BY <1>1, SameMarks
<1> QED
  BY <1>2, <1>3 DEF MarksInv, Ends

\* No command comes to bytes that are no entry.
LEMMA NobodyStrays ==
    ASSUME AtRest, \A b \in Dirs : Marked(b), NEW path \in Paths, Stray(path)
    PROVE  FALSE
<1>1. \A b \in Dirs : ~ReadsJunk(b)
  <2>1. SUFFICES ASSUME NEW b \in Dirs PROVE ~ReadsJunk(b)
    OBVIOUS
  <2>2. b \in Blocks /\ TableIs(b)
    BY DirsAreBlocks DEF AtRest, Tables
  <2> QED
    BY <2>2, TableFound DEF AtRest
<1>2. RootBlock \in Dirs
  BY DirIs
<1>3. ParentFound(path) => ParentBlock(path) \in Dirs
  BY ParentIsDir
<1> QED
  BY <1>1, <1>2, <1>3 DEF Stray

\* Where nobody has been killed every table ends at its mark, or is about to.
ReadInv == OwnerInv /\ TablesInv /\ MarksInv /\ crashes = 0 /\ fault = FALSE

\* ReadInv is inductive.
LEMMA ReadStep ==
    ASSUME MaxCrashes = 0, Unnamed \notin Names, DirNames \cap FileNames = {},
           \A l \in LinuxFiles : l.len <= 1,
           ReadInv, [Next]_vars, ~TableGrows \/ UNCHANGED vars
    PROVE  ReadInv'
<1>1. OwnerInv'
  BY NextOwners DEF ReadInv
<1>2. CASE Write
  BY <1>1, <1>2, WriteKeepsTables, WriteKeepsMarks DEF ReadInv, Write
<1>3. CASE Crash
  BY <1>3 DEF Crash, ReadInv
<1>4. ASSUME Idle, NEW path \in Paths, Command(path), ~TableGrows PROVE ReadInv'
  <2>1. todo = << >> /\ ~Grows(todo')
    BY <1>4 DEF Idle, TableGrows
  <2>2. AtRest /\ \A b \in Dirs : Marked(b)
    BY <2>1, RestIs DEF ReadInv, MarksInv, Ends
  <2>3. ~Stray(path)
    BY <2>2, NobodyStrays
  <2>4. PICK ws, what : /\ Start(path, ws, what)
                        /\ Plan(ws) /\ Planning(path, ws, what)
    BY <1>4, <2>1, <2>2, <2>3, CommandIs
  <2>5. todo' = ws /\ UNCHANGED <<fat, disk, crashes, fault>>
    BY <2>4 DEF Start
  <2>6. TablesInv'
    BY <2>1, <2>4, <2>5, StartKeepsTables DEF ReadInv
  <2>7. MarksInv'
    BY <2>1, <2>5, StartKeepsMarks DEF ReadInv
  <2> QED
    BY <1>1, <2>5, <2>6, <2>7 DEF ReadInv
<1>5. CASE UNCHANGED vars
  <2>1. UNCHANGED <<fat, disk>> /\ todo' = todo /\ crashes' = crashes /\ fault' = fault
    BY <1>5 DEF vars
  <2>2. PICK q : q = todo
    OBVIOUS
  <2>3. Flat(fat)' /\ Tables' /\ Fine(ToSet(q))' /\ Dirs' = Dirs
    BY <2>1, <2>2, SameTables DEF ReadInv, TablesInv, FlatInv
  <2>4. TablesInv'
    BY <2>1, <2>2, <2>3 DEF ReadInv, TablesInv, FlatInv
  <2>5. ASSUME NEW b \in Dirs PROVE Ends(ToSet(q), b)'
    <3>1. Ends(ToSet(q), b)
      BY <2>2 DEF ReadInv, MarksInv
    <3>2. Size(b)' = Size(b)
      BY <2>1, SameTables
    <3>3. Marked(b) => Marked(b)'
      BY <2>1, SameMarks
    <3> QED
      BY <3>1, <3>2, <3>3 DEF Ends
  <2>6. MarksInv'
    BY <2>1, <2>2, <2>3, <2>5 DEF MarksInv
  <2> QED
    BY <1>1, <2>1, <2>4, <2>6 DEF ReadInv
<1> QED
  BY <1>2, <1>3, <1>4, <1>5 DEF Next

\* No command strays out of the directories, with any mixture of new, full and
\* refused directories and files: the mark of the last entry is never missing.
\* This holds while nobody is killed, no full table is lengthened, mkdir and
\* write are given different names, and no file is longer than a block.
THEOREM WalksStayInside ==
    ASSUME MaxCrashes = 0, Unnamed \notin Names, DirNames \cap FileNames = {},
           \A l \in LinuxFiles : l.len <= 1
    PROVE  Spec /\ [][~TableGrows]_vars => []DirectoriesReadable
<1>1. Init => ReadInv
  <2>1. ASSUME Init PROVE ReadInv
    BY <2>1, InitOwners, InitTables DEF Init, ReadInv, MarksInv, Ends
  <2> QED
    BY <2>1
<1>2. ReadInv /\ [Next]_vars /\ [~TableGrows]_vars => ReadInv'
  BY ReadStep DEF vars
<1>3. ReadInv => DirectoriesReadable
  BY DEF ReadInv, DirectoriesReadable
<1> QED
  BY <1>1, <1>2, <1>3, PTL DEF Spec

-----------------------------------------------------------------------------
(* What finished commands leave *)

\* What the next write h does to the entries and to the blocks of files.
EntryKept(h, u) ==
    \/ EntryAt(u)' = EntryAt(u)
    \/ /\ h.to = "entry" /\ h.slot = u /\ EntryAt(u)' = h.entry
       /\ h.entry.active /\ h.entry.name = EntryAt(u).name
       /\ h.entry.kind = EntryAt(u).kind /\ h.entry.first = EntryAt(u).first
    \/ /\ h.to = "name" /\ EntryAt(u).name = Unnamed
       /\ EntryAt(u)' = [EntryAt(u) EXCEPT !.name = h.name]
Effect(h) ==
    /\ \A u \in Spots : EntryAt(u).active => EntryKept(h, u)
    /\ h.to = "entry" => EntryAt(h.slot)' = h.entry /\ h.entry.active
    /\ h.to = "name" => /\ EntryAt(h.slot).active
                        /\ EntryAt(h.slot)' = [EntryAt(h.slot) EXCEPT !.name = h.name]
    /\ \A f \in Blocks : f \notin Dirs /\ ~Hits(h, f) => disk'[f] = disk[f]
    /\ h.to = "block" => disk'[h.place] = h.content

\* What the next write does to the entries of the image.
LEMMA WriteEffect ==
    ASSUME OwnerInv, TablesInv, Write, Unnamed \notin Names
    PROVE  \E h, R : /\ h = Head(todo) /\ R = ToSet(todo')
                     /\ h \in Writes /\ R \subseteq Writes /\ ToSet(todo) = {h} \cup R
                     /\ \A w \in R : Before(h, w)
                     /\ Effect(h)
<1>1. PICK h, R : /\ h = Head(todo) /\ R = ToSet(Tail(todo))
                  /\ h \in Writes /\ R \subseteq Writes /\ ToSet(todo) = {h} \cup R
                  /\ \A w \in R : Before(h, w)
  BY TailSet DEF OwnerInv, Typed, Write, TablesInv
<1>2. Done(h) /\ ToSet(todo') = R
  BY <1>1 DEF Write
<1>3. Each({h} \cup R, h) /\ Fine({h} \cup R) /\ Tables /\ Typed
  BY <1>1 DEF TablesInv, OwnerInv, Fine
<1>4. \A w \in {h} \cup R : News(w) => NewHere(w)
  BY <1>1, NewsAreHere
<1>5. \A f \in Blocks : f \in Places
  BY Marks
<1>6. CASE h.to \in {"sb", "fat"}
  <2>1. disk' = disk
    BY <1>2, <1>3, <1>6, StillStep
  <2>2. \A u \in Spots : EntryAt(u)' = EntryAt(u)
    BY <2>1 DEF EntryAt
  <2>3. Effect(h)
    BY <2>1, <2>2, <1>6 DEF Effect, EntryKept
  <2> QED
    BY <1>1, <1>2, <2>3
<1>7. CASE h.to = "entry" /\ ~News(h)
  <2>1. /\ h.slot \in Spots /\ h.slot.block \in Dirs
        /\ h.entry.active
        /\ h.entry.name = EntryAt(h.slot).name /\ h.entry.kind = EntryAt(h.slot).kind
        /\ h.entry.first = EntryAt(h.slot).first
        /\ EntryAt(h.slot)' = h.entry
        /\ \A u \in Spots : u # h.slot => EntryAt(u)' = EntryAt(u)
        /\ \A p \in Places : p # h.slot.block => disk'[p] = disk[p]
    BY <1>1, <1>2, <1>3, <1>7, KeepLands
  <2>2. \A u \in Spots : EntryAt(u).active => EntryKept(h, u)
    BY <2>1, <1>7 DEF EntryKept
  <2>3. Effect(h)
    BY <2>1, <2>2, <1>5, <1>7 DEF Effect
  <2> QED
    BY <1>1, <1>2, <2>3
<1>8. CASE News(h)
  <2>1. /\ h.slot \in Spots /\ h.slot.block \in Dirs
        /\ h.entry.active /\ ~EntryAt(h.slot).active
        /\ EntryAt(h.slot)' = h.entry
        /\ \A u \in Spots : u # h.slot => EntryAt(u)' = EntryAt(u)
        /\ \A p \in Places : p # h.slot.block => disk'[p] = disk[p]
    BY <1>1, <1>2, <1>3, <1>4, <1>8, NewLands
  <2>2. \A u \in Spots : EntryAt(u).active => EntryKept(h, u)
    BY <2>1 DEF EntryKept
  <2>3. h.to = "entry"
    BY <1>8 DEF News
  <2>4. Effect(h)
    BY <2>1, <2>2, <2>3, <1>5 DEF Effect
  <2> QED
    BY <1>1, <1>2, <2>4
<1>9. CASE h.to = "name"
  <2>1. /\ h.slot \in Spots /\ h.slot.block \in Dirs
        /\ EntryAt(h.slot).active /\ EntryAt(h.slot).name = Unnamed
        /\ EntryAt(h.slot)' = [EntryAt(h.slot) EXCEPT !.name = h.name]
        /\ \A u \in Spots : u # h.slot => EntryAt(u)' = EntryAt(u)
        /\ \A p \in Places : p # h.slot.block => disk'[p] = disk[p]
    BY <1>1, <1>2, <1>3, <1>9, NameOnlyLands
  <2>2. \A u \in Spots : EntryAt(u).active => EntryKept(h, u)
    BY <2>1, <1>9 DEF EntryKept
  <2>3. Effect(h)
    BY <2>1, <2>2, <1>5, <1>9 DEF Effect
  <2> QED
    BY <1>1, <1>2, <2>3
<1>10. CASE h.to = "block"
  <2>1. h.place \in Places /\ disk' = [disk EXCEPT ![h.place] = h.content]
    BY <1>1, <1>2, <1>10, WriteIs DEF Done
  <2>2. \A u \in Spots : EntryAt(u).active => EntryAt(u)' = EntryAt(u)
    BY <1>1, <1>2, <1>3, <1>4, <1>10, BlockStep
  <2>3. disk'[h.place] = h.content /\ \A f \in Blocks : f # h.place => disk'[f] = disk[f]
    BY <2>1, <1>5, BlockLands DEF OwnerInv
  <2>4. Effect(h)
    BY <2>2, <2>3, <1>10 DEF Effect, EntryKept, Hits
  <2> QED
    BY <1>1, <1>2, <2>4
<1> QED
  BY <1>1, <1>6, <1>7, <1>8, <1>9, <1>10, WriteIs

\* What stored and making say of a directory or a file that was written.
Claim(v) == v = Directory \/ \E l \in LinuxFiles : v = l.id

\* The entry e, with the first block f, and a block's content c are those of v.
Suits(e, v, f) ==
    /\ e.first = f
    /\ v = Directory => e.kind = "dir"
    /\ \A l \in LinuxFiles : v = l.id => e.kind = "file" /\ e.size = l.len
Reads(c, v) == \A l \in LinuxFiles : v = l.id /\ l.len = 1 => c.piece = [id |-> l.id, no |-> 1]

\* The table of block b is that of the path's directory; the entry of the path.
Under(path, b) ==
    \/ Len(path) = 1 /\ b = RootBlock
    \/ Len(path) # 1 /\ \E t \in Spots : /\ t.block = RootBlock /\ IsDir(t)
                                         /\ EntryAt(t).name = path[1] /\ EntryAt(t).first = b
AtPath(path, s) == EntryAt(s).active /\ EntryAt(s).name = Last(path) /\ Under(path, s.block)

\* What R writes to the slot s and the block f leaves v there.
Spares(R, s, f, v) ==
    /\ \A w \in R : w.to = "entry" /\ w.slot = s => Suits(w.entry, v, f)
    /\ \A w \in R : Hits(w, f) => Reads(w.content, v)

\* The path's entry is at s, and it is that of v; so it will be after R.
Holds(path, v, s, f) == AtPath(path, s) /\ Suits(EntryAt(s), v, f) /\ Reads(disk[f], v)
Promises(R, path, v, s, f) ==
    /\ \/ AtPath(path, s)
       \/ Under(path, s.block) /\ PutName(s, Last(path)) \in R
    /\ \/ EntryAt(s).active /\ Suits(EntryAt(s), v, f)
       \/ \E w \in R : w.to = "entry" /\ w.slot = s
    /\ Reads(disk[f], v) \/ \E w \in R : Hits(w, f)
    /\ Spares(R, s, f, v)

SurvivesInv ==
    /\ \A path \in Paths : Claim(stored[path]) =>
          \E s \in Spots, f \in Blocks : /\ Holds(path, stored[path], s, f)
                                         /\ Spares(ToSet(todo), s, f, stored[path])
    /\ todo # << >> => /\ making.path \in Paths
                       /\ Claim(making.what) =>
                            \E s \in Spots, f \in Blocks :
                               Promises(ToSet(todo), making.path, making.what, s, f)

\* A write keeps what is found under a path.
LEMMA UnderKept ==
    ASSUME NEW h, Effect(h), Unnamed \notin Names, Typed, NEW path \in Paths
    PROVE  /\ \A b : Under(path, b) => Under(path, b)'
           /\ \A s \in Spots : AtPath(path, s) => AtPath(path, s)'
<1>1. /\ Last(path) # Unnamed
      /\ Len(path) # 1 => path[1] # Unnamed
  BY PathIs
<1>2. ASSUME NEW u \in Spots, EntryAt(u).active, EntryAt(u).name # Unnamed
      PROVE  /\ EntryAt(u)'.active /\ EntryAt(u)'.name = EntryAt(u).name
             /\ EntryAt(u)'.kind = EntryAt(u).kind /\ EntryAt(u)'.first = EntryAt(u).first
  <2>1. EntryKept(h, u)
    BY <1>2 DEF Effect
  <2>2. CASE EntryAt(u)' = EntryAt(u)
    BY <2>2, <1>2
  <2>3. CASE /\ EntryAt(u)' = h.entry
             /\ h.entry.active /\ h.entry.name = EntryAt(u).name
             /\ h.entry.kind = EntryAt(u).kind /\ h.entry.first = EntryAt(u).first
    BY <2>3, Zenon
  <2> QED
    BY <2>1, <2>2, <2>3, <1>2 DEF EntryKept
<1>3. ASSUME NEW b, Under(path, b) PROVE Under(path, b)'
  <2>1. CASE Len(path) = 1
    BY <1>3, <2>1 DEF Under
  <2>2. CASE Len(path) # 1
    <3>1. PICK t \in Spots : /\ t.block = RootBlock /\ IsDir(t)
                             /\ EntryAt(t).name = path[1] /\ EntryAt(t).first = b
      BY <1>3, <2>2 DEF Under
    <3>2. EntryAt(t).active /\ EntryAt(t).kind = "dir" /\ EntryAt(t).name # Unnamed
      BY <3>1, <2>2, <1>1 DEF IsDir
    <3>3. /\ EntryAt(t)'.active /\ EntryAt(t)'.name = EntryAt(t).name
          /\ EntryAt(t)'.kind = EntryAt(t).kind /\ EntryAt(t)'.first = EntryAt(t).first
      BY <1>2, <3>2
    <3>4. IsDir(t)'
      BY <3>2, <3>3 DEF IsDir
    <3> QED
      BY <2>2, <3>1, <3>3, <3>4 DEF Under
  <2> QED
    BY <2>1, <2>2
<1>4. ASSUME NEW s \in Spots, AtPath(path, s) PROVE AtPath(path, s)'
  <2>1. EntryAt(s).active /\ EntryAt(s).name = Last(path) /\ Under(path, s.block)
    BY <1>4 DEF AtPath
  <2>2. EntryAt(s)'.active /\ EntryAt(s)'.name = EntryAt(s).name
    BY <1>1, <1>2, <2>1
  <2>3. Under(path, s.block)'
    BY <1>3, <2>1
  <2> QED
    BY <2>1, <2>2, <2>3 DEF AtPath
<1> QED
  BY <1>3, <1>4

\* A file begins at a block that no directory has, from the time when its entry
\* is planned on.
LEMMA FileFirst ==
    ASSUME OwnerInv, TablesInv, Unnamed \notin Names,
           NEW l \in LinuxFiles, NEW s \in Spots, NEW f,
           Spares(ToSet(todo), s, f, l.id),
           \/ EntryAt(s).active /\ Suits(EntryAt(s), l.id, f)
           \/ \E w \in ToSet(todo) : w.to = "entry" /\ w.slot = s
    PROVE  f \notin Dirs
<1>1. AtRest
  BY DEF OwnerInv, TablesInv, FlatInv, AtRest
<1>2. CASE EntryAt(s).active /\ Suits(EntryAt(s), l.id, f)
  BY <1>1, <1>2, EntryFirst DEF Suits
<1>3. ASSUME NEW w \in ToSet(todo), w.to = "entry", w.slot = s PROVE f \notin Dirs
  <2>1. w.entry.first = f /\ w.entry.kind = "file"
    BY <1>3 DEF Spares, Suits
  <2>2. Each(ToSet(todo), w)
    BY DEF TablesInv, Fine
  <2>3. CASE News(w)
    BY <2>1, <2>3, NewsAreHere DEF NewHere
  <2>4. CASE ~News(w)
    <3>1. KeepsEntry(ToSet(todo), w)
      BY <1>3, <2>2, <2>4 DEF Each
    <3>2. EntryAt(s).active /\ EntryAt(s).first = f /\ EntryAt(s).kind = "file"
      BY <1>3, <2>1, <3>1 DEF KeepsEntry
    <3> QED
      BY <1>1, <3>2, EntryFirst
  <2> QED
    BY <2>3, <2>4
<1> QED
  BY <1>2, <1>3

\* Less to be written spares as much.
LEMMA SparesLess ==
    ASSUME NEW R, NEW S, S \subseteq R, NEW s, NEW f, NEW v, Spares(R, s, f, v)
    PROVE  Spares(S, s, f, v)
BY DEF Spares

\* Only the claim of a file is about a block.
LEMMA ReadsDirectory ==
    ASSUME NEW c, NEW v, ~\E l \in LinuxFiles : v = l.id
    PROVE  Reads(c, v)
BY DEF Reads

\* The next write leaves the entry one of v, and the block.
LEMMA SuitsKept ==
    ASSUME Typed, NEW h, Effect(h), NEW v, NEW s \in Spots, NEW f,
           Spares({h}, s, f, v), EntryAt(s).active, Suits(EntryAt(s), v, f)
    PROVE  EntryAt(s)'.active /\ Suits(EntryAt(s)', v, f)
<1>1. EntryKept(h, s)
  BY DEF Effect
<1>2. CASE EntryAt(s)' = EntryAt(s)
  <2>1. EntryAt(s)'.active
    BY <1>2
  <2>2. Suits(EntryAt(s)', v, f)
    BY <1>2
  <2> QED
    BY <2>1, <2>2
<1>3. CASE h.to = "entry" /\ h.slot = s /\ EntryAt(s)' = h.entry /\ h.entry.active
  <2>1. Suits(h.entry, v, f)
    BY <1>3 DEF Spares
  <2>2. EntryAt(s)'.active
    BY <1>3
  <2>3. Suits(EntryAt(s)', v, f)
    BY <1>3, <2>1
  <2> QED
    BY <2>2, <2>3
<1>4. CASE EntryAt(s)' = [EntryAt(s) EXCEPT !.name = h.name]
  <2>1. EntryAt(s) \in Entries
    BY EntryIs
  <2>2. /\ EntryAt(s)'.kind = EntryAt(s).kind /\ EntryAt(s)'.first = EntryAt(s).first
        /\ EntryAt(s)'.size = EntryAt(s).size
    BY <1>4, <2>1 DEF Entries
  <2>3. EntryAt(s)'.active
    BY <1>4, <2>1 DEF Entries
  <2>4. Suits(EntryAt(s)', v, f)
    BY <2>2 DEF Suits
  <2> QED
    BY <2>3, <2>4
<1> QED
  BY <1>1, <1>2, <1>3, <1>4 DEF EntryKept

\* A write that spares a file leaves its content, or puts it.
LEMMA ReadsKept ==
    ASSUME NEW h, Effect(h), NEW v, NEW s, NEW f \in Blocks,
           Spares({h}, s, f, v), Reads(disk[f], v) \/ Hits(h, f),
           (\E l \in LinuxFiles : v = l.id) => f \notin Dirs
    PROVE  Reads(disk'[f], v)
<1>1. CASE Hits(h, f)
  <2>1. h.to = "block" /\ h.place = f
    BY <1>1 DEF Hits
  <2>2. disk'[f] = h.content
    BY <2>1 DEF Effect
  <2>3. Reads(h.content, v)
    BY <1>1 DEF Spares
  <2> QED
    BY <2>2, <2>3
<1>2. CASE ~\E l \in LinuxFiles : v = l.id
  BY <1>2, ReadsDirectory
<1>3. CASE ~Hits(h, f) /\ \E l \in LinuxFiles : v = l.id
  BY <1>3 DEF Effect
<1> QED
  BY <1>1, <1>2, <1>3

\* What the next write does to a promise.
LEMMA WriteKeepsPromise ==
    ASSUME OwnerInv, TablesInv, Unnamed \notin Names,
           NEW h \in Writes, NEW R, R \subseteq Writes, ToSet(todo) = {h} \cup R, Effect(h),
           NEW path \in Paths, NEW v, NEW s \in Spots, NEW f \in Blocks,
           Promises({h} \cup R, path, v, s, f)
    PROVE  Promises(R, path, v, s, f)'
<1>1. /\ \/ AtPath(path, s)
         \/ Under(path, s.block) /\ PutName(s, Last(path)) \in {h} \cup R
      /\ \/ EntryAt(s).active /\ Suits(EntryAt(s), v, f)
         \/ \E w \in {h} \cup R : w.to = "entry" /\ w.slot = s
      /\ Reads(disk[f], v) \/ \E w \in {h} \cup R : Hits(w, f)
      /\ Spares({h} \cup R, s, f, v)
  BY DEF Promises
<1>0. Spares({h}, s, f, v)
  BY <1>1, SparesLess
<1>2. /\ \A b : Under(path, b) => Under(path, b)'
      /\ AtPath(path, s) => AtPath(path, s)'
  BY UnderKept DEF OwnerInv
<1>3. \/ AtPath(path, s)'
      \/ Under(path, s.block)' /\ PutName(s, Last(path)) \in R
  <2>1. CASE AtPath(path, s)
    BY <2>1, <1>2
  <2>2. CASE Under(path, s.block) /\ PutName(s, Last(path)) \in R
    BY <2>2, <1>2
  <2>3. CASE Under(path, s.block) /\ PutName(s, Last(path)) = h
    <3>1. h.to = "name" /\ h.slot = s /\ h.name = Last(path)
      BY <2>3 DEF PutName
    <3>2. EntryAt(s).active /\ EntryAt(s)' = [EntryAt(s) EXCEPT !.name = h.name]
      BY <3>1 DEF Effect
    <3>3. EntryAt(s) \in Entries
      BY EntryIs DEF OwnerInv
    <3>4. EntryAt(s)'.name = Last(path)
      BY <3>1, <3>2, <3>3 DEF Entries
    <3>5. EntryAt(s)'.active
      BY <3>2, <3>3 DEF Entries
    <3> QED
      BY <2>3, <1>2, <3>4, <3>5 DEF AtPath
  <2> QED
    BY <1>1, <2>1, <2>2, <2>3
<1>4. \/ EntryAt(s)'.active /\ Suits(EntryAt(s)', v, f)
      \/ \E w \in R : w.to = "entry" /\ w.slot = s
  <2>1. CASE EntryAt(s).active /\ Suits(EntryAt(s), v, f)
    BY <1>0, <2>1, SuitsKept DEF OwnerInv
  <2>2. CASE h.to = "entry" /\ h.slot = s
    <3>1. EntryAt(s)' = h.entry /\ h.entry.active
      BY <2>2 DEF Effect
    <3>2. Suits(h.entry, v, f)
      BY <2>2, <1>1 DEF Spares
    <3>3. EntryAt(s)'.active
      BY <3>1
    <3>4. Suits(EntryAt(s)', v, f)
      BY <3>1, <3>2
    <3> QED
      BY <3>3, <3>4
  <2>3. CASE \E w \in R : w.to = "entry" /\ w.slot = s
    BY <2>3
  <2> QED
    BY <1>1, <2>1, <2>2, <2>3
<1>5. Reads(disk'[f], v) \/ \E w \in R : Hits(w, f)
  <2>1. ASSUME NEW l \in LinuxFiles, v = l.id PROVE f \notin Dirs
    BY <1>1, <2>1, FileFirst
  <2>2. Reads(disk[f], v) \/ Hits(h, f) => Reads(disk'[f], v)
    BY <1>0, <2>1, ReadsKept
  <2> QED
    BY <1>1, <2>2
<1>6. Spares(R, s, f, v)
  BY <1>1, SparesLess
<1> QED
  BY <1>3, <1>4, <1>5, <1>6 DEF Promises, Spares

\* What is finished is not undone by the next write.
LEMMA WriteKeepsHolds ==
    ASSUME OwnerInv, TablesInv, Unnamed \notin Names,
           NEW h \in Writes, NEW R, ToSet(todo) = {h} \cup R, Effect(h),
           NEW path \in Paths, NEW v, NEW s \in Spots, NEW f \in Blocks,
           Holds(path, v, s, f), Spares({h} \cup R, s, f, v)
    PROVE  Holds(path, v, s, f)' /\ Spares(R, s, f, v)
<1>1. AtPath(path, s) /\ Suits(EntryAt(s), v, f) /\ Reads(disk[f], v) /\ EntryAt(s).active
  BY DEF Holds, AtPath
<1>2. Spares({h}, s, f, v) /\ Spares(R, s, f, v)
  BY SparesLess
<1>3. AtPath(path, s)'
  BY <1>1, UnderKept DEF OwnerInv
<1>4. Suits(EntryAt(s)', v, f)
  BY <1>1, <1>2, SuitsKept DEF OwnerInv
<1>5. ASSUME NEW l \in LinuxFiles, v = l.id PROVE f \notin Dirs
  BY <1>1, <1>5, FileFirst
<1>6. Reads(disk'[f], v)
  BY <1>1, <1>2, <1>5, ReadsKept
<1> QED
  BY <1>2, <1>3, <1>4, <1>6 DEF Holds

\* What holds is a promise that is kept; a promise with nothing left to be
\* written holds.
LEMMA HoldsIsPromise ==
    ASSUME NEW R, NEW path, NEW v, NEW s, NEW f
    PROVE  /\ Holds(path, v, s, f) /\ Spares(R, s, f, v) => Promises(R, path, v, s, f)
           /\ (Promises(R, path, v, s, f) /\ \A w \in R : w.to \in {"sb", "fat"})
                => Holds(path, v, s, f) /\ Spares(R, s, f, v)
<1>1. Holds(path, v, s, f) /\ Spares(R, s, f, v) => Promises(R, path, v, s, f)
  BY DEF Holds, Promises, AtPath
<1>2. ASSUME Promises(R, path, v, s, f), \A w \in R : w.to \in {"sb", "fat"}
      PROVE  Holds(path, v, s, f) /\ Spares(R, s, f, v)
  BY <1>2 DEF Holds, Promises, Hits, PutName
<1> QED
  BY <1>1, <1>2

\* A path has one name, or two of which the first is a directory's.
LEMMA PathForms ==
    ASSUME NEW path \in Paths
    PROVE  \/ \E n \in Names : path = <<n>> /\ Len(path) = 1 /\ Last(path) = n
           \/ \E m \in DirNames, n \in Names :
                path = <<m, n>> /\ Len(path) = 2 /\ Last(path) = n /\ path[1] = m
BY DEF Paths, Last

\* One entry is at one path.
LEMMA OnePath ==
    ASSUME AtRest, NEW p \in Paths, NEW q \in Paths, NEW s \in Spots,
           AtPath(p, s), AtPath(q, s)
    PROVE  p = q
<1>1. /\ Last(p) = Last(q) /\ Under(p, s.block) /\ Under(q, s.block)
  BY DEF AtPath
<1>2. ASSUME NEW r \in Paths, Under(r, s.block), Len(r) # 1
      PROVE  /\ s.block # RootBlock
             /\ \E t \in Spots : /\ EntryAt(t).active /\ EntryAt(t).name = r[1]
                                 /\ EntryAt(t).first = s.block
  <2>1. PICK t \in Spots : IsDir(t) /\ EntryAt(t).name = r[1] /\ EntryAt(t).first = s.block
    BY <1>2 DEF Under
  <2>2. EntryAt(t).active
    BY <2>1 DEF IsDir
  <2>3. s.block # RootBlock
    BY <2>1, <2>2, EntryFirst
  <2> QED
    BY <2>1, <2>2, <2>3
<1>3. ASSUME NEW r \in Paths, Under(r, s.block), Len(r) = 1 PROVE s.block = RootBlock
  BY <1>3 DEF Under
<1>4. CASE Len(p) = 1
  BY <1>1, <1>4, PathForms, <1>2, <1>3
<1>5. CASE Len(p) # 1
  <2>1. Len(q) # 1
    BY <1>1, <1>2, <1>3, <1>5
  <2>2. PICK t \in Spots : /\ EntryAt(t).active /\ EntryAt(t).name = p[1]
                           /\ EntryAt(t).first = s.block
    BY <1>1, <1>2, <1>5
  <2>3. PICK u \in Spots : /\ EntryAt(u).active /\ EntryAt(u).name = q[1]
                           /\ EntryAt(u).first = s.block
    BY <1>1, <1>2, <2>1
  <2>4. t = u
    BY <2>2, <2>3 DEF AtRest, Owned
  <2>5. p[1] = q[1]
    BY <2>2, <2>3, <2>4
  <2> QED
    BY <1>1, <1>5, <2>1, <2>5, PathForms
<1> QED
  BY <1>4, <1>5

\* What is at a path is what a command finds there, and the other way round.
LEMMA AtPathIsFound ==
    ASSUME AtRest, NEW path \in Paths, NEW s \in Spots, AtPath(path, s)
    PROVE  PathFound(path) /\ PathSlot(path) = s
<1>1. EntryAt(s).active /\ EntryAt(s).name = Last(path) /\ Under(path, s.block)
  BY DEF AtPath
<1>2. ASSUME NEW b \in Blocks, b \in Dirs, NEW u \in Spots, u.block = b, EntryAt(u).active,
             NEW name, EntryAt(u).name = name, name # Unnamed
      PROVE  Found(b, name) /\ SlotOf(b, name) = u
  <2>1. TableIs(b)
    BY <1>2 DEF AtRest, Tables
  <2>2. Found(b, name)
    BY <1>2, <2>1, TableFound DEF AtRest
  <2>3. /\ SlotOf(b, name) \in Spots /\ SlotOf(b, name).block = b
        /\ EntryAt(SlotOf(b, name)).active /\ EntryAt(SlotOf(b, name)).name = name
    BY <1>2, <2>1, <2>2, TableFound DEF AtRest
  <2>4. SlotOf(b, name) = u
    BY <1>2, <2>3 DEF AtRest, Tables, Unique
  <2> QED
    BY <2>2, <2>4
<1>3. Last(path) # Unnamed /\ (Len(path) # 1 => path[1] # Unnamed)
  BY PathIs DEF AtRest
<1>4. RootBlock \in Dirs /\ RootBlock \in Blocks
  BY DirIs, Marks
<1>5. ParentFound(path) /\ ParentBlock(path) = s.block
  <2>1. CASE Len(path) = 1
    BY <1>1, <2>1 DEF Under, ParentFound, ParentBlock
  <2>2. CASE Len(path) # 1
    <3>1. PICK t \in Spots : /\ t.block = RootBlock /\ IsDir(t)
                             /\ EntryAt(t).name = path[1] /\ EntryAt(t).first = s.block
      BY <1>1, <2>2 DEF Under
    <3>2. EntryAt(t).active /\ EntryAt(t).kind = "dir"
      BY <3>1 DEF IsDir
    <3>3. Found(RootBlock, path[1]) /\ SlotOf(RootBlock, path[1]) = t
      BY <1>2, <1>3, <1>4, <2>2, <3>1, <3>2
    <3> QED
      BY <2>2, <3>1, <3>2, <3>3 DEF ParentFound, ParentBlock
  <2> QED
    BY <2>1, <2>2
<1>6. s.block \in Dirs /\ s.block \in Blocks
  BY <1>5, ParentIsDir
<1>7. Found(s.block, Last(path)) /\ SlotOf(s.block, Last(path)) = s
  BY <1>1, <1>2, <1>3, <1>6
<1> QED
  BY <1>5, <1>7 DEF PathFound, PathSlot

\* The parent that a lookup finds is the directory the path names.
LEMMA UnderParent ==
    ASSUME AtRest, NEW path \in Paths, ParentFound(path)
    PROVE  Under(path, ParentBlock(path))
<1>1. CASE Len(path) = 1
  BY <1>1 DEF Under, ParentBlock
<1>2. CASE Len(path) # 1
  BY <1>2, ParentIsDir DEF Under
<1> QED
  BY <1>1, <1>2

\* The slot that a lookup finds is the one at the path.
LEMMA FoundIsAtPath ==
    ASSUME AtRest, NEW path \in Paths, PathFound(path)
    PROVE  AtPath(path, PathSlot(path)) /\ PathSlot(path) \in Spots
BY FoundHere, UnderParent DEF AtPath

\* The place of a new entry is not in use.
LEMMA PlaceIsFree ==
    ASSUME AtRest, NEW b, NEW end, NEW place, Placed(b, end, place)
    PROVE  ~EntryAt(place).active
<1>1. /\ end \in Spots /\ place \in Spots /\ b \in Dirs /\ end = At(b, Size(b))
      /\ \/ ~EntryAt(end).active /\ place = end
         \/ EntryAt(end).active /\ place = Behind(end)
  BY DEF Placed
<1>2. CASE place = Behind(end)
  <2>1. b \in Places /\ Typed
    BY <1>1, DirsAreBlocks DEF AtRest
  <2>2. PICK n : n = Size(b) /\ n \in Nat
    BY <2>1, SlotHolds
  <2>3. place = At(b, n + 1) /\ n + 1 \notin 1 .. n
    BY <1>1, <1>2, <2>2, SpotIs DEF Behind
  <2>4. EntryAt(place) = Junk
    BY <2>1, <2>2, <2>3, SlotHolds
  <2> QED
    BY <2>4, JunkIs
<1> QED
  BY <1>1, <1>2

\* A file has no id of another file, and none that means something else.
IdsDiffer ==
    /\ \A l, m \in LinuxFiles : l.id = m.id => l = m
    /\ \A l \in LinuxFiles : l.id \notin {Absent, Unknown, Directory}

\* The sizes of directories spare what is held.
LEMMA MildSpares ==
    ASSUME Typed, NEW s \in Spots, NEW f, NEW v, Suits(EntryAt(s), v, f),
           NEW w, Quiet(w) \/ SizeOnly(w)
    PROVE  /\ w.to = "entry" /\ w.slot = s => Suits(w.entry, v, f)
           /\ ~Hits(w, f)
<1>1. CASE Quiet(w)
  BY <1>1 DEF Quiet, Hits
<1>2. CASE SizeOnly(w)
  <2>1. w.to = "entry" /\ IsDir(w.slot)
    BY <1>2, SizeOnlyIs
  <2>2. w.entry.kind = EntryAt(w.slot).kind /\ w.entry.first = EntryAt(w.slot).first
    BY <1>2, SizeOnlyIs
  <2>3. ASSUME w.slot = s PROVE Suits(w.entry, v, f)
    BY <2>1, <2>2, <2>3 DEF Suits, IsDir
  <2> QED
    BY <2>1, <2>3 DEF Hits
<1> QED
  BY <1>1, <1>2

\* A new entry, and the blocks it begins with, are elsewhere.
LEMMA EnlargesSpares ==
    ASSUME AtRest, NEW path \in Paths, NEW ws, NEW e, NEW K, Enlarges(ws, path, e, K),
           \A w \in K : w.to = "block" /\ w.place = e.first,
           NEW s \in Spots, EntryAt(s).active, NEW f, NEW v, Suits(EntryAt(s), v, f)
    PROVE  Spares(ToSet(ws), s, f, v)
<1>1. PICK end, place : /\ Placed(ParentBlock(path), end, place)
                        /\ Adding(ToSet(ws), K, end, place, e)
  BY DEF Enlarges
<1>2. e.first \notin Taken(fat) /\ NewLast(e)
  BY DEF Enlarges
<1>3. f \in Taken(fat)
  BY EntryFirst DEF Suits
<1>4. ~EntryAt(place).active
  BY <1>1, PlaceIsFree
<1>5. end \in Spots /\ EntryAt(end) \in Entries
  BY <1>1, EntryIs DEF Placed, AtRest
<1>6. ASSUME NEW w \in ToSet(ws)
      PROVE  /\ w.to = "entry" /\ w.slot = s => Suits(w.entry, v, f)
             /\ ~Hits(w, f)
  <2>1. CASE Quiet(w) \/ SizeOnly(w)
    BY <2>1, MildSpares DEF AtRest
  <2>2. CASE w \in K
    BY <2>2, <1>2, <1>3 DEF Hits
  <2>3. CASE w = Demotes(end)
    <3>1. w.to = "entry" /\ w.slot = end /\ w.entry = [EntryAt(end) EXCEPT !.last = FALSE]
      BY <2>3 DEF Demotes, PutEntry
    <3>2. /\ w.entry.kind = EntryAt(end).kind /\ w.entry.first = EntryAt(end).first
          /\ w.entry.size = EntryAt(end).size
      BY <3>1, <1>5 DEF Entries
    <3> QED
      BY <3>1, <3>2 DEF Suits, Hits
  <2>4. CASE w = Enters(place, e)
    BY <2>4, <1>4 DEF Enters, PutEntry, Hits
  <2>5. CASE w = PutName(place, e.name)
    BY <2>5 DEF PutName, Hits
  <2> QED
    BY <1>1, <2>1, <2>2, <2>3, <2>4, <2>5 DEF Adding, EntryWrites
<1> QED
  BY <1>6 DEF Spares

\* A file that is written again, or edited, stays in its place.
LEMMA ReplacesSpares ==
    ASSUME AtRest, NEW path \in Paths, NEW ws, NEW e, NEW K, Replaces(path, ws, e, K),
           \A w \in K : w.to = "block" /\ w.place = e.first,
           NEW s \in Spots, EntryAt(s).active, NEW f, NEW v, Suits(EntryAt(s), v, f),
           s = PathSlot(path) => Suits(e, v, f) /\ \A w \in K : Reads(w.content, v)
    PROVE  Spares(ToSet(ws), s, f, v)
<1> DEFINE r == PathSlot(path)
<1>1. /\ PathFound(path) /\ e.first = EntryAt(r).first
      /\ \A w \in ToSet(ws) : Quiet(w) \/ SizeOnly(w) \/ w \in K \/ w = PutEntry(r, e)
  BY DEF Replaces
<1>2. r \in Spots /\ EntryAt(r).active
  BY <1>1, FoundHere
<1>3. EntryAt(s).first = f
  BY DEF Suits
<1>4. EntryAt(r).first = f => s = r
  BY <1>2, <1>3 DEF AtRest, Owned
<1>5. ASSUME NEW w \in ToSet(ws)
      PROVE  /\ w.to = "entry" /\ w.slot = s => Suits(w.entry, v, f)
             /\ Hits(w, f) => Reads(w.content, v)
  <2>1. CASE Quiet(w) \/ SizeOnly(w)
    BY <2>1, MildSpares DEF AtRest
  <2>2. CASE w \in K
    BY <2>2, <1>1, <1>4 DEF Hits
  <2>3. CASE w = PutEntry(r, e)
    BY <2>3 DEF Hits, PutEntry
  <2> QED
    BY <1>1, <2>1, <2>2, <2>3
<1> QED
  BY <1>5 DEF Spares

\* What the piece of a file holds.
LEMMA CopiedIs ==
    ASSUME NEW l, NEW first, NEW w \in Copied(first, l)
    PROVE  w.to = "block" /\ w.place = first /\ w.content.piece = [id |-> l.id, no |-> 1]
<1>1. w = Piece(first, l)
  BY DEF Copied
<1> QED
  BY <1>1, Zenon DEF Piece, PutBlock, DataOf

\* The same of all of them.
LEMMA CopiedAre ==
    ASSUME NEW l, NEW first
    PROVE  \A w \in Copied(first, l) : w.to = "block" /\ w.place = first
BY CopiedIs

\* The entry of the file l, with its first block, is the one that l claims.
LEMMA FileSuits ==
    ASSUME IdsDiffer, NEW l \in LinuxFiles, NEW e, e.kind = "file", e.size = l.len
    PROVE  /\ Suits(e, l.id, e.first)
           /\ \A w \in Copied(e.first, l) : Reads(w.content, l.id)
<1>1. l.id # Directory /\ \A m \in LinuxFiles : l.id = m.id => l = m
  BY DEF IdsDiffer
<1>2. Suits(e, l.id, e.first)
  BY <1>1 DEF Suits
<1>3. ASSUME NEW w \in Copied(e.first, l) PROVE Reads(w.content, l.id)
  <2>1. w.content.piece = [id |-> l.id, no |-> 1]
    BY CopiedIs
  <2> QED
    BY <2>1 DEF Reads
<1> QED
  BY <1>2, <1>3

\* Whatever a command plans, it spares what finished commands have left, but
\* for the file that it replaces.
LEMMA PlanningSpares ==
    ASSUME AtRest, IdsDiffer, NEW path \in Paths, NEW ws, NEW what, Planning(path, ws, what),
           NEW p \in Paths, NEW s \in Spots, NEW f \in Blocks, NEW v,
           Holds(p, v, s, f), p = path => v = what
    PROVE  Spares(ToSet(ws), s, f, v)
<1>1. AtPath(p, s) /\ Suits(EntryAt(s), v, f) /\ EntryAt(s).active
  BY DEF Holds, AtPath
<1>2. PathFound(path) /\ s = PathSlot(path) => p = path
  BY <1>1, FoundIsAtPath, OnePath
<1>3. CASE MakesDir(path, ws)
  <2>1. PICK e : e.kind = "dir" /\ Enlarges(ws, path, e, {NewTable(e.first)})
    BY <1>3 DEF MakesDir
  <2>2. NewTable(e.first).to = "block" /\ NewTable(e.first).place = e.first
    BY DEF NewTable, PutBlock
  <2> QED
    BY <2>1, <2>2, <1>1, EnlargesSpares
<1>4. ASSUME NEW l \in LinuxFiles, MakesFile(path, ws, l) PROVE Spares(ToSet(ws), s, f, v)
  <2>1. PICK e : e.kind = "file" /\ Enlarges(ws, path, e, Copied(e.first, l))
    BY <1>4 DEF MakesFile
  <2>2. \A w \in Copied(e.first, l) : w.to = "block" /\ w.place = e.first
    BY CopiedAre
  <2> QED
    BY <2>1, <2>2, <1>1, EnlargesSpares
<1>5. ASSUME NEW l \in LinuxFiles, Overwrites(path, ws, l), what = l.id
      PROVE  Spares(ToSet(ws), s, f, v)
  <2>1. PICK e : e.size = l.len /\ Replaces(path, ws, e, Copied(e.first, l))
    BY <1>5 DEF Overwrites
  <2>2. e.kind = "file" /\ e.first = EntryAt(PathSlot(path)).first /\ PathFound(path)
    BY <2>1 DEF Replaces
  <2>3. \A w \in Copied(e.first, l) : w.to = "block" /\ w.place = e.first
    BY CopiedAre
  <2>4. ASSUME s = PathSlot(path)
        PROVE  Suits(e, v, f) /\ \A w \in Copied(e.first, l) : Reads(w.content, v)
    <3>1. v = l.id
      BY <1>2, <1>5, <2>2, <2>4
    <3>2. f = e.first
      BY <1>1, <2>2, <2>4 DEF Suits
    <3> QED
      BY <2>1, <2>2, <3>1, <3>2, FileSuits
  <2> QED
    BY <1>1, <2>1, <2>3, <2>4, ReplacesSpares
<1>6. CASE Edits(path, ws)
  <2>1. PICK e : e.size = EntryAt(PathSlot(path)).size /\ Replaces(path, ws, e, {})
    BY <1>6 DEF Edits
  <2>2. /\ e.kind = "file" /\ EntryAt(PathSlot(path)).kind = "file"
        /\ e.first = EntryAt(PathSlot(path)).first
    BY <2>1 DEF Replaces
  <2>3. s = PathSlot(path) => Suits(e, v, f)
    BY <1>1, <2>1, <2>2 DEF Suits
  <2> QED
    BY <1>1, <2>1, <2>3, ReplacesSpares
<1>7. CASE RefusesDir(path, ws) \/ Resizes(path, ws)
  BY <1>1, MildSpares, <1>7 DEF Mild, Spares, AtRest, RefusesDir, Resizes
<1> QED
  BY <1>3, <1>4, <1>5, <1>6, <1>7 DEF Planning

\* A new entry promises what it is of.
LEMMA EnlargesPromises ==
    ASSUME AtRest, NEW path \in Paths, PathMissing(path),
           NEW ws, NEW e, NEW K, Enlarges(ws, path, e, K),
           \A w \in K : w.to = "block" /\ w.place = e.first,
           NEW v, Suits(e, v, e.first), \A w \in K : Reads(w.content, v),
           (\E l \in LinuxFiles : v = l.id /\ l.len = 1) => K # {}
    PROVE  \E s \in Spots, f \in Blocks : Promises(ToSet(ws), path, v, s, f)
<1>1. PICK end, place : /\ Placed(ParentBlock(path), end, place)
                        /\ Adding(ToSet(ws), K, end, place, e)
  BY DEF Enlarges
<1>2. e.first \in Blocks /\ NewLast(e) /\ e.name = Last(path)
  BY DEF Enlarges
<1>3. ~EntryAt(place).active /\ place \in Spots /\ place.block = ParentBlock(path)
  BY <1>1, PlaceIsFree, EntryWritesLie DEF Placed
<1>4. Under(path, place.block)
  BY <1>3, UnderParent, MissingIs
<1>5. /\ PutName(place, Last(path)) \in ToSet(ws) /\ Enters(place, e) \in ToSet(ws)
      /\ K \subseteq ToSet(ws)
  BY <1>1, <1>2 DEF Adding, EntryWrites
<1>6. /\ Enters(place, e).to = "entry" /\ Enters(place, e).slot = place
      /\ Enters(place, e).entry = [e EXCEPT !.name = Unnamed]
  BY DEF Enters, PutEntry
<1>7. Suits(Enters(place, e).entry, v, e.first)
  BY <1>6, <1>2 DEF Suits, NewLast, Entries
<1>8. Reads(disk[e.first], v) \/ \E w \in ToSet(ws) : Hits(w, e.first)
  <2>1. CASE K # {}
    BY <2>1, <1>5 DEF Hits
  <2>2. CASE K = {}
    BY <2>2 DEF Reads
  <2> QED
    BY <2>1, <2>2
<1>9. ASSUME NEW w \in ToSet(ws)
      PROVE  /\ w.to = "entry" /\ w.slot = place => Suits(w.entry, v, e.first)
             /\ Hits(w, e.first) => Reads(w.content, v)
  <2>1. CASE Quiet(w)
    BY <2>1 DEF Quiet, Hits
  <2>2. CASE SizeOnly(w)
    BY <2>2, <1>3 DEF SizeOnly, IsDir, Hits
  <2>3. CASE w \in K
    BY <2>3 DEF Hits
  <2>4. CASE w = Demotes(end) /\ end # place
    BY <2>4 DEF Demotes, PutEntry, Hits
  <2>5. CASE w = Enters(place, e)
    BY <2>5, <1>6, <1>7 DEF Hits
  <2>6. CASE w = PutName(place, e.name)
    BY <2>6 DEF PutName, Hits
  <2> QED
    BY <1>1, <2>1, <2>2, <2>3, <2>4, <2>5, <2>6 DEF Adding, EntryWrites
<1>10. Spares(ToSet(ws), place, e.first, v)
  BY <1>9 DEF Spares
<1>11. Promises(ToSet(ws), path, v, place, e.first)
  BY <1>4, <1>5, <1>6, <1>8, <1>10 DEF Promises
<1> QED
  BY <1>2, <1>3, <1>11

\* Every command promises what it makes; where it makes nothing, what is there
\* already is there afterwards.
LEMMA PlanningPromises ==
    ASSUME AtRest, IdsDiffer, NEW path \in Paths, NEW ws, NEW what, Planning(path, ws, what),
           Claim(what),
           Claim(stored[path]) => \E s \in Spots, f \in Blocks : Holds(path, stored[path], s, f)
    PROVE  \E s \in Spots, f \in Blocks : Promises(ToSet(ws), path, what, s, f)
<1>1. CASE MakesDir(path, ws) /\ what = Directory
  <2>1. PICK e : e.kind = "dir" /\ Enlarges(ws, path, e, {NewTable(e.first)})
    BY <1>1 DEF MakesDir
  <2>2. NewTable(e.first).to = "block" /\ NewTable(e.first).place = e.first
    BY DEF NewTable, PutBlock
  <2>3. ~\E l \in LinuxFiles : what = l.id
    BY <1>1 DEF IdsDiffer
  <2>4. Suits(e, what, e.first) /\ \A w \in {NewTable(e.first)} : Reads(w.content, what)
    BY <2>1, <2>3 DEF Suits, Reads
  <2>5. PathMissing(path)
    BY <1>1 DEF MakesDir
  <2> QED
    BY <2>1, <2>2, <2>3, <2>4, <2>5, EnlargesPromises
<1>2. ASSUME NEW l \in LinuxFiles, MakesFile(path, ws, l), what = l.id
      PROVE  \E s \in Spots, f \in Blocks : Promises(ToSet(ws), path, what, s, f)
  <2>1. PICK e : e.kind = "file" /\ e.size = l.len /\ Enlarges(ws, path, e, Copied(e.first, l))
    BY <1>2 DEF MakesFile
  <2>2. \A w \in Copied(e.first, l) : w.to = "block" /\ w.place = e.first
    BY CopiedAre
  <2>3. Suits(e, what, e.first) /\ \A w \in Copied(e.first, l) : Reads(w.content, what)
    BY <1>2, <2>1, FileSuits
  <2>4. (\E m \in LinuxFiles : what = m.id /\ m.len = 1) => Copied(e.first, l) # {}
    BY <1>2 DEF IdsDiffer, Copied
  <2>5. PathMissing(path)
    BY <1>2 DEF MakesFile
  <2> QED
    BY <2>1, <2>2, <2>3, <2>4, <2>5, EnlargesPromises
<1>3. ASSUME NEW l \in LinuxFiles, Overwrites(path, ws, l), what = l.id
      PROVE  \E s \in Spots, f \in Blocks : Promises(ToSet(ws), path, what, s, f)
  <2>1. PICK e : e.size = l.len /\ Replaces(path, ws, e, Copied(e.first, l))
    BY <1>3 DEF Overwrites
  <2> DEFINE s == PathSlot(path)
  <2>2. /\ e.kind = "file" /\ e.first = EntryAt(s).first /\ PathFound(path)
        /\ PutEntry(s, e) \in ToSet(ws) /\ Copied(e.first, l) \subseteq ToSet(ws)
        /\ \A w \in ToSet(ws) : Quiet(w) \/ SizeOnly(w) \/ w \in Copied(e.first, l)
                                 \/ w = PutEntry(s, e)
        /\ EntryAt(s).kind = "file"
    BY <2>1 DEF Replaces
  <2>3. AtPath(path, s) /\ s \in Spots /\ EntryAt(s).active
    BY <2>2, FoundIsAtPath DEF AtPath
  <2>4. e.first \in Blocks
    BY <2>2, <2>3, EntryFirst
  <2>5. \A w \in Copied(e.first, l) : w.to = "block" /\ w.place = e.first
    BY CopiedAre
  <2>6. Suits(e, what, e.first) /\ \A w \in Copied(e.first, l) : Reads(w.content, what)
    BY <1>3, <2>1, <2>2, FileSuits
  <2>7. PutEntry(s, e).to = "entry" /\ PutEntry(s, e).slot = s /\ PutEntry(s, e).entry = e
    BY DEF PutEntry
  <2>8. ASSUME NEW w \in ToSet(ws)
        PROVE  /\ w.to = "entry" /\ w.slot = s => Suits(w.entry, what, e.first)
               /\ Hits(w, e.first) => Reads(w.content, what)
    <3>1. CASE Quiet(w)
      BY <3>1 DEF Quiet, Hits
    <3>2. CASE SizeOnly(w)
      BY <3>2, <2>2 DEF SizeOnly, IsDir, Hits
    <3>3. CASE w \in Copied(e.first, l)
      BY <3>3, <2>5, <2>6 DEF Hits
    <3>4. CASE w = PutEntry(s, e)
      BY <3>4, <2>6, <2>7 DEF Hits
    <3> QED
      BY <2>2, <3>1, <3>2, <3>3, <3>4
  <2>9. Reads(disk[e.first], what) \/ \E w \in ToSet(ws) : Hits(w, e.first)
    <3>1. CASE l.len = 1
      BY <2>2, <2>5, <3>1 DEF Hits, Copied
    <3>2. CASE l.len # 1
      BY <3>2, <1>3 DEF Reads, IdsDiffer
    <3> QED
      BY <3>1, <3>2
  <2>10. Promises(ToSet(ws), path, what, s, e.first)
    BY <2>2, <2>3, <2>7, <2>8, <2>9 DEF Promises, Spares
  <2> QED
    BY <2>3, <2>4, <2>10
<1>4. CASE what = stored[path]
  <2>1. PICK s \in Spots, f \in Blocks : Holds(path, what, s, f)
    BY <1>4
  <2>2. Spares(ToSet(ws), s, f, what)
    BY <2>1, PlanningSpares
  <2> QED
    BY <2>1, <2>2, HoldsIsPromise
<1> QED
  BY <1>1, <1>2, <1>3, <1>4 DEF Planning

\* What is in the image stays as long as nothing is written.
LEMMA SameHolds ==
    ASSUME UNCHANGED disk
    PROVE  /\ \A path, v, s, f : Holds(path, v, s, f) => Holds(path, v, s, f)'
           /\ \A R, path, v, s, f : Promises(R, path, v, s, f) => Promises(R, path, v, s, f)'
<1>1. \A u : EntryAt(u)' = EntryAt(u)
  BY DEF EntryAt
<1>2. \A path, b : Under(path, b) => Under(path, b)'
  BY <1>1 DEF Under, IsDir
<1>3. \A path, s : AtPath(path, s) => AtPath(path, s)'
  BY <1>1, <1>2 DEF AtPath
<1>4. \A path, v, s, f : Holds(path, v, s, f) => Holds(path, v, s, f)'
  BY <1>1, <1>3 DEF Holds
<1>5. ASSUME NEW R, NEW path, NEW v, NEW s, NEW f, Promises(R, path, v, s, f)
      PROVE  Promises(R, path, v, s, f)'
  <2>1. /\ \/ AtPath(path, s)
           \/ Under(path, s.block) /\ PutName(s, Last(path)) \in R
        /\ \/ EntryAt(s).active /\ Suits(EntryAt(s), v, f)
           \/ \E w \in R : w.to = "entry" /\ w.slot = s
        /\ Reads(disk[f], v) \/ \E w \in R : Hits(w, f)
        /\ Spares(R, s, f, v)
    BY <1>5 DEF Promises
  <2>2. \/ AtPath(path, s)'
        \/ Under(path, s.block)' /\ PutName(s, Last(path)) \in R
    BY <2>1, <1>2, <1>3
  <2>3. EntryAt(s).active /\ Suits(EntryAt(s), v, f)
          => EntryAt(s)'.active /\ Suits(EntryAt(s)', v, f)
    BY <1>1
  <2>4. Reads(disk'[f], v) \/ \E w \in R : Hits(w, f)
    BY <2>1
  <2> QED
    BY <2>1, <2>2, <2>3, <2>4 DEF Promises
<1> QED
  BY <1>4, <1>5

\* The words for nothing stored and for not known promise nothing.
LEMMA ClaimIs ==
    ASSUME IdsDiffer
    PROVE  ~Claim(Absent) /\ ~Claim(Unknown)
BY DEF IdsDiffer, Claim, Absent, Unknown, Directory

\* A command that starts forgets what was at its path, unless it makes that
\* again.
LEMMA StartSurvives ==
    ASSUME AtRest, IdsDiffer, SurvivesInv, DOMAIN stored = Paths,
           NEW path \in Paths, NEW ws, NEW what, Start(path, ws, what),
           Planning(path, ws, what)
    PROVE  SurvivesInv'
<1>1. /\ todo' = ws /\ making' = [path |-> path, what |-> what] /\ UNCHANGED disk
      /\ stored' = [stored EXCEPT ![path] = IF @ \in {Absent, what} THEN @ ELSE Unknown]
  BY DEF Start
<1>2. /\ \A p, v, s, f : Holds(p, v, s, f) => Holds(p, v, s, f)'
      /\ \A R, p, v, s, f : Promises(R, p, v, s, f) => Promises(R, p, v, s, f)'
  BY <1>1, SameHolds
<1>3. \A p \in Paths : Claim(stored[p]) =>
         \E s \in Spots, f \in Blocks : Holds(p, stored[p], s, f)
  BY DEF SurvivesInv
<1>4. ASSUME NEW p \in Paths, NEW v, v = stored'[p], Claim(v)
      PROVE  \E s \in Spots, f \in Blocks : /\ Holds(p, v, s, f)'
                                            /\ Spares(ToSet(ws), s, f, v)
  <2>1. v = stored[p] /\ (p = path => v = what)
    BY <1>1, <1>4, ClaimIs
  <2>2. PICK s \in Spots, f \in Blocks : Holds(p, v, s, f)
    BY <1>3, <1>4, <2>1
  <2>3. Spares(ToSet(ws), s, f, v)
    BY <2>1, <2>2, PlanningSpares
  <2>4. Holds(p, v, s, f)'
    BY <1>2, <2>2
  <2> QED
    BY <2>3, <2>4
<1>5. ASSUME Claim(what)
      PROVE  \E s \in Spots, f \in Blocks : Promises(ToSet(ws), path, what, s, f)'
  <2>1. PICK s \in Spots, f \in Blocks : Promises(ToSet(ws), path, what, s, f)
    BY <1>3, <1>5, PlanningPromises
  <2> QED
    BY <1>2, <2>1
<1>6. making'.path = path /\ making'.what = what
  BY <1>1
<1>7. \A p \in Paths : Claim(stored'[p]) =>
         \E s \in Spots, f \in Blocks : /\ Holds(p, stored[p], s, f)'
                                        /\ Spares(ToSet(todo), s, f, stored[p])'
  BY <1>1, <1>4 DEF Holds, Spares
<1>8. Claim(making'.what) =>
         \E s \in Spots, f \in Blocks : Promises(ToSet(todo), making.path, making.what, s, f)'
  BY <1>1, <1>5, <1>6 DEF Promises, Spares
<1> QED
  BY <1>6, <1>7, <1>8 DEF SurvivesInv

\* The next write is done; with the last one the command is finished.
LEMMA WriteSurvives ==
    ASSUME OwnerInv, TablesInv, Unnamed \notin Names, SurvivesInv, DOMAIN stored = Paths, Write
    PROVE  SurvivesInv'
<1>1. PICK h, R : /\ h = Head(todo) /\ R = ToSet(todo')
                  /\ h \in Writes /\ R \subseteq Writes /\ ToSet(todo) = {h} \cup R
                  /\ Effect(h)
  BY WriteEffect
<1>2. /\ making' = making /\ todo # << >>
      /\ stored' = IF Len(todo) = 1
                   THEN [stored EXCEPT ![making.path] = making.what] ELSE stored
  BY DEF Write
<1>3. Len(todo) = 1 <=> todo' = << >>
  <2>1. todo' = Tail(todo) /\ todo \in Seq(Writes)
    BY DEF Write, OwnerInv, Typed
  <2>2. PICK q \in Seq(Writes) : q = todo /\ q # << >>
    BY <1>2, <2>1
  <2>3. Len(Tail(q)) = Len(q) - 1 /\ Len(q) \in Nat /\ Tail(q) \in Seq(Writes)
    BY <2>2, HeadTailProperties, LenProperties
  <2>4. Tail(q) = << >> <=> Len(Tail(q)) = 0
    BY <2>3, EmptySeq
  <2>5. Len(q) - 1 = 0 <=> Len(q) = 1
    BY <2>3
  <2> QED
    BY <2>1, <2>2, <2>3, <2>4, <2>5
<1>4. /\ making.path \in Paths
      /\ Claim(making.what) =>
           \E s \in Spots, f \in Blocks :
              Promises({h} \cup R, making.path, making.what, s, f)
  BY <1>1, <1>2 DEF SurvivesInv
<1>5. PICK q, what : q = making.path /\ what = making.what
  OBVIOUS
<1>6. Claim(what) => \E s \in Spots, f \in Blocks : Promises(R, q, what, s, f)'
  <2>1. SUFFICES ASSUME Claim(what)
                 PROVE  \E s \in Spots, f \in Blocks : Promises(R, q, what, s, f)'
    OBVIOUS
  <2>2. PICK s \in Spots, f \in Blocks : Promises({h} \cup R, q, what, s, f)
    BY <1>4, <1>5, <2>1
  <2>3. Promises(R, q, what, s, f)'
    BY <1>1, <1>4, <1>5, <2>2, WriteKeepsPromise
  <2> QED
    BY <2>3
<1>7. ASSUME NEW p \in Paths, NEW v, v = stored[p], Claim(v)
      PROVE  \E s \in Spots, f \in Blocks : Holds(p, v, s, f)' /\ Spares(R, s, f, v)
  <2>1. PICK s \in Spots, f \in Blocks : Holds(p, v, s, f) /\ Spares({h} \cup R, s, f, v)
    BY <1>1, <1>7 DEF SurvivesInv
  <2>2. Holds(p, v, s, f)' /\ Spares(R, s, f, v)
    BY <1>1, <2>1, WriteKeepsHolds
  <2> QED
    BY <2>2
<1>8. ASSUME NEW p \in Paths, NEW v, v = stored'[p], Claim(v)
      PROVE  \E s \in Spots, f \in Blocks : Holds(p, v, s, f)' /\ Spares(R, s, f, v)
  <2>1. CASE Len(todo) = 1 /\ p = q
    <3>1. v = what
      BY <2>1, <1>2, <1>5, <1>8
    <3>2. R = {}
      BY <2>1, <1>1, <1>3, NothingIsFine
    <3>3. PICK s \in Spots, f \in Blocks : Promises(R, q, what, s, f)'
      BY <1>6, <1>8, <3>1
    <3>4. Holds(q, what, s, f)' /\ Spares(R, s, f, what)
      BY <3>2, <3>3 DEF Promises, Holds, Spares
    <3> QED
      BY <2>1, <3>1, <3>4
  <2>2. CASE ~(Len(todo) = 1 /\ p = q)
    BY <1>7, <1>8, <2>2, <1>2, <1>5
  <2> QED
    BY <2>1, <2>2
<1>9. \A p \in Paths : Claim(stored'[p]) =>
         \E s \in Spots, f \in Blocks : /\ Holds(p, stored[p], s, f)'
                                        /\ Spares(ToSet(todo), s, f, stored[p])'
  BY <1>1, <1>8 DEF Holds, Spares
<1>10. Claim(making'.what) =>
         \E s \in Spots, f \in Blocks : Promises(ToSet(todo), making.path, making.what, s, f)'
  BY <1>1, <1>2, <1>5, <1>6 DEF Promises, Spares
<1> QED
  BY <1>2, <1>4, <1>9, <1>10 DEF SurvivesInv

FinishedInv == OwnerInv /\ TablesInv /\ SurvivesInv /\ DOMAIN stored = Paths

\* FinishedInv is inductive.
LEMMA FinishedStep ==
    ASSUME IdsDiffer, Unnamed \notin Names, DirNames \cap FileNames = {},
           \A l \in LinuxFiles : l.len <= 1,
           FinishedInv, [Next]_vars, ~TableGrows \/ UNCHANGED vars
    PROVE  FinishedInv'
<1>1. OwnerInv'
  BY NextOwners DEF FinishedInv
<1>2. CASE Write
  <2>1. TablesInv' /\ SurvivesInv'
    BY <1>2, WriteKeepsTables, WriteSurvives DEF FinishedInv
  <2>2. DOMAIN stored' = Paths
    BY <1>2 DEF Write, FinishedInv
  <2> QED
    BY <1>1, <2>1, <2>2 DEF FinishedInv
<1>3. ASSUME UNCHANGED <<fat, disk, stored, making>>, todo' \in {todo, << >>} PROVE FinishedInv'
  <2>1. /\ Flat(fat)' /\ Tables'
        /\ \A R : Fine(R) => Fine(R)'
    BY <1>3, SameTables DEF FinishedInv, TablesInv, FlatInv
  <2>2. PICK q : q = todo'
    OBVIOUS
  <2>3. Fine(ToSet(q)) /\ Ordered(q) /\ ToSet(q) \subseteq ToSet(todo)
    BY <1>3, <2>2, NothingIsFine DEF FinishedInv, TablesInv
  <2>4. Fine(ToSet(q))'
    BY <2>1, <2>3
  <2>5. TablesInv'
    BY <2>1, <2>2, <2>3, <2>4 DEF TablesInv, FlatInv, FinishedInv
  <2>6. /\ \A p, v, s, f : Holds(p, v, s, f) => Holds(p, v, s, f)'
        /\ \A R, p, v, s, f : Promises(R, p, v, s, f) => Promises(R, p, v, s, f)'
    BY <1>3, SameHolds
  <2>7. ASSUME NEW p \in Paths, NEW v, v = stored[p], Claim(v)
        PROVE  \E s \in Spots, f \in Blocks : Holds(p, v, s, f)' /\ Spares(ToSet(q), s, f, v)
    <3>1. PICK s \in Spots, f \in Blocks : Holds(p, v, s, f) /\ Spares(ToSet(todo), s, f, v)
      BY <2>7 DEF FinishedInv, SurvivesInv
    <3>2. Spares(ToSet(q), s, f, v)
      BY <2>3, <3>1, SparesLess
    <3> QED
      BY <2>6, <3>1, <3>2
  <2>8. \A p \in Paths : Claim(stored'[p]) =>
          \E s \in Spots, f \in Blocks : /\ Holds(p, stored[p], s, f)'
                                         /\ Spares(ToSet(todo), s, f, stored[p])'
    BY <1>3, <2>2, <2>7 DEF Holds, Spares
  <2>9. CASE todo' = << >>
    BY <2>8, <2>9, <1>1, <2>5, <1>3 DEF SurvivesInv, FinishedInv
  <2>10. CASE todo' = todo /\ todo # << >>
    <3>1. PICK path, what, R : path = making.path /\ what = making.what /\ R = ToSet(todo)
      OBVIOUS
    <3>2. path \in Paths
          /\ (Claim(what) => \E s \in Spots, f \in Blocks : Promises(R, path, what, s, f))
      BY <2>10, <3>1 DEF FinishedInv, SurvivesInv
    <3>3. Claim(what) => \E s \in Spots, f \in Blocks : Promises(R, path, what, s, f)'
      BY <2>6, <3>2
    <3>4. /\ making'.path \in Paths
          /\ Claim(making'.what) =>
               \E s \in Spots, f \in Blocks : Promises(ToSet(todo), making.path, making.what, s, f)'
      BY <1>3, <2>10, <3>1, <3>2, <3>3 DEF Promises, Spares
    <3>5. SurvivesInv'
      BY <2>8, <3>4 DEF SurvivesInv
    <3> QED
      BY <3>5, <1>1, <2>5, <1>3 DEF FinishedInv
  <2> QED
    BY <2>9, <2>10, <1>3
<1>4. CASE Crash
  BY <1>3, <1>4 DEF Crash
<1>5. ASSUME Idle, NEW path \in Paths, Command(path), ~TableGrows PROVE FinishedInv'
  <2>1. CASE Stray(path)
    BY <1>3, <2>1 DEF Stray
  <2>2. CASE ~Stray(path)
    <3>1. todo = << >> /\ ~Grows(todo')
      BY <1>5 DEF Idle, TableGrows
    <3>2. AtRest
      BY <3>1, RestIs DEF FinishedInv
    <3>3. PICK ws, what : /\ Start(path, ws, what)
                          /\ Plan(ws) /\ Planning(path, ws, what)
      BY <1>5, <2>2, <3>1, <3>2, CommandIs
    <3>4. todo' = ws /\ DOMAIN stored' = Paths
      BY <3>3 DEF Start, FinishedInv
    <3>5. TablesInv'
      BY <3>1, <3>3, <3>4, StartKeepsTables DEF FinishedInv
    <3>6. SurvivesInv'
      BY <3>2, <3>3, StartSurvives DEF FinishedInv
    <3> QED
      BY <1>1, <3>4, <3>5, <3>6 DEF FinishedInv
  <2> QED
    BY <2>1, <2>2
<1>6. CASE UNCHANGED vars
  BY <1>3, <1>6 DEF vars
<1> QED
  BY <1>2, <1>4, <1>5, <1>6 DEF Next

\* Of a new image nothing is claimed.
LEMMA InitFinished ==
    ASSUME IdsDiffer, Init
    PROVE  FinishedInv
<1>1. OwnerInv /\ TablesInv
  BY InitOwners, InitTables
<1>2. todo = << >> /\ stored = [p \in Paths |-> Absent]
  BY DEF Init
<1>3. SurvivesInv
  BY <1>2, ClaimIs DEF SurvivesInv
<1> QED
  BY <1>1, <1>2, <1>3 DEF FinishedInv

\* What the read command prints of a file that holds l.
LEMMA ContentIs ==
    ASSUME NEW l \in LinuxFiles, l.len <= 1, NEW e \in Entries, NEW f, Suits(e, l.id, f),
           Reads(disk[f], l.id)
    PROVE  Content(e) = [i \in 1 .. l.len |-> [id |-> l.id, no |-> i]]
<1>1. e.size = l.len /\ e.first = f /\ f \in Nat
  BY DEF Suits, Blocks, Entries
<1>2. Content(e) = [i \in 1 .. l.len |-> disk[f + i - 1].piece]
  BY <1>1 DEF Content
<1>3. l.len \in {0, 1}
  BY LinuxFileIs
<1>4. ASSUME NEW i \in 1 .. l.len PROVE disk[f + i - 1].piece = [id |-> l.id, no |-> i]
  <2>1. i = 1 /\ l.len = 1 /\ f + i - 1 = f
    BY <1>1, <1>3, <1>4
  <2>2. disk[f].piece = [id |-> l.id, no |-> 1]
    BY <2>1 DEF Reads
  <2> QED
    BY <2>1, <2>2
<1> QED
  BY <1>2, <1>4

\* The inductive invariant says that finished work is there.
LEMMA FinishedIsThere ==
    ASSUME Unnamed \notin Names, \A l \in LinuxFiles : l.len <= 1, FinishedInv
    PROVE  FinishedWorkSurvives
<1>1. AtRest
  BY DEF FinishedInv, OwnerInv, TablesInv, FlatInv, AtRest
<1>2. ASSUME NEW path \in Paths, NEW v, v = stored[path], Claim(v)
      PROVE  /\ PathFound(path)
             /\ \E f \in Blocks : Suits(EntryAt(PathSlot(path)), v, f) /\ Reads(disk[f], v)
             /\ EntryAt(PathSlot(path)) \in Entries
  <2>1. PICK s \in Spots, f \in Blocks : Holds(path, v, s, f)
    BY <1>2 DEF FinishedInv, SurvivesInv
  <2>2. AtPath(path, s) /\ Suits(EntryAt(s), v, f) /\ Reads(disk[f], v)
    BY <2>1 DEF Holds
  <2>3. PathFound(path) /\ PathSlot(path) = s
    BY <1>1, <2>2, AtPathIsFound
  <2>4. EntryAt(s) \in Entries
    BY <1>1, EntryIs DEF AtRest
  <2> QED
    BY <2>2, <2>3, <2>4
<1>3. ASSUME NEW path \in Paths, stored[path] = Directory
      PROVE  PathFound(path) /\ EntryAt(PathSlot(path)).kind = "dir"
  BY <1>2, <1>3 DEF Claim, Suits
<1>4. ASSUME NEW path \in Paths, NEW l \in LinuxFiles, stored[path] = l.id
      PROVE  /\ PathFound(path)
             /\ Content(EntryAt(PathSlot(path))) =
                  [i \in 1 .. l.len |-> [id |-> l.id, no |-> i]]
  <2>1. Claim(l.id)
    BY DEF Claim
  <2>2. /\ PathFound(path) /\ EntryAt(PathSlot(path)) \in Entries
        /\ \E f \in Blocks : Suits(EntryAt(PathSlot(path)), l.id, f) /\ Reads(disk[f], l.id)
    BY <1>2, <1>4, <2>1
  <2> QED
    BY <2>2, ContentIs
<1> QED
  BY <1>3, <1>4 DEF FinishedWorkSurvives

\* What a finished command has left is there until a command replaces it,
\* whichever commands run and at whichever of their writes they are killed: a
\* directory is found, and a file is found and reads as it was written.  This
\* holds while no full table is lengthened, if mkdir and write are given
\* different names and no file is longer than a block.
THEOREM FinishedWorkIsThere ==
    ASSUME IdsDiffer, Unnamed \notin Names, DirNames \cap FileNames = {},
           \A l \in LinuxFiles : l.len <= 1
    PROVE  Spec /\ [][~TableGrows]_vars => []FinishedWorkSurvives
<1>1. Init => FinishedInv
  BY InitFinished
<1>2. FinishedInv /\ [Next]_vars /\ [~TableGrows]_vars => FinishedInv'
  BY FinishedStep DEF vars
<1>3. FinishedInv => FinishedWorkSurvives
  BY FinishedIsThere
<1> QED
  BY <1>1, <1>2, <1>3, PTL DEF Spec

-----------------------------------------------------------------------------
(* The counts of files and directories *)

\* What the next write h does to a slot that is not in use.
Born(h, u) ==
    \/ EntryAt(u)' = EntryAt(u)
    \/ EntryAt(u)' \in {Indicator, Junk}
    \/ News(h) /\ h.slot = u

\* A slot comes into use by a new entry alone.
LEMMA WriteBirths ==
    ASSUME OwnerInv, TablesInv, Write, Unnamed \notin Names, NEW h, h = Head(todo)
    PROVE  /\ \A u \in Spots : ~EntryAt(u).active => Born(h, u)
           /\ News(h) => h.slot \in Spots
<1>1. PICK R : /\ R = ToSet(Tail(todo))
               /\ h \in Writes /\ R \subseteq Writes /\ ToSet(todo) = {h} \cup R
               /\ \A w \in R : Before(h, w)
  BY TailSet DEF OwnerInv, Typed, Write, TablesInv
<1>2. Done(h)
  BY DEF Write
<1>3. Each({h} \cup R, h) /\ Fine({h} \cup R) /\ Tables /\ Typed
  BY <1>1 DEF TablesInv, OwnerInv, Fine
<1>4. \A w \in {h} \cup R : News(w) => NewHere(w)
  BY <1>1, NewsAreHere
<1>0. News(h) => h.slot \in Spots
  BY <1>1, WriteIs DEF News
<1>6. CASE h.to \in {"sb", "fat"}
  <2>1. disk' = disk
    BY <1>2, <1>3, <1>6, StillStep
  <2>2. \A u \in Spots : EntryAt(u)' = EntryAt(u)
    BY <2>1 DEF EntryAt
  <2> QED
    BY <1>0, <2>2 DEF Born
<1>7. CASE h.to = "entry" /\ ~News(h)
  BY <1>0, <1>1, <1>2, <1>3, <1>7, KeepLands DEF Born
<1>8. CASE News(h)
  <2>1. \A u \in Spots : u # h.slot => EntryAt(u)' = EntryAt(u)
    BY <1>1, <1>2, <1>3, <1>4, <1>8, NewLands
  <2> QED
    BY <1>0, <2>1, <1>8 DEF Born
<1>9. CASE h.to = "name"
  BY <1>0, <1>1, <1>2, <1>3, <1>9, NameOnlyLands DEF Born
<1>10. CASE h.to = "block"
  <2>1. h.place \in Places /\ disk' = [disk EXCEPT ![h.place] = h.content]
    BY <1>1, <1>2, <1>10, WriteIs DEF Done
  <2>2. h.content.entries \in {<< >>, <<Indicator>>}
    BY <1>3, <1>10 DEF Each, PutsBlock
  <2>3. /\ \A u \in Spots : u.block # h.place => EntryAt(u)' = EntryAt(u)
        /\ \A u \in Spots : u.block = h.place => EntryAt(u)' \in {Indicator, Junk}
    BY <1>3, <2>1, <2>2, BlockLands
  <2> QED
    BY <1>0, <2>3 DEF Born
<1> QED
  BY <1>1, <1>6, <1>7, <1>8, <1>9, <1>10, WriteIs

\* The entries of one kind, with the one that R is about to put.
Kind(R, k) ==
    {s \in Spots : \/ EntryAt(s).active /\ EntryAt(s).kind = k
                   \/ \E w \in R : News(w) /\ w.slot = s /\ w.entry.kind = k}

\* A write changes none of the counts: what it puts was counted when planned.
LEMMA WriteKeepsKinds ==
    ASSUME OwnerInv, TablesInv, Write, Unnamed \notin Names, NEW k
    PROVE  Kind(ToSet(todo), k)' = Kind(ToSet(todo), k)
<1>1. PICK h, R : /\ h = Head(todo) /\ R = ToSet(todo')
                  /\ h \in Writes /\ R \subseteq Writes /\ ToSet(todo) = {h} \cup R
                  /\ \A w \in R : Before(h, w)
                  /\ Effect(h)
  BY WriteEffect
<1>2. /\ \A u \in Spots : ~EntryAt(u).active => Born(h, u)
      /\ News(h) => h.slot \in Spots
  BY <1>1, WriteBirths
<1>3. News(h) => EntryAt(h.slot)' = h.entry /\ h.entry.active
  BY <1>1 DEF Effect, News
<1>4. ASSUME NEW u \in Spots, EntryAt(u).active
      PROVE  EntryAt(u)'.active /\ EntryAt(u)'.kind = EntryAt(u).kind
  <2>1. EntryKept(h, u)
    BY <1>1, <1>4 DEF Effect
  <2>2. CASE EntryAt(u)' = EntryAt(u)
    BY <2>2, <1>4
  <2>3. CASE EntryAt(u)' = h.entry /\ h.entry.active /\ h.entry.kind = EntryAt(u).kind
    BY <2>3, Zenon
  <2>4. CASE EntryAt(u)' = [EntryAt(u) EXCEPT !.name = h.name]
    <3>1. EntryAt(u) \in Entries
      BY EntryIs DEF OwnerInv
    <3>2. EntryAt(u)'.kind = EntryAt(u).kind
      BY <2>4, <3>1 DEF Entries
    <3>3. EntryAt(u)'.active
      BY <1>4, <2>4, <3>1 DEF Entries
    <3> QED
      BY <3>2, <3>3
  <2> QED
    BY <2>1, <2>2, <2>3, <2>4 DEF EntryKept
<1>5. ASSUME NEW u \in Spots, ~EntryAt(u).active, EntryAt(u)'.active
      PROVE  News(h) /\ h.slot = u
  BY <1>2, <1>5, JunkIs DEF Born
<1>6. News(h) => ~EntryAt(h.slot).active
  BY NewsAreHere, <1>1 DEF NewHere
<1>7. ASSUME NEW u \in Spots
      PROVE  (\/ EntryAt(u)'.active /\ EntryAt(u)'.kind = k
              \/ \E w \in R : News(w) /\ w.slot = u /\ w.entry.kind = k)
             <=> (\/ EntryAt(u).active /\ EntryAt(u).kind = k
                  \/ \E w \in {h} \cup R : News(w) /\ w.slot = u /\ w.entry.kind = k)
  <2>1. CASE EntryAt(u).active
    <3>1. EntryAt(u)'.active /\ EntryAt(u)'.kind = EntryAt(u).kind
      BY <2>1, <1>4
    <3>2. ~(News(h) /\ h.slot = u)
      BY <2>1, <1>6
    <3> QED
      BY <2>1, <3>1, <3>2
  <2>2. CASE ~EntryAt(u).active /\ News(h) /\ h.slot = u
    BY <2>2, <1>3
  <2>3. CASE ~EntryAt(u).active /\ ~(News(h) /\ h.slot = u)
    BY <2>3, <1>5
  <2> QED
    BY <2>1, <2>2, <2>3
<1> QED
  BY <1>1, <1>7 DEF Kind, News

\* Where nothing new is to come, the entries of a kind are those in use.
LEMMA NothingBorn ==
    ASSUME NEW R, \A w \in R : ~News(w), NEW k
    PROVE  Kind(R, k) = {s \in Spots : EntryAt(s).active /\ EntryAt(s).kind = k}
BY DEF Kind

\* Each entry in use has a block of its own, other than the root's: there are
\* fewer than blocks taken.
LEMMA EntriesCounted ==
    ASSUME AtRest, NEW k, NEW S, S = {s \in Spots : EntryAt(s).active /\ EntryAt(s).kind = k}
    PROVE  /\ IsFiniteSet(S) /\ Cardinality(S) \in Nat
           /\ Blocks \ Taken(fat) # {} => Cardinality(S) <= NumBlocks - 2
<1> DEFINE f == [s \in S |-> EntryAt(s).first]
<1>1. ASSUME NEW T, \A s \in S : EntryAt(s).first \in T
      PROVE  f \in Injection(S, T)
  <2>1. f \in [S -> T]
    BY <1>1
  <2>2. \A s, t \in S : f[s] = f[t] => s = t
    BY DEF AtRest, Owned
  <2> QED
    BY <2>1, <2>2 DEF Injection, IsInjective
<1>2. \A s \in S : EntryAt(s).first \in Taken(fat) /\ EntryAt(s).first # RootBlock
  BY DEF AtRest, Owned
<1>3. IsFiniteSet(Blocks) /\ Cardinality(Blocks) = NumBlocks /\ NumBlocks \in Nat
  BY FreeIsCounted, Sizes
<1>4. IsFiniteSet(S)
  BY <1>3, FS_Injection, <1>1, <1>2 DEF Taken
<1>5. ASSUME NEW x \in Blocks \ Taken(fat) PROVE Cardinality(S) <= NumBlocks - 2
  <2> DEFINE T == (Blocks \ {x}) \ {RootBlock}
  <2>1. RootBlock \in Taken(fat) /\ RootBlock \in Blocks /\ x # RootBlock
    BY <1>5 DEF AtRest, Linked, Taken
  <2>2. f \in Injection(S, T)
    BY <1>1, <1>2, <1>5, <2>1 DEF Taken
  <2>3. IsFiniteSet(Blocks \ {x}) /\ Cardinality(Blocks \ {x}) = NumBlocks - 1
    BY <1>3, <1>5, FS_RemoveElement
  <2>4. IsFiniteSet(T) /\ Cardinality(T) = NumBlocks - 1 - 1
    BY <2>1, <2>3, FS_RemoveElement
  <2>5. Cardinality(S) <= Cardinality(T)
    BY <2>2, <2>4, FS_Injection
  <2> HIDE DEF T
  <2> QED
    BY SMT, <1>3, <2>4, <2>5
<1> QED
  BY <1>4, <1>5, FS_CardinalityType

\* A command that makes no entry counts none.
LEMMA MildIsOld ==
    ASSUME Typed, NEW w
    PROVE  /\ Quiet(w) => ~News(w)
           /\ SizeOnly(w) => ~News(w)
           /\ w.to = "block" => ~News(w)
<1>1. ASSUME SizeOnly(w) PROVE ~News(w)
  <2>1. PICK n : w.entry = [EntryAt(w.slot) EXCEPT !.size = n]
    BY <1>1 DEF SizeOnly
  <2>2. EntryAt(w.slot) \in Entries
    BY <1>1, EntryIs DEF SizeOnly
  <2>3. w.entry.name = EntryAt(w.slot).name
    BY <2>1, <2>2 DEF Entries
  <2> QED
    BY <1>1, <2>3 DEF SizeOnly, News
<1> QED
  BY <1>1 DEF Quiet, News

\* A command that adds an entry makes one slot more of its kind, and no other.
LEMMA OneMoreOfKind ==
    ASSUME AtRest, NEW path \in Paths, NEW ws, NEW e, NEW K, Enlarges(ws, path, e, K),
           \A w \in K : w.to = "block", NEW k
    PROVE  \E p : /\ p \notin Kind({}, k)
                  /\ Kind(ToSet(ws), k) = Kind({}, k) \cup (IF e.kind = k THEN {p} ELSE {})
<1>1. PICK end, place : /\ Placed(ParentBlock(path), end, place)
                        /\ Adding(ToSet(ws), K, end, place, e)
  BY DEF Enlarges
<1>2. NewLast(e)
  BY DEF Enlarges
<1>3. /\ News(Enters(place, e)) /\ ~News(Demotes(end)) /\ ~News(PutName(place, e.name))
      /\ Enters(place, e).entry.kind = e.kind
  BY <1>1, <1>2, EntryWritesNews
<1>4. Enters(place, e).slot = place /\ place \in Spots
  BY <1>1 DEF Enters, PutEntry, Placed
<1>5. Enters(place, e) \in ToSet(ws)
  BY <1>1 DEF Adding, EntryWrites
<1>6. ASSUME NEW w \in ToSet(ws), News(w) PROVE w = Enters(place, e)
  <2>1. Quiet(w) \/ w \in K \/ SizeOnly(w) \/ w \in EntryWrites(end, place, e)
    BY <1>1 DEF Adding
  <2>2. w \in EntryWrites(end, place, e)
    BY <2>1, <1>6, MildIsOld DEF AtRest
  <2> QED
    BY <2>2, <1>3, <1>6 DEF EntryWrites
<1>7. ~EntryAt(place).active
  BY <1>1, PlaceIsFree
<1>8. place \notin Kind({}, k)
  BY <1>7 DEF Kind
<1>9. \A u \in Spots : (\E w \in ToSet(ws) : News(w) /\ w.slot = u /\ w.entry.kind = k)
                          <=> u = place /\ e.kind = k
  BY <1>3, <1>4, <1>5, <1>6
<1>10. Kind(ToSet(ws), k) = Kind({}, k) \cup (IF e.kind = k THEN {place} ELSE {})
  BY <1>4, <1>9 DEF Kind
<1> QED
  BY <1>8, <1>10

\* The superblock that is in the image when the plan ws is done.
Final(ws, s) == IF ws # << >> /\ Last(ws).to = "sb" THEN Last(ws).sb ELSE s

\* The counts but for the free blocks stay in their ranges.
InRange(s) == /\ s.numFiles \in 0 .. NumBlocks - 1
              /\ s.numDirs \in 1 .. SizeBound + 1
              /\ s.rootSize \in 0 .. SizeBound + NumBlocks

\* s counts the files exactly and the directories at least.
Agrees(R, s) == /\ s.numFiles = Cardinality(Kind(R, "file"))
                /\ s.numDirs >= 1 + Cardinality(Kind(R, "dir"))

\* The last superblock that is written agrees with the entries then in use.
Settles(ws) ==
    /\ \A w \in ToSet(ws) : w.to = "sb" => InRange(w.sb)
    /\ ws # << >> => Last(ws).to = "sb" \/ \A w \in ToSet(ws) : w.to # "sb"
    /\ Agrees(ToSet(ws), Final(ws, sb))

\* A slot that is not in use holds no kind of entry.
Plain == \A s \in Spots : ~EntryAt(s).active => EntryAt(s).kind = "none"

CountInv == InRange(sb) /\ Settles(todo) /\ Plain /\ DOMAIN stored = Paths

\* What is last in a plan is last until it is done.
LEMMA LastIsLast ==
    ASSUME NEW S, NEW q \in Seq(S), q # << >>
    PROVE  /\ Tail(q) # << >> => Last(Tail(q)) = Last(q) /\ Last(q) \in ToSet(Tail(q))
           /\ Tail(q) = << >> => Last(q) = Head(q)
<1>1. PICK n \in Nat : n = Len(q) /\ n # 0 /\ DOMAIN q = 1 .. n
  BY LenProperties, EmptySeq
<1>2. /\ Tail(q) \in Seq(S) /\ Len(Tail(q)) = n - 1
      /\ \A i \in 1 .. n - 1 : Tail(q)[i] = q[i + 1]
  BY <1>1, HeadTailProperties
<1>3. Tail(q) = << >> <=> n - 1 = 0
  BY <1>2, EmptySeq
<1>4. CASE n = 1
  <2>1. Tail(q) = << >>
    BY <1>3, <1>4
  <2>2. Last(q) = q[1] /\ Head(q) = q[1]
    BY <1>1, <1>4 DEF Last
  <2> QED
    BY <2>1, <2>2
<1>5. CASE n # 1
  <2>1. n - 1 \in 1 .. n - 1 /\ n - 1 + 1 = n
    BY SMT, <1>1, <1>5
  <2>2. Tail(q) # << >>
    BY SMT, <1>1, <1>3, <1>5
  <2>3. Tail(q)[n - 1] = q[n]
    BY <1>2, <2>1
  <2>4. Last(Tail(q)) = q[n] /\ Last(q) = q[n]
    BY <1>1, <1>2, <2>3 DEF Last
  <2>5. DOMAIN Tail(q) = 1 .. n - 1
    BY <1>2, LenProperties
  <2>6. q[n] \in ToSet(Tail(q))
    BY <2>1, <2>3, <2>5 DEF ToSet, Range
  <2> QED
    BY <2>2, <2>4, <2>6
<1> QED
  BY <1>4, <1>5

\* A write keeps the agreement: what it puts was counted when it was planned.
LEMMA WriteSettles ==
    ASSUME OwnerInv, TablesInv, CountInv, Write, Unnamed \notin Names
    PROVE  InRange(sb') /\ Settles(todo)'
<1>1. PICK q, t, h : q = todo /\ t = Tail(q) /\ h = Head(q)
  OBVIOUS
<1>2. q \in Seq(Writes) /\ q # << >> /\ todo' = t
  BY <1>1 DEF OwnerInv, Typed, Write
<1>3. h \in ToSet(q) /\ ToSet(t) \subseteq ToSet(q)
  BY <1>1, <1>2, TailSet
<1>4. sb' = IF h.to = "sb" THEN h.sb ELSE sb
  BY <1>1 DEF Write, Done
<1>5. /\ \A w \in ToSet(q) : w.to = "sb" => InRange(w.sb)
      /\ Last(q).to = "sb" \/ \A w \in ToSet(q) : w.to # "sb"
      /\ Agrees(ToSet(q), Final(q, sb)) /\ InRange(sb)
  BY <1>1, <1>2 DEF CountInv, Settles
<1>6. InRange(sb')
  BY <1>3, <1>4, <1>5
<1>7. t # << >> => Last(t).to = "sb" \/ \A w \in ToSet(t) : w.to # "sb"
  BY <1>1, <1>2, <1>3, <1>5, LastIsLast
<1>8. Final(t, sb') = Final(q, sb)
  <2>1. CASE t = << >>
    BY <1>2, <1>4, <2>1, <1>1, LastIsLast DEF Final
  <2>2. CASE t # << >>
    <3>1. Last(t) = Last(q)
      BY <1>1, <1>2, <2>2, LastIsLast
    <3>2. CASE Last(q).to = "sb"
      BY <1>2, <2>2, <3>1, <3>2 DEF Final
    <3>3. CASE Last(q).to # "sb"
      <4>1. h.to # "sb"
        BY <1>3, <1>5, <3>3
      <4> QED
        BY <1>2, <1>4, <2>2, <3>1, <3>3, <4>1 DEF Final
    <3> QED
      BY <3>2, <3>3
  <2> QED
    BY <2>1, <2>2
<1>9. \A k : Kind(ToSet(t), k)' = Kind(ToSet(q), k)
  <2>1. SUFFICES ASSUME NEW k PROVE Kind(ToSet(t), k)' = Kind(ToSet(q), k)
    OBVIOUS
  <2>2. Kind(ToSet(todo), k)' = Kind(ToSet(todo), k)
    BY WriteKeepsKinds
  <2> QED
    BY <1>1, <1>2, <2>2 DEF Kind
<1>10. PICK s : s = Final(q, sb)
  OBVIOUS
<1>11. Agrees(ToSet(t), s)'
  BY <1>9, <1>5, <1>10 DEF Agrees
<1>12. Final(t, sb)' = s
  BY <1>8, <1>10 DEF Final
<1>13. Agrees(ToSet(t), Final(t, sb))'
  BY <1>11, <1>12 DEF Agrees
<1>14. \A w \in ToSet(t) : w.to = "sb" => InRange(w.sb)
  BY <1>3, <1>5
<1>15. Settles(t)'
  BY <1>7, <1>13, <1>14 DEF Settles, InRange
<1>16. Settles(todo)' <=> Settles(t)'
  BY <1>2 DEF Settles, Final, Agrees, Kind
<1> QED
  BY <1>6, <1>15, <1>16

\* A write leaves no kind in a slot that is not in use.
LEMMA WriteKeepsPlain ==
    ASSUME OwnerInv, TablesInv, Plain, Write, Unnamed \notin Names
    PROVE  Plain'
<1>1. PICK h, R : /\ h = Head(todo) /\ R = ToSet(todo')
                  /\ h \in Writes /\ R \subseteq Writes /\ ToSet(todo) = {h} \cup R
                  /\ \A w \in R : Before(h, w)
                  /\ Effect(h)
  BY WriteEffect
<1>2. \A u \in Spots : ~EntryAt(u).active => Born(h, u)
  BY <1>1, WriteBirths
<1>3. ASSUME NEW u \in Spots, EntryAt(u).active PROVE EntryAt(u)'.active
  <2>1. EntryKept(h, u)
    BY <1>1, <1>3 DEF Effect
  <2>2. EntryAt(u) \in Entries
    BY EntryIs DEF OwnerInv
  <2>3. CASE EntryAt(u)' = [EntryAt(u) EXCEPT !.name = h.name]
    BY <1>3, <2>2, <2>3 DEF Entries
  <2>4. CASE EntryAt(u)' = h.entry /\ h.entry.active /\ h.entry.kind = EntryAt(u).kind
    BY <2>4, Zenon
  <2> QED
    BY <1>3, <2>1, <2>3, <2>4 DEF EntryKept
<1>4. ASSUME NEW u \in Spots, ~EntryAt(u)'.active PROVE EntryAt(u)'.kind = "none"
  <2>1. ~EntryAt(u).active
    BY <1>3, <1>4
  <2>2. EntryAt(u).kind = "none"
    BY <2>1 DEF Plain
  <2>3. Indicator.kind = "none" /\ Junk.kind = "none"
    BY DEF Indicator, Junk
  <2>4. News(h) /\ h.slot = u => EntryAt(u)'.active
    BY <1>1, Zenon DEF Effect, News
  <2> QED
    BY <1>2, <1>4, <2>1, <2>2, <2>3, <2>4 DEF Born
<1> QED
  BY <1>4 DEF Plain

\* The superblocks that the commands write, next to the one they have read.
LEMMA CountsAre ==
    ASSUME NEW s \in Superblocks, NEW n \in Nat
    PROVE  /\ OneFewerFree(s) \in Superblocks
           /\ OneFewerFree(s).numFiles = s.numFiles
           /\ OneFewerFree(s).numDirs = s.numDirs
           /\ OneFewerFree(s).rootSize = s.rootSize
           /\ OneMoreFile(s) \in Superblocks
           /\ OneMoreFile(s).numFiles = s.numFiles + 1
           /\ OneMoreFile(s).numDirs = s.numDirs
           /\ OneMoreFile(s).rootSize = s.rootSize
           /\ OneMoreDir(s) \in Superblocks
           /\ OneMoreDir(s).numFiles = s.numFiles
           /\ OneMoreDir(s).numDirs = s.numDirs + 1
           /\ OneMoreDir(s).rootSize = s.rootSize
           /\ Grown(s, n).numFiles = s.numFiles
           /\ Grown(s, n).numDirs = s.numDirs
           /\ Grown(s, n).rootSize = s.rootSize + n
<1>1. OneFewerFree(s) \in Superblocks
  BY OneFewerIs
<1>2. OneMoreFile(s) \in Superblocks /\ OneMoreDir(s) \in Superblocks
  BY CountedIs DEF OneMoreFile, OneMoreDir
<1>3. /\ OneFewerFree(s).numFiles = s.numFiles
      /\ OneFewerFree(s).numDirs = s.numDirs
      /\ OneFewerFree(s).rootSize = s.rootSize
  BY DEF OneFewerFree, Superblocks
<1>4. /\ OneMoreFile(s).numFiles = s.numFiles + 1
      /\ OneMoreFile(s).numDirs = s.numDirs
      /\ OneMoreFile(s).rootSize = s.rootSize
  BY DEF OneMoreFile, Superblocks
<1>5. /\ OneMoreDir(s).numFiles = s.numFiles
      /\ OneMoreDir(s).numDirs = s.numDirs + 1
      /\ OneMoreDir(s).rootSize = s.rootSize
  BY DEF OneMoreDir, Superblocks
<1>6. /\ Grown(s, n).numFiles = s.numFiles
      /\ Grown(s, n).numDirs = s.numDirs
      /\ Grown(s, n).rootSize = s.rootSize + n
  BY DEF Grown, Superblocks
<1> QED
  BY <1>1, <1>2, <1>3, <1>4, <1>5, <1>6

\* What a command that closes with s settles.
LEMMA ClosingSettles ==
    ASSUME NEW ws, NEW S, NEW s, Closes(ws, S, s), ws # << >>,
           InRange(s), \A x \in S : InRange(x), Agrees(ToSet(ws), s)
    PROVE  Settles(ws)
<1>1. Last(ws).to = "sb" /\ Last(ws).sb = s
  BY DEF Closes, PutSuperblock
<1>2. Final(ws, sb) = s
  BY <1>1 DEF Final
<1> QED
  BY <1>1, <1>2 DEF Closes, Settles

\* At rest the superblock agrees with the entries in use.
LEMMA RestAgrees ==
    ASSUME CountInv, todo = << >>
    PROVE  Agrees({}, sb) /\ InRange(sb)
<1>1. ToSet(<< >>) = {}
  BY ShortSets
<1> QED
  BY <1>1 DEF CountInv, Settles, Final

\* Where no entry is added the counts are those of the entries in use.
LEMMA SameKinds ==
    ASSUME NEW ws, \A w \in ToSet(ws) : ~News(w), NEW k
    PROVE  Kind(ToSet(ws), k) = Kind({}, k)
BY NothingBorn

\* An entry that is added is counted, in its kind alone.
LEMMA AddedIsCounted ==
    ASSUME AtRest, NEW path \in Paths, NEW ws, NEW e, NEW K, Enlarges(ws, path, e, K),
           \A w \in K : w.to = "block", NEW k
    PROVE  /\ Cardinality(Kind(ToSet(ws), k)) =
                Cardinality(Kind({}, k)) + (IF e.kind = k THEN 1 ELSE 0)
           /\ Cardinality(Kind({}, k)) \in Nat
           /\ Cardinality(Kind({}, k)) <= NumBlocks - 2
<1>1. PICK p : /\ p \notin Kind({}, k)
               /\ Kind(ToSet(ws), k) = Kind({}, k) \cup (IF e.kind = k THEN {p} ELSE {})
  BY OneMoreOfKind
<1>2. Kind({}, k) = {s \in Spots : EntryAt(s).active /\ EntryAt(s).kind = k}
  BY NothingBorn
<1>3. Blocks \ Taken(fat) # {}
  BY FreeIsCounted DEF Enlarges
<1>4. /\ IsFiniteSet(Kind({}, k)) /\ Cardinality(Kind({}, k)) \in Nat
      /\ Cardinality(Kind({}, k)) <= NumBlocks - 2
  BY <1>2, <1>3, EntriesCounted
<1>5. CASE e.kind = k
  BY <1>1, <1>4, <1>5, FS_AddElement
<1>6. CASE e.kind # k
  <2>1. Kind({}, k) \cup {} = Kind({}, k)
    OBVIOUS
  <2>2. Cardinality(Kind({}, k)) + 0 = Cardinality(Kind({}, k))
    BY <1>4
  <2> QED
    BY <1>1, <1>4, <1>6, <2>1, <2>2
<1> QED
  BY <1>5, <1>6

\* Every command that starts at rest settles the counts.
LEMMA PlanSettles ==
    ASSUME AtRest, CountInv, todo = << >>, sb.rootSize < SizeBound,
           \A l \in LinuxFiles : l.len <= 1,
           NEW path \in Paths, NEW ws, NEW what, Plan(ws), Planning(path, ws, what)
    PROVE  Settles(ws)
<1>1. /\ sb \in Superblocks /\ sb.numFiles \in Nat /\ sb.numDirs \in Nat /\ sb.rootSize \in Nat
      /\ NumBlocks \in Nat \ {0} /\ SizeBound \in Nat
  BY FatAssumption, Sizes DEF AtRest, Typed, Superblocks
<1>2. Agrees({}, sb) /\ InRange(sb)
  BY RestAgrees
<1>3. ws # << >>
  BY DEF Plan
<1>4. 0 \in Nat /\ 1 \in Nat
  OBVIOUS
<1>5. ASSUME \A w \in ToSet(ws) : ~News(w), NEW s, s.numFiles = sb.numFiles,
             s.numDirs \in Nat, s.numDirs >= sb.numDirs
      PROVE  Agrees(ToSet(ws), s)
  <2>1. Kind(ToSet(ws), "file") = Kind({}, "file") /\ Kind(ToSet(ws), "dir") = Kind({}, "dir")
    BY <1>5, SameKinds
  <2>2. PICK n \in Nat : n = Cardinality(Kind({}, "dir"))
    BY NothingBorn, EntriesCounted
  <2>3. sb.numDirs >= 1 + n /\ sb.numFiles = Cardinality(Kind({}, "file"))
    BY <1>2, <2>2 DEF Agrees
  <2>4. s.numDirs >= 1 + n
    BY SMT, <1>1, <1>5, <2>2, <2>3
  <2> QED
    BY <1>5, <2>1, <2>2, <2>3, <2>4 DEF Agrees
<1>6. ASSUME NEW s \in Superblocks, NEW n \in Nat, n <= NumBlocks,
             InRange(s), s.rootSize = sb.rootSize
      PROVE  InRange(Grown(s, n))
  <2>1. Grown(s, n).rootSize = sb.rootSize + n
    BY <1>6, CountsAre
  <2>2. sb.rootSize + n \in 0 .. SizeBound + NumBlocks
    BY SMT, <1>1, <1>6
  <2> QED
    BY <1>6, <2>1, <2>2, CountsAre DEF InRange
<1>7. ASSUME NEW l \in LinuxFiles PROVE l.len \in Nat /\ l.len <= NumBlocks
  BY <1>1, FatAssumption
<1>8. ASSUME NEW S, \A x \in S : InRange(x), NEW s \in Superblocks, NEW n \in Nat, n <= NumBlocks,
             InRange(s), s.rootSize = sb.rootSize, s.numFiles = sb.numFiles,
             s.numDirs >= sb.numDirs, Closes(ws, S, Grown(s, n)),
             \A w \in ToSet(ws) : ~News(w)
      PROVE  Settles(ws)
  <2>1. InRange(Grown(s, n))
    BY <1>6, <1>8
  <2>2. /\ Grown(s, n).numFiles = sb.numFiles /\ Grown(s, n).numDirs = s.numDirs
        /\ s.numDirs \in Nat
    BY <1>8, CountsAre DEF Superblocks
  <2>3. Agrees(ToSet(ws), Grown(s, n))
    BY <1>5, <1>8, <2>2
  <2> QED
    BY <1>3, <1>8, <2>1, <2>3, ClosingSettles
<1>9. \A w : /\ Quiet(w) \/ SizeOnly(w) \/ w.to = "block" => ~News(w)
  BY MildIsOld DEF AtRest
<1>10. ASSUME NEW e, NEW K, Replaces(path, ws, e, K), \A w \in K : w.to = "block"
       PROVE  \A w \in ToSet(ws) : ~News(w)
  <2>1. EntryAt(PathSlot(path)).name \in Names
    BY PathIs, <1>10, FoundHere DEF Replaces
  <2>2. e.name # Unnamed
    BY <1>10, <2>1 DEF Replaces, AtRest
  <2>3. ~News(PutEntry(PathSlot(path), e))
    BY <2>2 DEF News, PutEntry
  <2> QED
    BY <1>9, <1>10, <2>3 DEF Replaces
<1>11. \A f, l : \A w \in Copied(f, l) : w.to = "block"
  BY DEF Copied, Piece, PutBlock
<1>12. CASE MakesDir(path, ws)
  <2> DEFINE t == OneMoreDir(OneFewerFree(sb))
  <2>1. PICK e : /\ e.kind = "dir" /\ Enlarges(ws, path, e, {NewTable(e.first)})
                 /\ Closes(ws, {OneFewerFree(sb), t}, Grown(t, 0))
    BY <1>12 DEF MakesDir
  <2>2. sb.numDirs <= SizeBound
    BY <1>12 DEF MakesDir
  <2>3. /\ OneFewerFree(sb) \in Superblocks /\ t \in Superblocks
        /\ OneFewerFree(sb).numFiles = sb.numFiles
        /\ OneFewerFree(sb).numDirs = sb.numDirs
        /\ OneFewerFree(sb).rootSize = sb.rootSize
        /\ t.numFiles = sb.numFiles /\ t.numDirs = sb.numDirs + 1 /\ t.rootSize = sb.rootSize
    <3>1. PICK o : o = OneFewerFree(sb)
      OBVIOUS
    <3>2. /\ o \in Superblocks /\ o.numFiles = sb.numFiles
          /\ o.numDirs = sb.numDirs /\ o.rootSize = sb.rootSize
      BY <1>1, <1>4, <3>1, CountsAre
    <3> QED
      BY <1>4, <3>1, <3>2, CountsAre
  <2> HIDE DEF t
  <2>4. InRange(OneFewerFree(sb))
    BY <1>2, <2>3 DEF InRange
  <2>5. InRange(t)
    BY <1>2, <2>3, SMT, <1>1, <2>2 DEF InRange
  <2>6. InRange(Grown(t, 0)) /\ Grown(t, 0).numFiles = sb.numFiles
        /\ Grown(t, 0).numDirs = sb.numDirs + 1
    <3>1. 0 <= NumBlocks
      BY SMT, <1>1
    <3> QED
      BY <1>4, <1>6, <2>3, <2>5, <3>1, CountsAre
  <2>7. \A w \in {NewTable(e.first)} : w.to = "block"
    BY DEF NewTable, PutBlock
  <2>8. PICK m \in Nat, n \in Nat : m = Cardinality(Kind({}, "file")) /\ n = Cardinality(Kind({}, "dir"))
    BY NothingBorn, EntriesCounted
  <2>9. /\ Cardinality(Kind(ToSet(ws), "file")) = m + 0
        /\ Cardinality(Kind(ToSet(ws), "dir")) = n + 1
    <3>1. Cardinality(Kind(ToSet(ws), "file")) = m + (IF e.kind = "file" THEN 1 ELSE 0)
      BY <2>1, <2>7, <2>8, AddedIsCounted
    <3>2. Cardinality(Kind(ToSet(ws), "dir")) = n + (IF e.kind = "dir" THEN 1 ELSE 0)
      BY <2>1, <2>7, <2>8, AddedIsCounted
    <3> QED
      BY <2>1, <3>1, <3>2
  <2>10. Agrees(ToSet(ws), Grown(t, 0))
    <3>1. sb.numFiles = m /\ sb.numDirs >= 1 + n
      BY <1>2, <2>8 DEF Agrees
    <3>2. m = m + 0 /\ sb.numDirs + 1 >= 1 + (n + 1)
      BY SMT, <1>1, <2>8, <3>1
    <3> QED
      BY <2>6, <2>9, <3>1, <3>2 DEF Agrees
  <2>11. \A x \in {OneFewerFree(sb), t} : InRange(x)
    BY <2>4, <2>5
  <2> QED
    BY <1>3, <2>1, <2>6, <2>10, <2>11, ClosingSettles
<1>13. ASSUME NEW l \in LinuxFiles, MakesFile(path, ws, l) PROVE Settles(ws)
  <2> DEFINE t == OneMoreFile(OneFewerFree(sb))
             g == Grown(t, l.len)
  <2>1. PICK e : /\ e.kind = "file" /\ Enlarges(ws, path, e, Copied(e.first, l))
                 /\ Closes(ws, {OneFewerFree(sb), t}, g)
    BY <1>13 DEF MakesFile
  <2>3. /\ OneFewerFree(sb) \in Superblocks /\ t \in Superblocks
        /\ OneFewerFree(sb).numFiles = sb.numFiles
        /\ OneFewerFree(sb).numDirs = sb.numDirs
        /\ OneFewerFree(sb).rootSize = sb.rootSize
        /\ t.numFiles = sb.numFiles + 1 /\ t.numDirs = sb.numDirs /\ t.rootSize = sb.rootSize
    <3>1. PICK o : o = OneFewerFree(sb)
      OBVIOUS
    <3>2. /\ o \in Superblocks /\ o.numFiles = sb.numFiles
          /\ o.numDirs = sb.numDirs /\ o.rootSize = sb.rootSize
      BY <1>1, <1>4, <3>1, CountsAre
    <3> QED
      BY <1>4, <3>1, <3>2, CountsAre
  <2> HIDE DEF t
  <2>4. InRange(OneFewerFree(sb))
    BY <1>2, <2>3 DEF InRange
  <2>7. \A w \in Copied(e.first, l) : w.to = "block"
    BY <1>11
  <2>8. PICK m \in Nat, n \in Nat : m = Cardinality(Kind({}, "file")) /\ n = Cardinality(Kind({}, "dir"))
    BY NothingBorn, EntriesCounted
  <2>9. /\ Cardinality(Kind(ToSet(ws), "file")) = m + 1
        /\ Cardinality(Kind(ToSet(ws), "dir")) = n + 0
        /\ m <= NumBlocks - 2
    <3>1. /\ Cardinality(Kind(ToSet(ws), "file")) = m + (IF e.kind = "file" THEN 1 ELSE 0)
          /\ m <= NumBlocks - 2
      BY <2>1, <2>7, <2>8, AddedIsCounted
    <3>2. Cardinality(Kind(ToSet(ws), "dir")) = n + (IF e.kind = "dir" THEN 1 ELSE 0)
      BY <2>1, <2>7, <2>8, AddedIsCounted
    <3> QED
      BY <2>1, <3>1, <3>2
  <2>10. sb.numFiles = m /\ sb.numDirs >= 1 + n
    BY <1>2, <2>8 DEF Agrees
  <2>5. InRange(t)
    <3>1. sb.numFiles + 1 \in 0 .. NumBlocks - 1
      BY SMT, <1>1, <2>8, <2>9, <2>10
    <3> QED
      BY <1>2, <2>3, <3>1 DEF InRange
  <2>6. InRange(g) /\ g.numFiles = sb.numFiles + 1 /\ g.numDirs = sb.numDirs
    BY <1>6, <1>7, <2>3, <2>5, CountsAre
  <2> HIDE DEF g
  <2>11. Agrees(ToSet(ws), g)
    BY <2>6, <2>9, <2>10, SMT, <2>8 DEF Agrees
  <2>12. \A x \in {OneFewerFree(sb), t} : InRange(x)
    BY <2>4, <2>5
  <2> QED
    BY <1>3, <2>1, <2>6, <2>11, <2>12, ClosingSettles
<1>14. ASSUME NEW l \in LinuxFiles, Overwrites(path, ws, l) PROVE Settles(ws)
  <2>1. PICK e : Replaces(path, ws, e, Copied(e.first, l))
    BY <1>14 DEF Overwrites
  <2>2. \A w \in ToSet(ws) : ~News(w)
    BY <1>10, <1>11, <2>1
  <2>3. Closes(ws, {sb}, Grown(sb, l.len))
    BY <1>14 DEF Overwrites
  <2>4. sb.numDirs >= sb.numDirs
    BY SMT, <1>1
  <2> QED
    BY <1>1, <1>2, <1>7, <1>8, <2>2, <2>3, <2>4
<1>15. CASE Edits(path, ws)
  <2>1. PICK e : /\ Replaces(path, ws, e, {})
                 /\ ws = <<PutEntry(PathSlot(path), e)>>
    BY <1>15 DEF Edits
  <2>2. \A w \in ToSet(ws) : ~News(w)
    BY <1>10, <2>1
  <2>3. Last(ws).to = "entry" /\ \A w \in ToSet(ws) : w.to # "sb"
    BY <2>1 DEF Last, ToSet, Range, PutEntry
  <2>4. Final(ws, sb) = sb
    BY <2>3 DEF Final
  <2>5. sb.numDirs >= sb.numDirs
    BY SMT, <1>1
  <2>6. Agrees(ToSet(ws), sb)
    BY <1>1, <1>5, <2>2, <2>5
  <2> QED
    BY <2>3, <2>4, <2>6 DEF Settles
<1>16. CASE RefusesDir(path, ws)
  <2> DEFINE t == OneMoreDir(sb)
  <2>1. Mild(ws) /\ Closes(ws, {t}, Grown(t, 0)) /\ sb.numDirs <= SizeBound
    BY <1>16 DEF RefusesDir
  <2>2. \A w \in ToSet(ws) : ~News(w)
    BY <1>9, <2>1 DEF Mild
  <2>3. /\ t \in Superblocks /\ t.numFiles = sb.numFiles
        /\ t.numDirs = sb.numDirs + 1 /\ t.rootSize = sb.rootSize
    BY <1>1, <1>4, CountsAre
  <2> HIDE DEF t
  <2>4. sb.numDirs + 1 \in 1 .. SizeBound + 1 /\ sb.numDirs + 1 >= sb.numDirs /\ 0 <= NumBlocks
    BY SMT, <1>1, <2>1
  <2>5. InRange(t)
    BY <1>2, <2>3, <2>4 DEF InRange
  <2>6. t.numDirs >= sb.numDirs /\ \A x \in {t} : InRange(x)
    BY <2>3, <2>4, <2>5
  <2> QED
    BY <1>4, <1>8, <2>1, <2>2, <2>3, <2>4, <2>5, <2>6
<1>17. CASE Resizes(path, ws)
  <2>1. Mild(ws) /\ Closes(ws, {sb}, Grown(sb, 1))
    BY <1>17 DEF Resizes
  <2>2. \A w \in ToSet(ws) : ~News(w)
    BY <1>9, <2>1 DEF Mild
  <2>3. sb.numDirs >= sb.numDirs /\ 1 <= NumBlocks
    BY SMT, <1>1
  <2> QED
    BY <1>1, <1>2, <1>4, <1>8, <2>1, <2>2, <2>3
<1> QED
  BY <1>12, <1>13, <1>14, <1>15, <1>16, <1>17 DEF Planning

\* A command that starts leaves the counts right: what it plans settles them.
LEMMA StartSettles ==
    ASSUME CountInv, NEW path, NEW ws, NEW what, Start(path, ws, what), Settles(ws)
    PROVE  CountInv'
<1>1. UNCHANGED <<sb, fat, disk>> /\ todo' = ws /\ DOMAIN stored' = DOMAIN stored
  BY DEF Start
<1>2. \A s : EntryAt(s)' = EntryAt(s)
  BY <1>1, SameTables
<1>3. Plain' /\ InRange(sb') /\ DOMAIN stored' = Paths
  BY <1>1, <1>2 DEF CountInv, Plain
<1>4. \A R, s : Agrees(R, s) => Agrees(R, s)'
  <2>1. SUFFICES ASSUME NEW R, NEW s, Agrees(R, s) PROVE Agrees(R, s)'
    OBVIOUS
  <2>2. \A k : Kind(R, k)' = Kind(R, k)
    BY <1>2 DEF Kind
  <2> QED
    BY <2>1, <2>2 DEF Agrees
<1>5. PICK s : s = Final(ws, sb)
  OBVIOUS
<1>6. Agrees(ToSet(ws), s)'
  BY <1>4, <1>5 DEF Settles
<1>7. Final(todo, sb)' = s
  BY <1>1, <1>5 DEF Final
<1>8. Agrees(ToSet(todo), Final(todo, sb))'
  BY <1>1, <1>6, <1>7 DEF Agrees, Kind
<1>9. Settles(todo)'
  BY <1>1, <1>8 DEF Settles, InRange
<1> QED
  BY <1>3, <1>9 DEF CountInv, InRange

CountedInv == ReadInv /\ ExactInv /\ CountInv

\* CountedInv is inductive.
LEMMA CountStep ==
    ASSUME MaxCrashes = 0, Unnamed \notin Names, DirNames \cap FileNames = {},
           \A l \in LinuxFiles : l.len <= 1,
           CountedInv, Next, ~TableGrows
    PROVE  CountedInv'
<1>1. ReadInv' /\ ExactInv'
  BY ReadStep, ExactStep DEF CountedInv, ReadInv
<1>2. CASE Write
  <2>1. InRange(sb') /\ Settles(todo)' /\ Plain'
    BY <1>2, WriteSettles, WriteKeepsPlain DEF CountedInv, ReadInv, CountInv
  <2>2. DOMAIN stored' = Paths
    BY <1>2 DEF Write, CountedInv, CountInv
  <2> QED
    BY <1>1, <2>1, <2>2 DEF CountedInv, CountInv, InRange
<1>3. ~Crash
  BY SMT DEF Crash, CountedInv, ReadInv
<1>4. ASSUME Idle, NEW path \in Paths, Command(path) PROVE CountedInv'
  <2>1. todo = << >> /\ ~Grows(todo')
    BY <1>4 DEF Idle, TableGrows
  <2>2. AtRest /\ \A b \in Dirs : Marked(b)
    BY <2>1, RestIs DEF CountedInv, ReadInv, MarksInv, Ends
  <2>3. ~Stray(path)
    BY <2>2, NobodyStrays
  <2>4. PICK ws, what : /\ Start(path, ws, what)
                        /\ Plan(ws) /\ Planning(path, ws, what)
    BY <1>4, <2>1, <2>2, <2>3, CommandIs
  <2>5. sb.rootSize < SizeBound
    BY <2>4 DEF Start
  <2>6. Settles(ws)
    BY <2>1, <2>2, <2>4, <2>5, PlanSettles DEF CountedInv
  <2>7. CountInv'
    BY <2>4, <2>6, StartSettles DEF CountedInv
  <2> QED
    BY <1>1, <2>7 DEF CountedInv
<1> QED
  BY <1>2, <1>3, <1>4 DEF Next

\* A step that changes nothing keeps CountedInv.
LEMMA CountStutters ==
    ASSUME MaxCrashes = 0, Unnamed \notin Names, DirNames \cap FileNames = {},
           \A l \in LinuxFiles : l.len <= 1,
           CountedInv, UNCHANGED vars
    PROVE  CountedInv'
<1>1. UNCHANGED <<sb, fat, disk, todo, stored, crashes>>
  BY DEF vars
<1>2. ReadInv'
  BY ReadStep DEF CountedInv
<1>3. ExactInv'
  <2>1. PICK U : Allots(todo, Taken(fat), U) /\ Counted(todo, sb.numFree, Free(U))
    BY DEF CountedInv, ExactInv
  <2>2. Allots(todo', Taken(fat'), U) /\ Counted(todo', sb'.numFree, Free(U))
    BY <1>1, <2>1
  <2>3. FreeCountSafe' /\ crashes' = 0
    BY <1>1, SameCount DEF CountedInv, ExactInv
  <2> QED
    BY <2>2, <2>3 DEF ExactInv
<1>4. CountInv'
  <2>1. \A s : EntryAt(s)' = EntryAt(s)
    BY <1>1, SameTables
  <2>2. \A R, k : Kind(R, k)' = Kind(R, k)
    BY <2>1 DEF Kind
  <2>3. Plain' /\ InRange(sb)' /\ DOMAIN stored' = Paths
    BY <1>1, <2>1 DEF CountedInv, CountInv, Plain, InRange
  <2>4. PICK q, s : q = ToSet(todo) /\ s = Final(todo, sb)
    OBVIOUS
  <2>5. Agrees(q, s)'
    BY <2>2, <2>4 DEF CountedInv, CountInv, Settles, Agrees
  <2>6. ToSet(todo)' = q /\ Final(todo, sb)' = s
    BY <1>1, <2>4 DEF Final
  <2>7. Agrees(ToSet(todo), Final(todo, sb))'
    BY <2>5, <2>6 DEF Agrees, Kind
  <2>8. Settles(todo)'
    BY <1>1, <2>7 DEF CountedInv, CountInv, Settles, InRange
  <2> QED
    BY <2>3, <2>8 DEF CountInv
<1> QED
  BY <1>2, <1>3, <1>4 DEF CountedInv

\* The entries that the walks of the directories come to are those in use.
LEMMA ListedAll ==
    ASSUME AtRest
    PROVE  AllListed = {s \in Spots : EntryAt(s).active}
<1>1. \A b \in Dirs : Listed(b) = {s \in Spots : s.block = b /\ EntryAt(s).active}
  <2>1. SUFFICES ASSUME NEW b \in Dirs
                 PROVE  Listed(b) = {s \in Spots : s.block = b /\ EntryAt(s).active}
    OBVIOUS
  <2>2. b \in Blocks /\ TableIs(b)
    BY DirsAreBlocks DEF AtRest, Tables
  <2> QED
    BY <2>2, TableFound DEF AtRest
<1>2. RootBlock \in Dirs
  BY DirIs
<1>3. Listed(RootBlock) = {s \in Spots : s.block = RootBlock /\ EntryAt(s).active}
  BY <1>1, <1>2
<1>4. {t \in Listed(RootBlock) : EntryAt(t).kind = "dir"}
         = {t \in Spots : t.block = RootBlock /\ IsDir(t)}
  BY <1>3 DEF IsDir
<1> DEFINE D == {t \in Spots : t.block = RootBlock /\ IsDir(t)}
<1>5. \A t \in D : EntryAt(t).first \in Dirs
  BY DEF Dirs
<1>6. \A s : s \in UNION {Listed(EntryAt(t).first) : t \in D}
               <=> \E t \in D : s \in Listed(EntryAt(t).first)
  OBVIOUS
<1>7. \A s : s \in AllListed <=> \E b \in Dirs : s \in Listed(b)
  <2>1. \A s : s \in AllListed <=> \/ s \in Listed(RootBlock)
                                   \/ \E t \in D : s \in Listed(EntryAt(t).first)
    BY <1>4, <1>6 DEF AllListed
  <2>2. \A b : b \in Dirs <=> b = RootBlock \/ \E t \in D : b = EntryAt(t).first
    BY DEF Dirs
  <2> HIDE DEF D
  <2> QED
    BY <2>1, <2>2
<1>8. \A s \in Spots : EntryAt(s).active => s.block \in Dirs
  BY DEF AtRest, Tables, Housed
<1> QED
  BY <1>1, <1>7, <1>8

\* CountedInv keeps every variable in its type, the counts in their ranges.
LEMMA CountedTypes ==
    ASSUME CountedInv
    PROVE  TypeOK
<1>1. Typed /\ Linked(fat) /\ Tables /\ Plain /\ InRange(sb) /\ FreeCountSafe
      /\ crashes = 0 /\ fault = FALSE /\ DOMAIN stored = Paths
  BY DEF CountedInv, ReadInv, ExactInv, CountInv, OwnerInv, TablesInv
<1>2. sb.numFree \in 0 .. NumBlocks - 1
  <2>1. FreeBlocks(fat) \subseteq Blocks \ {RootBlock}
    BY FreeIsCounted, <1>1 DEF Linked
  <2>2. RootBlock \in Blocks /\ NumBlocks \in Nat \ {0}
    BY <1>1, Sizes DEF Linked, Taken
  <2>3. IsFiniteSet(Blocks \ {RootBlock}) /\ Cardinality(Blocks \ {RootBlock}) = NumBlocks - 1
    BY <2>2, FreeIsCounted, FS_RemoveElement
  <2>4. IsFiniteSet(FreeBlocks(fat)) /\ Cardinality(FreeBlocks(fat)) <= NumBlocks - 1
    BY <2>1, <2>3, FS_Subset
  <2>5. PICK m \in Nat : m = Cardinality(FreeBlocks(fat))
    BY <2>4, FS_CardinalityType
  <2>6. sb.numFree \in Nat /\ sb.numFree <= m /\ m <= NumBlocks - 1
    BY <1>1, <2>4, <2>5 DEF Typed, Superblocks, FreeCountSafe
  <2> QED
    BY SMT, <2>2, <2>5, <2>6
<1>3. sb \in Superblock
  BY <1>1, <1>2 DEF Typed, Superblocks, Superblock, InRange
<1>4. fat \in [Blocks -> Blocks \cup {FAT_ENTRY_EMPTY, FAT_ENTRY_END}] /\ DOMAIN disk = Places
  BY <1>1 DEF Typed, Fats
<1>5. ASSUME NEW p \in Places
      PROVE  /\ disk[p].kind \in {"zeroed", "table", "data"}
             /\ Len(disk[p].entries) <= EntriesPerBlock
  BY <1>1 DEF Typed, Contents
<1>6. ASSUME NEW p \in Places, NEW i \in DOMAIN disk[p].entries, NEW e, e = disk[p].entries[i]
      PROVE  /\ e.name \in Names \cup {Unnamed} /\ e.kind \in {"file", "dir", "none"}
             /\ e.first \in Blocks /\ (e.active <=> e.kind # "none")
  <2>1. /\ Size(p) \in 0 .. EntriesPerBlock /\ disk[p].entries \in Seq(Entries)
        /\ \A k \in 1 .. Size(p) : EntryAt(At(p, k)) = disk[p].entries[k]
    BY <1>1, SlotHolds
  <2>2. DOMAIN disk[p].entries = 1 .. Size(p)
    BY <2>1, LenProperties DEF Size
  <2>3. i \in 1 .. Size(p) /\ i \in 1 .. EntriesPerBlock
    BY SMT, <2>1, <1>6, <2>2, Sizes
  <2>4. At(p, i) \in Spots /\ EntryAt(At(p, i)) = e
    BY <1>6, <2>1, <2>3, SpotIs
  <2>5. e \in Entries
    BY <1>1, <2>4, EntryIs
  <2>6. e.active => e.kind \in {"file", "dir"}
    BY <1>1, <2>4 DEF Tables, Housed
  <2>7. ~e.active => e.kind = "none"
    BY <1>1, <2>4 DEF Plain
  <2>8. e.name \in Names \cup {Unnamed} /\ e.kind \in {"file", "dir", "none"} /\ e.first \in Blocks
    BY <2>5 DEF Entries
  <2>9. e.active \in BOOLEAN
    BY <2>5 DEF Entries
  <2>10. e.active <=> e.kind # "none"
    BY <2>6, <2>7, <2>9
  <2> QED
    BY <2>8, <2>10
<1>7. crashes \in 0 .. MaxCrashes
  BY SMT, <1>1, FatAssumption
<1>8. fault \in BOOLEAN
  BY <1>1
<1> QED
  BY <1>1, <1>3, <1>4, <1>5, <1>6, <1>7, <1>8 DEF TypeOK

\* CountedInv says that the counts are exact when no command runs.
LEMMA CountedIsExact ==
    ASSUME CountedInv, Unnamed \notin Names
    PROVE  CountsExact
<1>1. TypeOK
  BY CountedTypes
<1>2. ASSUME todo = << >>
      PROVE  /\ sb.numFree = Cardinality(FreeBlocks(fat))
             /\ sb.numFiles = Cardinality({s \in AllListed : EntryAt(s).kind = "file"})
             /\ sb.numDirs >= 1 + Cardinality({s \in AllListed : EntryAt(s).kind = "dir"})
  <2>1. AtRest
    BY <1>2, RestIs DEF CountedInv, ReadInv
  <2>2. sb.numFree = Cardinality(FreeBlocks(fat))
    BY <1>2, DoneIsExact, FreeIsCounted DEF CountedInv, ReadInv, Free
  <2>3. Agrees({}, sb)
    BY <1>2, RestAgrees DEF CountedInv
  <2>4. \A k : {s \in AllListed : EntryAt(s).kind = k} = Kind({}, k)
    BY <2>1, ListedAll, NothingBorn
  <2> QED
    BY <2>2, <2>3, <2>4 DEF Agrees
<1> QED
  BY <1>1, <1>2 DEF CountsExact

\* The new image: no entry is in use and none is counted.
LEMMA InitCounts ==
    ASSUME Init
    PROVE  CountInv
<1>1. /\ sb = [numFiles |-> 0, numDirs |-> 1, numFree |-> NumBlocks - 1, rootSize |-> 0]
      /\ todo = << >> /\ DOMAIN stored = Paths
  BY DEF Init
<1>2. ASSUME NEW s \in Spots PROVE EntryAt(s) \in {Indicator, Junk}
  <2>1. disk[s.block] = IF s.block = RootBlock THEN TableOf(<<Indicator>>) ELSE Zeroed
    BY DEF Init, Spots
  <2>2. disk[s.block].entries \in {<< >>, <<Indicator>>}
    BY <2>1 DEF TableOf, Zeroed
  <2>3. CASE disk[s.block].entries = << >>
    BY <2>3 DEF EntryAt
  <2>4. CASE disk[s.block].entries = <<Indicator>>
    BY <2>4 DEF EntryAt
  <2> QED
    BY <2>2, <2>3, <2>4
<1>3. Plain /\ \A s \in Spots : ~EntryAt(s).active
  BY <1>2, JunkIs DEF Plain, Indicator, Junk
<1>4. ToSet(todo) = {} /\ Final(todo, sb) = sb
  BY <1>1, ShortSets DEF Final
<1>5. \A k : Kind({}, k) = {}
  BY <1>3, NothingBorn
<1>6. Cardinality({}) = 0
  BY FS_EmptySet
<1>7. Agrees({}, sb)
  <2>1. sb.numFiles = 0 /\ sb.numDirs = 1
    BY <1>1
  <2>2. 1 >= 1 + 0
    BY SMT
  <2> QED
    BY <1>5, <1>6, <2>1, <2>2 DEF Agrees
<1>8. InRange(sb)
  <2>1. sb.numFiles = 0 /\ sb.numDirs = 1 /\ sb.rootSize = 0
    BY <1>1
  <2>2. 0 \in 0 .. NumBlocks - 1 /\ 1 \in 1 .. SizeBound + 1 /\ 0 \in 0 .. SizeBound + NumBlocks
    BY SMT, FatAssumption, Sizes
  <2> QED
    BY <2>1, <2>2 DEF InRange
<1> QED
  BY <1>1, <1>3, <1>4, <1>7, <1>8 DEF CountInv, Settles

\* The free blocks of the new image are counted.
LEMMA InitExact ==
    ASSUME Init
    PROVE  ExactInv
<1>1. FreeCountSafe /\ sb.numFree = Free(Taken(fat)) /\ todo = << >> /\ crashes = 0
  BY InitCount DEF Init
<1>2. << >> \in Seq(Writes) /\ DOMAIN << >> = {} /\ Free(Taken(fat)) \in Nat
  BY Short, FreeIsCounted
<1>3. Allots(<< >>, Taken(fat), Taken(fat))
  BY <1>2, TakesNothing
<1>4. Counted(<< >>, Free(Taken(fat)), Free(Taken(fat)))
  BY <1>2, NothingCounted
<1> QED
  BY <1>1, <1>3, <1>4 DEF ExactInv

\* When no command runs the superblock counts the free blocks and the files
\* exactly and the directories at least, and no count ever leaves its range:
\* images that fill up, commands that find no room, and files written again
\* included.  This holds while nobody is killed and no full table is
\* lengthened, if mkdir and write are given different names and no file is
\* longer than a block.
THEOREM SuperblockCounts ==
    ASSUME MaxCrashes = 0, Unnamed \notin Names, DirNames \cap FileNames = {},
           \A l \in LinuxFiles : l.len <= 1
    PROVE  Spec /\ [][~TableGrows]_vars => []CountsExact
<1>1. Init => CountedInv
  <2>1. ASSUME Init PROVE CountedInv
    <3>1. OwnerInv /\ TablesInv /\ (\A b \in Dirs : Marked(b)) /\ CountInv
      BY <2>1, InitOwners, InitTables, InitCounts
    <3>2. ReadInv
      BY <2>1, <3>1 DEF Init, ReadInv, MarksInv, Ends
    <3>3. ExactInv
      BY <2>1, InitExact
    <3> QED
      BY <3>1, <3>2, <3>3 DEF CountedInv
  <2> QED
    BY <2>1
<1>2. CountedInv /\ [Next]_vars /\ [~TableGrows]_vars => CountedInv'
  BY CountStep, CountStutters
<1>3. CountedInv => CountsExact
  BY CountedIsExact
<1> QED
  BY <1>1, <1>2, <1>3, PTL DEF Spec

-----------------------------------------------------------------------------
(* Which commands lengthen a table *)

\* No FAT in R links two blocks.
FlatFats(R) == \A w \in R : w.to = "fat" => Flat(w.fat)

\* Such a series lengthens no table.
LEMMA FlatFatsDoNotGrow ==
    ASSUME NEW ws, FlatFats(ToSet(ws))
    PROVE  ~Grows(ws)
BY DEF FlatFats, Grows, ToSet, Range

\* add_dir_entry links no blocks unless the table is full and could grow.
LEMMA AddStaysFlat ==
    ASSUME AtRest, NEW b \in Dirs, Marked(b), b \in Taken(fat), ~Outgrown(b), NEW e \in NewOnes,
           NEW r, r = add_dir_entry(b, e, sb, fat)
    PROVE  /\ FlatFats(ToSet(r.writes)) /\ Flat(r.fat)
           /\ r.writes \in Seq(Writes) /\ r.sb \in Superblocks /\ r.fat \in Fats
           /\ (r.res = "done" => r.first \in Blocks)
<1>1. /\ r.writes \in Seq(Writes) /\ r.sb \in Superblocks /\ r.fat \in Fats
      /\ Linked(r.fat)
      /\ (r.res = "done" => r.first \in Blocks)
  BY AddDirEntryIs DEF Planned, AtRest
<1>2. RefusedHere(r) \/ AddedHere(r, b, e)
  BY AddIsPlaced
<1>3. CASE RefusedHere(r)
  BY <1>1, ShortSets, <1>3 DEF AtRest, FlatFats, RefusedHere
<1>4. CASE AddedHere(r, b, e)
  <2>0. /\ r.res = "done"
        /\ r.fat = [fat EXCEPT ![r.first] = FAT_ENTRY_END]
    BY <1>4, Zenon DEF AddedHere
  <2>1. r.first \in Blocks
    BY <1>1, <2>0
  <2>2. Flat(r.fat)
    <3>1. FAT_ENTRY_END \notin Blocks
      BY SMT, Sizes DEF FAT_ENTRY_END, Blocks
    <3>2. fat \in Fats /\ Flat(fat)
      BY DEF AtRest, Typed
    <3> QED
      BY <2>0, <3>1, <3>2 DEF Flat, Fats
  <2> DEFINE e2 == [e EXCEPT !.first = r.first, !.last = TRUE]
             v == Allocation(r.first, e, r.sb, r.fat)
  <2>3. PICK end, place : Placed(b, end, place) /\ r.writes = v \o Insertion(end, place, e2)
    BY <1>4 DEF AddedHere
  <2>4. NewLast(e2)
    BY <2>1 DEF NewOnes, Entries, NewLast
  <2>5. e \in Entries
    BY DEF NewOnes
  <2> HIDE DEF e2
  <2>6. /\ v \in Seq(Writes)
        /\ ToSet(v) = {PutSuperblock(r.sb), PutFat(r.fat)}
                        \cup (IF e.kind = "dir" THEN {NewTable(r.first)} ELSE {})
    BY <1>1, <2>1, <2>5, AllocationSet
  <2>7. /\ Insertion(end, place, e2) \in Seq(Writes)
        /\ ToSet(Insertion(end, place, e2)) = EntryWrites(end, place, e2)
    BY <2>3, <2>4, InsertionSet
  <2> HIDE DEF v
  <2>8. ToSet(r.writes) = ToSet(v) \cup EntryWrites(end, place, e2)
    BY <2>3, <2>6, <2>7, OrderedThen
  <2>9. \A w \in EntryWrites(end, place, e2) : w.to # "fat"
    BY DEF EntryWrites, Demotes, Enters, PutEntry, PutName
  <2>10. \A w \in ToSet(v) : w.to = "fat" => w.fat = r.fat
    BY <2>6 DEF PutSuperblock, PutFat, NewTable, PutBlock
  <2>11. \A w \in ToSet(r.writes) : w.to = "fat" => w.fat = r.fat
    BY <2>8, <2>9, <2>10
  <2>12. FlatFats(ToSet(r.writes))
    BY <2>2, <2>11 DEF FlatFats
  <2> QED
    BY <1>1, <2>2, <2>12
<1> QED
  BY <1>2, <1>3, <1>4

\* Nor do the sizes and the FAT that follow.
LEMMA SizesStayFlat ==
    ASSUME AtRest, NEW path \in Paths, ParentFound(path), NEW t \in Superblocks, NEW n \in Nat,
           NEW z, z = AddSizes(path, n, t)
    PROVE  z \in Seq(Writes) /\ FlatFats(ToSet(z))
<1>1. z \in Seq(Writes)
      /\ \A w \in ToSet(z) : w = PutSuperblock(Grown(t, n)) \/ SizeOnly(w)
  BY SizesSet
<1> QED
  BY <1>1 DEF FlatFats, PutSuperblock, SizeOnly

\* The superblock and the FAT that follow link no more than the FAT did.
LEMMA RestStaysFlat ==
    ASSUME AtRest, NEW path \in Paths, ParentFound(path), NEW t \in Superblocks,
           NEW f \in Fats, Flat(f), NEW n \in Nat,
           NEW q, q = WriteSuperblockAndFat(t, f), NEW z, z = AddSizes(path, n, t)
    PROVE  /\ q \in Seq(Writes) /\ FlatFats(ToSet(q))
           /\ z \in Seq(Writes) /\ FlatFats(ToSet(z))
<1>1. PutSuperblock(t) \in Writes
  BY PutIs
<1>2. z \in Seq(Writes) /\ FlatFats(ToSet(z))
  BY SizesStayFlat
<1>4. PutFat(f) \in Writes
  BY PutIs
<1>5. q \in Seq(Writes) /\ ToSet(q) = {PutSuperblock(t), PutFat(f)}
  BY <1>1, <1>4, Short, ShortSets DEF WriteSuperblockAndFat
<1>6. FlatFats(ToSet(q))
  BY <1>5 DEF FlatFats, PutSuperblock, PutFat
<1> QED
  BY <1>2, <1>5, <1>6

\* One series after another.
LEMMA FlatThen ==
    ASSUME NEW v \in Seq(Writes), NEW w \in Seq(Writes), FlatFats(ToSet(v)), FlatFats(ToSet(w))
    PROVE  v \o w \in Seq(Writes) /\ FlatFats(ToSet(v \o w))
BY OrderedThen DEF FlatFats

\* A copied file links no blocks: copy_file_from_linux never asks the FAT.
LEMMA CopyStaysFlat ==
    ASSUME NEW first \in Blocks, NEW l \in LinuxFiles, l.len <= 1,
           NEW c, c = copy_file_from_linux(first, l)
    PROVE  c \in Seq(Writes) /\ FlatFats(ToSet(c))
<1>1. c \in Seq(Writes) /\ ToSet(c) = IF l.len = 1 THEN {Piece(first, l)} ELSE {}
  BY CopySet
<1> QED
  BY <1>1 DEF FlatFats, Piece, PutBlock

\* No directory is full while a block is free.
RoomInTables == \A b \in Dirs : ~Outgrown(b)

\* An entry is no FAT.
LEMMA EntryStaysFlat ==
    ASSUME NEW s, NEW e
    PROVE  FlatFats(ToSet(<<PutEntry(s, e)>>))
<1>1. ToSet(<<PutEntry(s, e)>>) = {PutEntry(s, e)}
  BY DEF ToSet, Range
<1>2. PutEntry(s, e).to = "entry"
  BY DEF PutEntry
<1> QED
  BY <1>1, <1>2 DEF FlatFats

\* mkdir links no blocks while there is room in the tables.
LEMMA MkdirStaysFlat ==
    ASSUME AtRest, RoomInTables, NEW path \in Paths, mkdir(path)
    PROVE  ~Grows(todo')
<1> DEFINE b == ParentBlock(path)
           e == NewEntry(Last(path), "dir", 0, {"r", "w"})
<1>1. PICK r : /\ r = add_dir_entry(b, e, sb, fat)
               /\ MakeDir(path, r, OneMoreDir(r.sb))
  BY DEF mkdir, OneMoreDir
<1>2. ParentFound(path) /\ Marked(b)
  BY MissingIs DEF mkdir
<1>3. b \in Dirs /\ b \in Taken(fat) /\ ~Outgrown(b)
  BY <1>2, ParentIsDir DEF RoomInTables
<1>4. e \in NewOnes
  BY PathIs, NewEntryIs DEF NewEntry, Indicator
<1> HIDE DEF b, e
<1> DEFINE t == OneMoreDir(r.sb)
           q == WriteSuperblockAndFat(t, r.fat)
           z == AddSizes(path, 0, t)
<1>5. PICK ws : ws = todo'
  OBVIOUS
<1>6. ws = IF r.res = "error" THEN r.writes ELSE r.writes \o q \o z
  BY <1>1, <1>5 DEF MakeDir, Start
<1>7. /\ FlatFats(ToSet(r.writes)) /\ Flat(r.fat)
      /\ r.writes \in Seq(Writes) /\ r.sb \in Superblocks /\ r.fat \in Fats
  BY <1>1, <1>2, <1>3, <1>4, AddStaysFlat
<1>8. t \in Superblocks
  BY <1>7, CountedIs DEF OneMoreDir
<1>9. /\ q \in Seq(Writes) /\ FlatFats(ToSet(q))
      /\ z \in Seq(Writes) /\ FlatFats(ToSet(z))
  BY <1>2, <1>7, <1>8, RestStaysFlat
<1> HIDE DEF t, q, z
<1>10. r.writes \o q \in Seq(Writes) /\ FlatFats(ToSet(r.writes \o q))
  BY <1>7, <1>9, FlatThen
<1>11. FlatFats(ToSet(r.writes \o q \o z))
  BY <1>9, <1>10, FlatThen
<1>12. FlatFats(ToSet(ws))
  BY <1>6, <1>7, <1>11
<1> QED
  BY <1>5, <1>12, FlatFatsDoNotGrow

\* Nor does write, of a new file.
LEMMA WriteNewStaysFlat ==
    ASSUME AtRest, RoomInTables, NEW path \in Paths, NEW l \in LinuxFiles, l.len <= 1,
           WriteNew(path, l)
    PROVE  ~Grows(todo')
<1> DEFINE b == ParentBlock(path)
           e == NewEntry(Last(path), "file", l.len, l.mode)
<1>1. PICK r : /\ r = add_dir_entry(b, e, sb, fat)
               /\ MakeFile(path, r, OneMoreFile(r.sb), l)
  BY DEF WriteNew, OneMoreFile
<1>2. ParentFound(path) /\ Marked(b)
  BY MissingIs DEF WriteNew
<1>3. b \in Dirs /\ b \in Taken(fat) /\ ~Outgrown(b)
  BY <1>2, ParentIsDir DEF RoomInTables
<1>4. e \in NewOnes
  BY PathIs, LinuxFileIs, NewEntryIs DEF NewEntry, Indicator
<1> HIDE DEF b, e
<1> DEFINE t == OneMoreFile(r.sb)
           q == WriteSuperblockAndFat(t, r.fat)
           c == copy_file_from_linux(r.first, l)
           z == AddSizes(path, l.len, t)
<1>5. PICK ws : ws = todo'
  OBVIOUS
<1>6. ws = IF r.res # "done" THEN r.writes ELSE r.writes \o q \o c \o z
  BY <1>1, <1>5 DEF MakeFile, Start
<1>7. /\ FlatFats(ToSet(r.writes)) /\ Flat(r.fat)
      /\ r.writes \in Seq(Writes) /\ r.sb \in Superblocks /\ r.fat \in Fats
      /\ (r.res = "done" => r.first \in Blocks)
  BY <1>1, <1>2, <1>3, <1>4, AddStaysFlat
<1>8. t \in Superblocks
  BY <1>7, CountedIs DEF OneMoreFile
<1>9. /\ q \in Seq(Writes) /\ FlatFats(ToSet(q))
      /\ z \in Seq(Writes) /\ FlatFats(ToSet(z))
  BY <1>2, <1>7, <1>8, RestStaysFlat, LinuxFileIs
<1>10. r.res = "done" => c \in Seq(Writes) /\ FlatFats(ToSet(c))
  BY <1>7, CopyStaysFlat
<1> HIDE DEF t, q, c, z
<1>11. ASSUME r.res = "done" PROVE FlatFats(ToSet(r.writes \o q \o c \o z))
  <2>1. r.writes \o q \in Seq(Writes) /\ FlatFats(ToSet(r.writes \o q))
    BY <1>7, <1>9, FlatThen
  <2>2. r.writes \o q \o c \in Seq(Writes) /\ FlatFats(ToSet(r.writes \o q \o c))
    BY <1>10, <1>11, <2>1, FlatThen
  <2> QED
    BY <1>9, <2>2, FlatThen
<1>12. FlatFats(ToSet(ws))
  BY <1>6, <1>7, <1>11
<1> QED
  BY <1>5, <1>12, FlatFatsDoNotGrow

\* The other commands write no FAT.
LEMMA WriteOverStaysFlat ==
    ASSUME AtRest, NEW path \in Paths, NEW l \in LinuxFiles, l.len <= 1, NEW pw \in Given,
           DirNames \cap FileNames = {}, Last(path) \in FileNames, WriteOver(path, l, pw)
    PROVE  ~Grows(todo')
<1> DEFINE s == PathSlot(path)
           e == Overwritten(EntryAt(s), l)
           c == copy_file_from_linux(EntryAt(s).first, l)
           z == AddSizes(path, l.len, sb)
<1>1. PICK ws : ws = todo'
  OBVIOUS
<1>2. /\ PathFound(path) /\ ws = <<PutEntry(s, e)>> \o c \o z
  BY <1>1 DEF WriteOver, Start
<1>3. s \in Spots /\ ParentFound(path)
  BY <1>2, FoundHere
<1>4. EntryAt(s) \in Entries /\ EntryAt(s).first \in Blocks
  BY <1>3, EntryIs DEF AtRest, Entries
<1>5. e \in Entries
  <2>1. NewEntry(EntryAt(s).name, "file", l.len, l.mode) \in Entries
    BY <1>4, LinuxFileIs, NewEntryIs DEF Entries
  <2> QED
    BY <1>4, <2>1 DEF Overwritten, Entries
<1> DEFINE p == PutEntry(s, e)
<1>6. <<p>> \in Seq(Writes)
  BY Short, <1>3, <1>5, PutIs
<1>7. FlatFats(ToSet(<<p>>))
  BY EntryStaysFlat
<1>8. c \in Seq(Writes) /\ FlatFats(ToSet(c))
  BY <1>4, CopyStaysFlat
<1>9. z \in Seq(Writes) /\ FlatFats(ToSet(z))
  BY <1>3, SizesStayFlat, LinuxFileIs DEF AtRest, Typed
<1> HIDE DEF c, z, p
<1>10. <<p>> \o c \in Seq(Writes) /\ FlatFats(ToSet(<<p>> \o c))
  BY <1>6, <1>7, <1>8, FlatThen
<1>11. FlatFats(ToSet(<<p>> \o c \o z))
  BY <1>9, <1>10, FlatThen
<1>12. FlatFats(ToSet(ws))
  BY <1>2, <1>11 DEF p
<1> QED
  BY <1>1, <1>12, FlatFatsDoNotGrow

\* Nor does the one that finds no linux file.
LEMMA WriteNothingStaysFlat ==
    ASSUME AtRest, NEW path \in Paths, NEW pw \in Given, WriteNothing(path, pw)
    PROVE  ~Grows(todo')
<1>1. PICK ws : ws = todo'
  OBVIOUS
<1>2. ws = AddSizes(path, 1, sb) /\ ParentFound(path)
  BY <1>1 DEF WriteNothing, Start, PathMissing, PathFound
<1>3. 1 \in Nat /\ sb \in Superblocks
  BY DEF AtRest, Typed
<1>4. FlatFats(ToSet(ws))
  BY <1>2, <1>3, SizesStayFlat
<1> QED
  BY <1>1, <1>4, FlatFatsDoNotGrow

\* No command lengthens a table while there is room in the tables.
LEMMA CommandStaysFlat ==
    ASSUME AtRest, RoomInTables, DirNames \cap FileNames = {},
           \A l \in LinuxFiles : l.len <= 1,
           NEW path \in Paths, Command(path), todo = << >>
    PROVE  ~Grows(todo')
<1>1. CASE mkdir(path)
  BY <1>1, MkdirStaysFlat
<1>2. ASSUME NEW l \in LinuxFiles, WriteNew(path, l) PROVE ~Grows(todo')
  BY <1>2, WriteNewStaysFlat
<1>3. ASSUME Last(path) \in FileNames, NEW l \in LinuxFiles, NEW pw \in Given,
             WriteOver(path, l, pw)
      PROVE  ~Grows(todo')
  BY <1>3, WriteOverStaysFlat
<1>4. ASSUME NEW pw \in Given, WriteNothing(path, pw) PROVE ~Grows(todo')
  BY <1>4, WriteNothingStaysFlat
<1>5. ASSUME NEW s, NEW e, todo' = <<PutEntry(s, e)>> PROVE ~Grows(todo')
  <2>1. PICK ws : ws = todo'
    OBVIOUS
  <2>2. FlatFats(ToSet(ws))
    BY <1>5, <2>1, EntryStaysFlat
  <2> QED
    BY <2>1, <2>2, FlatFatsDoNotGrow
<1>6. ASSUME NEW plus, NEW letters, NEW pw, chmod(path, plus, letters, pw)
      PROVE  ~Grows(todo')
  BY <1>5, <1>6 DEF chmod, Start
<1>7. ASSUME NEW new, NEW pw, addpw(path, new, pw) PROVE ~Grows(todo')
  BY <1>5, <1>7 DEF addpw, Start
<1>8. CASE Stray(path)
  BY <1>8 DEF Stray, Grows
<1> QED
  BY <1>1, <1>2, <1>3, <1>4, <1>6, <1>7, <1>8 DEF Command

\* A table is lengthened only when it is full and a block is free.
LEMMA RoomHolds ==
    ASSUME FinishedInv, DirNames \cap FileNames = {}, Unnamed \notin Names,
           \A l \in LinuxFiles : l.len <= 1, Next, todo = << >> => RoomInTables
    PROVE  ~TableGrows
<1>1. CASE todo # << >>
  BY <1>1 DEF TableGrows
<1>2. CASE todo = << >>
  <2>1. AtRest
    BY <1>2, RestIs DEF FinishedInv
  <2>2. PICK path \in Paths : Command(path)
    BY <1>2 DEF Next, Write, Crash
  <2> QED
    BY <1>2, <2>1, <2>2, CommandStaysFlat DEF TableGrows
<1> QED
  BY <1>1, <1>2

\* An image of so few blocks that one table has an entry for each of them:
\* no table fills up while a block is free.
LEMMA SmallTablesHaveRoom ==
    ASSUME AtRest, NumBlocks <= EntriesPerBlock + 1
    PROVE  RoomInTables
<1>1. SUFFICES ASSUME NEW b \in Dirs, Outgrown(b) PROVE FALSE
  BY DEF RoomInTables
<1>2. PICK n : n = EntriesPerBlock
  OBVIOUS
<1>3. n \in Nat /\ n > 0 /\ NumBlocks <= n + 1 /\ Size(b) = n
  BY SMT, <1>1, <1>2, Sizes DEF Outgrown
<1>4. b \in Blocks /\ b \in Places /\ TableIs(b)
  BY <1>1, DirsAreBlocks DEF AtRest, Tables
<1>5. \A k \in 1 .. n : At(b, k) \in Spots /\ EntryAt(At(b, k)).active
  <2>1. SUFFICES ASSUME NEW k \in 1 .. n
                 PROVE  At(b, k) \in Spots /\ EntryAt(At(b, k)).active
    OBVIOUS
  <2>2. At(b, k) \in Spots
    BY <1>2, <1>4, SpotIs
  <2>3. CASE k = n
    BY <1>1, <1>3, <2>2, <2>3 DEF Outgrown
  <2>4. CASE k < n
    BY <1>3, <1>4, <2>2, <2>4 DEF TableIs
  <2> QED
    BY SMT, <1>3, <2>3, <2>4
<1> DEFINE f == [k \in 1 .. n |-> EntryAt(At(b, k)).first]
<1>6. PICK x : x \in FreeBlocks(fat)
  BY <1>1 DEF Outgrown
<1> DEFINE T == (Blocks \ {x}) \ {RootBlock}
<1>7. /\ IsFiniteSet(T) /\ Cardinality(T) = NumBlocks - 2
  <2>1. IsFiniteSet(Blocks) /\ Cardinality(Blocks) = NumBlocks /\ NumBlocks \in Nat
    BY FreeIsCounted, Sizes
  <2>2. x \in Blocks /\ RootBlock \in Blocks /\ x # RootBlock /\ x \notin Taken(fat)
    BY <1>6 DEF AtRest, Linked, Taken, FreeBlocks
  <2>3. IsFiniteSet(Blocks \ {x}) /\ Cardinality(Blocks \ {x}) = NumBlocks - 1
    BY <2>1, <2>2, FS_RemoveElement
  <2>4. IsFiniteSet(T) /\ Cardinality(T) = NumBlocks - 1 - 1
    BY <2>2, <2>3, FS_RemoveElement
  <2> HIDE DEF T
  <2> QED
    BY SMT, <2>1, <2>4
<1>8. f \in Injection(1 .. n, T)
  <2>1. \A k \in 1 .. n : EntryAt(At(b, k)).first \in T
    BY <1>5, <1>6, EntryFirst DEF Taken, FreeBlocks
  <2>2. f \in [1 .. n -> T]
    BY <2>1
  <2>3. ASSUME NEW k \in 1 .. n, NEW m \in 1 .. n, f[k] = f[m] PROVE k = m
    BY SpotIs, <1>5, <2>3 DEF AtRest, Owned
  <2> QED
    BY <2>2, <2>3 DEF Injection, IsInjective
<1>9. IsFiniteSet(1 .. n) /\ Cardinality(1 .. n) = n
  <2>1. 1 \in Int /\ n \in Int
    BY <1>3
  <2>2. Cardinality(1 .. n) = IF 1 > n THEN 0 ELSE n - 1 + 1
    BY <2>1, FS_Interval
  <2>3. IsFiniteSet(1 .. n)
    BY <2>1, FS_Interval
  <2> QED
    BY SMT, <1>3, <2>2, <2>3
<1>10. n <= Cardinality(T)
  BY <1>7, <1>8, <1>9, FS_Injection
<1> HIDE DEF T
<1> QED
  BY SMT, <1>3, <1>7, <1>10, Sizes

-----------------------------------------------------------------------------
(* The theorems of the small images *)

\* A command that lengthens a table finds a directory full and a block free:
\* while every directory has room, or there is nothing to make room with,
\* no run of the commands, killed anywhere, links two blocks.
THEOREM TablesGrowWhenFull ==
    ASSUME IdsDiffer, Unnamed \notin Names, DirNames \cap FileNames = {},
           \A l \in LinuxFiles : l.len <= 1
    PROVE  Spec /\ [](todo = << >> => RoomInTables) => [][~TableGrows]_vars
<1>1. Init => FinishedInv
  BY InitFinished
<1>2. FinishedInv /\ (todo = << >> => RoomInTables) /\ [Next]_vars
        => FinishedInv' /\ [~TableGrows]_vars
  BY FinishedStep, RoomHolds DEF vars
<1> QED
  BY <1>1, <1>2, PTL DEF Spec

\* On an image whose blocks, but for the root's, do not outnumber the entries of
\* one table no table is ever lengthened, so what a finished command left is
\* there whatever is killed: nothing is supposed of the behaviour.
THEOREM SmallImagesKeepWork ==
    ASSUME NumBlocks <= EntriesPerBlock + 1,
           IdsDiffer, Unnamed \notin Names, DirNames \cap FileNames = {},
           \A l \in LinuxFiles : l.len <= 1
    PROVE  Spec => [][~TableGrows]_vars /\ []FinishedWorkSurvives
<1>1. Init => FinishedInv
  BY InitFinished
<1>2. FinishedInv => (todo = << >> => RoomInTables)
  BY RestIs, SmallTablesHaveRoom DEF FinishedInv
<1>3. FinishedInv /\ [Next]_vars => FinishedInv' /\ [~TableGrows]_vars
  <2>1. ASSUME FinishedInv, [Next]_vars PROVE ~TableGrows \/ UNCHANGED vars
    BY <2>1, <1>2, RoomHolds
  <2> QED
    BY <2>1, FinishedStep DEF vars
<1>4. FinishedInv => FinishedWorkSurvives
  BY FinishedIsThere
<1> QED
  BY <1>1, <1>3, <1>4, PTL DEF Spec

\* On such an image, while nobody is killed, the counts are exact and no
\* command strays out of the directories: nothing is left to suppose of the
\* behaviour.
THEOREM SmallImagesCount ==
    ASSUME NumBlocks <= EntriesPerBlock + 1, MaxCrashes = 0,
           IdsDiffer, Unnamed \notin Names, DirNames \cap FileNames = {},
           \A l \in LinuxFiles : l.len <= 1
    PROVE  Spec => []CountsExact /\ []DirectoriesReadable
<1>1. Spec => [][~TableGrows]_vars
  BY PTL, SmallImagesKeepWork
<1>2. Spec /\ [][~TableGrows]_vars => []CountsExact
  BY SuperblockCounts
<1>3. Spec /\ [][~TableGrows]_vars => []DirectoriesReadable
  BY WalksStayInside
<1> QED
  BY <1>1, <1>2, <1>3, PTL

=============================================================================
