---------------------------- MODULE FatFileSystem ----------------------------
(***************************************************************************)
(* The FAT file system of HW2: an image made by makeFileSystem.c and       *)
(* changed by the commands of fileSystemOper.c.  A command is a process of *)
(* its own: it loads the superblock and the FAT, walks the directories,    *)
(* and makes its changes by a series of write calls.  Here a command plans *)
(* that series from what it reads, the writes are then done one at a time, *)
(* and a crash may come between any two of them.                           *)
(*                                                                         *)
(* A block holds EntriesPerBlock directory entries with their names (so it *)
(* does when all names have one length that makes entry and name divide    *)
(* the block) or one piece of a file; sizes are counted in blocks.  A path *)
(* has one name or two.                                                    *)
(***************************************************************************)
EXTENDS Integers, FiniteSets, SequencesExt

CONSTANTS
    NumBlocks,        \* the blocks from the root directory's table on
    EntriesPerBlock,
    DirNames,         \* names users give to mkdir
    FileNames,        \* names users give to write
    LinuxFiles,       \* what write copies in: [id, len, mode]
    Passwords,
    ChmodPaths,       \* bound: the paths users call chmod and addpw for
    MaxCrashes,       \* bound: how often a command is killed
    SizeBound         \* bound: sizes and counts in the superblock

uint16 == 65536

\* A block has a number of 16 bits.
ASSUME FatAssumption ==
    /\ NumBlocks \in 1 .. uint16 - 1
    /\ EntriesPerBlock \in Nat \ {0}
    /\ \A l \in LinuxFiles : l.len \in 0 .. NumBlocks /\ l.mode \subseteq {"r", "w"}
    /\ MaxCrashes \in Nat
    /\ SizeBound \in Nat

Blocks == 0 .. NumBlocks - 1
RootBlock == 0
\* The two marks are larger than any block number, as 0x1110 and 0x1111 are.
FAT_ENTRY_EMPTY == 2 * NumBlocks
FAT_ENTRY_END == 2 * NumBlocks + 1
\* Where a write can land: a file may run past the end of the image, and a
\* seek to the block FAT_ENTRY_END does.
Places == 0 .. 2 * NumBlocks - 1 \cup {FAT_ENTRY_END}

Names == DirNames \cup FileNames
Paths == {<<n>> : n \in Names} \cup {<<m, n>> : m \in DirNames, n \in Names}
Unnamed == ""     \* the name bytes of an entry are still zero
NoPassword == ""
NoPiece == [id |-> "", no |-> 0]

VARIABLES
    sb,        \* the superblock in the image
    fat,       \* the FAT in the image
    disk,      \* the other blocks: a directory's table or a file's piece
    todo,      \* the writes the running command has still to do
    making,    \* history: the path the command works on and what it makes
    stored,    \* history: per path, what the last finished command left there
    crashes,   \* history: how many commands have been killed
    fault      \* a command has read bytes that no command wrote

vars == <<sb, fat, disk, todo, making, stored, crashes, fault>>

Absent == "absent"
Unknown == "unknown"
Directory == "directory"

-----------------------------------------------------------------------------
(* Directory entries and blocks *)

\* create_last_dir_indicator_entry: passive and last, the end of a new table.
Indicator == [name |-> Unnamed, kind |-> "none", first |-> 0, size |-> 0,
              active |-> FALSE, last |-> TRUE, mode |-> {}, locked |-> FALSE,
              pw |-> NoPassword]

\* What a walk reads where no entry was ever written.
Junk == [Indicator EXCEPT !.last = FALSE]

Zeroed == [kind |-> "zeroed", entries |-> << >>, piece |-> NoPiece]
TableOf(es) == [kind |-> "table", entries |-> es, piece |-> NoPiece]
DataOf(p) == [kind |-> "data", entries |-> << >>, piece |-> p]

NewEntry(name, kind, size, mode) ==
    [Indicator EXCEPT !.name = name, !.kind = kind, !.size = size,
                      !.active = TRUE, !.last = FALSE, !.mode = mode]

Init ==
    /\ sb = [numFiles |-> 0, numDirs |-> 1, numFree |-> NumBlocks - 1,
             rootSize |-> 0]
    /\ fat = [b \in Blocks |->
                IF b = RootBlock THEN FAT_ENTRY_END ELSE FAT_ENTRY_EMPTY]
    /\ disk = [p \in Places |->
                 IF p = RootBlock THEN TableOf(<<Indicator>>) ELSE Zeroed]
    /\ todo = << >>
    /\ making = [path |-> << >>, what |-> Absent]
    /\ stored = [p \in Paths |-> Absent]
    /\ crashes = 0
    /\ fault = FALSE

-----------------------------------------------------------------------------
(* Walking a directory *)

\* The blocks along the FAT, from b on.
Chain(b) ==
    LET block[c \in 0 .. NumBlocks] ==
            IF c = 0 THEN b
            ELSE LET before == block[c - 1]
                 IN  IF before \in Blocks THEN fat[before] ELSE FAT_ENTRY_END
    IN  block

\* The slots of the table of directory b, block after block.
Slots(b) ==
    LET block == Chain(b)
        length == Cardinality({c \in 0 .. NumBlocks - 1 : block[c] \in Blocks})
    IN  [k \in 1 .. length * EntriesPerBlock |->
            [block |-> block[(k - 1) \div EntriesPerBlock],
             index |-> 1 + ((k - 1) % EntriesPerBlock)]]

EntryAt(slot) ==
    IF slot.index \in DOMAIN disk[slot.block].entries
    THEN disk[slot.block].entries[slot.index]
    ELSE Junk

\* The slots a walk comes to: it ends at the last entry, and what it does
\* after bytes that are no entry is undefined.
Walk(b) ==
    LET slots == Slots(b)
        ends == {k \in DOMAIN slots : EntryAt(slots[k]) = Junk
                                       \/ EntryAt(slots[k]).last}
    IN  IF ends = {} THEN slots ELSE SubSeq(slots, 1, Min(ends))

ReadsJunk(b) == EntryAt(Last(Walk(b))) = Junk

\* search_name_in_dir stops at the first match.
Matches(b, name) ==
    LET walk == Walk(b)
    IN  {k \in DOMAIN walk : EntryAt(walk[k]).active /\ EntryAt(walk[k]).name = name}
Found(b, name) == Matches(b, name) # {}
Missing(b, name) == ~Found(b, name) /\ ~ReadsJunk(b)
SlotOf(b, name) == Walk(b)[Min(Matches(b, name))]

\* The directories a path goes through, if they exist: the table that its
\* last name is looked up in.
ParentFound(path) ==
    Len(path) = 2 => /\ Found(RootBlock, path[1])
                     /\ EntryAt(SlotOf(RootBlock, path[1])).kind = "dir"
ParentBlock(path) ==
    IF Len(path) = 1 THEN RootBlock
    ELSE EntryAt(SlotOf(RootBlock, path[1])).first

PathFound(path) ==
    ParentFound(path) /\ Found(ParentBlock(path), Last(path))
PathMissing(path) ==
    ParentFound(path) /\ Missing(ParentBlock(path), Last(path))
PathSlot(path) == SlotOf(ParentBlock(path), Last(path))

-----------------------------------------------------------------------------
(* Writes to the image *)

PutSuperblock(s) == [to |-> "sb", sb |-> s]
PutFat(f) == [to |-> "fat", fat |-> f]
PutEntry(slot, e) == [to |-> "entry", slot |-> slot, entry |-> e]
PutName(slot, n) == [to |-> "name", slot |-> slot, name |-> n]
PutBlock(place, c) == [to |-> "block", place |-> place, content |-> c]

\* Mutant of WriteSuperblockAndFat: the other way round.
WriteFatAndSuperblock(s, f) == <<PutFat(f), PutSuperblock(s)>>

WriteSuperblockAndFat(s, f) == <<PutSuperblock(s), PutFat(f)>>

Changed(b, i, e) ==
    TableOf(IF i \in DOMAIN disk[b].entries
            THEN [disk[b].entries EXCEPT ![i] = e]
            ELSE Append(disk[b].entries, e))

Done(w) ==
    /\ sb' = IF w.to = "sb" THEN w.sb ELSE sb
    /\ fat' = IF w.to = "fat" THEN w.fat ELSE fat
    /\ disk' = CASE w.to = "block" -> [disk EXCEPT ![w.place] = w.content]
                 [] w.to = "entry" ->
                      [disk EXCEPT ![w.slot.block] =
                          Changed(w.slot.block, w.slot.index, w.entry)]
                 [] w.to = "name" ->
                      [disk EXCEPT ![w.slot.block] =
                          Changed(w.slot.block, w.slot.index,
                                  [EntryAt(w.slot) EXCEPT !.name = w.name])]
                 [] OTHER -> disk

-----------------------------------------------------------------------------
(* Planning a command *)

FreeBlocks(f) == {b \in Blocks : f[b] = FAT_ENTRY_EMPTY}

find_free_block(f) == Min(FreeBlocks(f))

\* Mutant of OneFewerFree: the count is not kept.
SameFree(s) == s

OneFewerFree(s) == [s EXCEPT !.numFree = (@ - 1) % uint16]

\* What a new entry needs: a directory one block, a file its length.
NeededBlocks(e) == IF e.kind = "dir" THEN 1 ELSE e.size

\* Mutant of AllocateThenInsert: the entry is visible before its block is taken.
InsertThenAllocate(allocate, insert) == insert \o allocate

\* The block is allocated in the FAT before the entry is put into the table.
AllocateThenInsert(allocate, insert) == allocate \o insert

Refused(res, writes, s, f) == [res |-> res, writes |-> writes, sb |-> s, fat |-> f]

\* The old last entry, if there is one, loses its mark; then the new entry and
\* its name are written.
Insertion(end, place, e) ==
    (IF end # place
     THEN <<PutEntry(end, [EntryAt(end) EXCEPT !.last = FALSE])>> ELSE << >>)
      \o <<PutEntry(place, [e EXCEPT !.name = Unnamed]), PutName(place, e.name)>>

\* A block for e; a directory's is given its first entry.
Allocation(first, e, s, f) ==
    WriteSuperblockAndFat(s, f)
      \o (IF e.kind = "dir"
          THEN <<PutBlock(first, TableOf(<<Indicator>>))>> ELSE << >>)

\* allocate_block_for_new_entry, then the entry: grow is what was written to
\* make the table longer.
Added(end, place, e, first, grow, s, f) ==
    [res |-> "done", first |-> first, sb |-> s, fat |-> f,
     writes |-> grow \o AllocateThenInsert(
                            Allocation(first, e, s, f),
                            Insertion(end, place,
                                      [e EXCEPT !.first = first, !.last = TRUE]))]

AddAt(end, place, e, grow, s, f) ==
    IF NeededBlocks(e) > s.numFree THEN Refused("full", grow, s, f)
    ELSE IF FreeBlocks(f) = {} THEN Refused("error", grow, s, f)
    ELSE Added(end, place, e, find_free_block(f), grow, OneFewerFree(s),
               [f EXCEPT ![find_free_block(f)] = FAT_ENTRY_END])

\* A full table gets another block, but the code then goes on at the block
\* number FAT_ENTRY_END.
AddGrown(end, e, s, f) ==
    AddAt(end, [block |-> FAT_ENTRY_END, index |-> 1], e,
          WriteSuperblockAndFat(s, f), s, f)

AddAfter(slots, k, e, s, f) ==
    IF ~EntryAt(slots[k]).active THEN AddAt(slots[k], slots[k], e, << >>, s, f)
    ELSE IF k < Len(slots) THEN AddAt(slots[k], slots[k + 1], e, << >>, s, f)
    ELSE IF FreeBlocks(f) = {} THEN Refused("full", << >>, s, f)
    ELSE AddGrown(slots[k], e, OneFewerFree(s),
                  [f EXCEPT ![slots[k].block] = find_free_block(f),
                            ![find_free_block(f)] = FAT_ENTRY_END])

\* add_dir_entry: the writes that put e into the table of directory b, from
\* a superblock s and a FAT f in memory.
add_dir_entry(b, e, s, f) == AddAfter(Slots(b), Len(Walk(b)), e, s, f)

\* copy_file_from_linux writes the pieces one behind the other from the first
\* block on: what is left of a block is never counted down, so the FAT is
\* never asked for the next one.
copy_file_from_linux(first, l) ==
    [i \in 1 .. l.len |->
        PutBlock(first + i - 1, DataOf([id |-> l.id, no |-> i]))]

\* The sizes of the directories on the path grow by n, the root's last.
AddSizes(path, n, s) ==
    (IF Len(path) = 1 THEN << >>
     ELSE LET slot == SlotOf(RootBlock, path[1])
          IN  <<PutEntry(slot, [EntryAt(slot) EXCEPT !.size = @ + n])>>)
      \o <<PutSuperblock([s EXCEPT !.rootSize = @ + n])>>

Idle == todo = << >> /\ ~fault

\* The process starts: its writes are planned, none is done.
Start(path, writes, what) ==
    /\ sb.rootSize < SizeBound
    /\ writes # << >>
    /\ todo' = writes
    /\ making' = [path |-> path, what |-> what]
    /\ stored' = [stored EXCEPT ![path] =
                     IF @ \in {Absent, what} THEN @ ELSE Unknown]
    /\ UNCHANGED <<sb, fat, disk, crashes, fault>>

-----------------------------------------------------------------------------
(* The commands.  One that refuses (a name is missing or exists, a wrong     *)
(* password, no permission) writes back what it has read, or nothing, and is *)
(* left out.                                                                 *)

\* A directory is counted although there was no room for it.
MakeDir(path, r, counted) ==
    Start(path,
          IF r.res = "error" THEN r.writes
          ELSE r.writes \o WriteSuperblockAndFat(counted, r.fat)
                        \o AddSizes(path, 0, counted),
          IF r.res = "done" THEN Directory ELSE stored[path])

mkdir(path) ==
    /\ sb.numDirs <= SizeBound
    /\ PathMissing(path)
    /\ \E r \in {add_dir_entry(ParentBlock(path),
                   NewEntry(Last(path), "dir", 0, {"r", "w"}), sb, fat)} :
         MakeDir(path, r, [r.sb EXCEPT !.numDirs = @ + 1])

MakeFile(path, r, counted, l) ==
    Start(path,
          IF r.res # "done" THEN r.writes
          ELSE r.writes \o WriteSuperblockAndFat(counted, r.fat)
                        \o copy_file_from_linux(r.first, l)
                        \o AddSizes(path, l.len, counted),
          IF r.res = "done" THEN l.id ELSE stored[path])

\* The linux file is copied to the path's last name, a new file.
WriteNew(path, l) ==
    /\ PathMissing(path)
    /\ \E r \in {add_dir_entry(ParentBlock(path),
                   NewEntry(Last(path), "file", l.len, l.mode), sb, fat)} :
         MakeFile(path, r, [r.sb EXCEPT !.numFiles = @ + 1], l)

\* pw is what the user gives; NoPassword when none is given.
Allowed(e, pw) == e.locked => pw = e.pw

\* Mutant of Overwritten: the entry forgets where the file begins.
OverwrittenFromRoot(e, l) ==
    [NewEntry(e.name, "file", l.len, l.mode) EXCEPT !.last = e.last,
                                                    !.pw = e.pw]

\* Mutant of Overwritten: the mark of the last entry is not kept.
OverwrittenNotLast(e, l) ==
    [NewEntry(e.name, "file", l.len, l.mode) EXCEPT !.first = e.first,
                                                    !.pw = e.pw]

\* The entry of a file that is written again: its place and the bytes of its
\* password are kept, its attributes are those of the linux file.
Overwritten(e, l) ==
    [NewEntry(e.name, "file", l.len, l.mode) EXCEPT !.first = e.first,
                                                    !.last = e.last,
                                                    !.pw = e.pw]

\* An existing name is written over, whether it is a file or a directory.
WriteOver(path, l, pw) ==
    LET slot == PathSlot(path)
        e == EntryAt(slot)
    IN  /\ PathFound(path)
        /\ Allowed(e, pw) /\ "w" \in e.mode
        /\ Start(path,
                 <<PutEntry(slot, Overwritten(e, l))>>
                   \o copy_file_from_linux(e.first, l)
                   \o AddSizes(path, l.len, sb),
                 l.id)

\* There is no linux file to copy: the answer, 1, is taken for a size (of one
\* byte; here, of one unit).
WriteNothing(path, pw) ==
    /\ \/ PathMissing(path)
       \/ /\ PathFound(path)
          /\ Allowed(EntryAt(PathSlot(path)), pw)
          /\ "w" \in EntryAt(PathSlot(path)).mode
    /\ Start(path, AddSizes(path, 1, sb), stored[path])

\* The first letter of the mode counts; a second one is only checked.
set_permission(mode, plus, letters) ==
    IF plus THEN mode \cup {letters[1]} ELSE mode \ {letters[1]}

chmod(path, plus, letters, pw) ==
    LET slot == PathSlot(path)
        e == EntryAt(slot)
    IN  /\ PathFound(path)
        /\ e.kind = "file" /\ Allowed(e, pw)
        /\ Start(path,
                 <<PutEntry(slot, [e EXCEPT
                      !.mode = set_permission(@, plus, letters)])>>,
                 stored[path])

\* Mutant of addpw: the entry is not the one read but a new one.
addpwToNewEntry(path, new, pw) ==
    LET slot == PathSlot(path)
        e == EntryAt(slot)
    IN  /\ PathFound(path)
        /\ e.kind = "file" /\ Allowed(e, pw)
        /\ Start(path,
                 <<PutEntry(slot, [NewEntry(e.name, "file", e.size, e.mode)
                                     EXCEPT !.pw = new, !.locked = TRUE])>>,
                 stored[path])

addpw(path, new, pw) ==
    LET slot == PathSlot(path)
        e == EntryAt(slot)
    IN  /\ PathFound(path)
        /\ e.kind = "file" /\ Allowed(e, pw)
        /\ Start(path,
                 <<PutEntry(slot, [e EXCEPT !.pw = new, !.locked = TRUE])>>,
                 stored[path])

\* A command that looks the path up comes to bytes that are no entry, and
\* takes the length of a name from them.
Stray(path) ==
    /\ \/ /\ Len(path) = 2
          /\ ~Found(RootBlock, path[1]) /\ ReadsJunk(RootBlock)
       \/ /\ ParentFound(path)
          /\ ~Found(ParentBlock(path), Last(path))
          /\ ReadsJunk(ParentBlock(path))
    /\ fault' = TRUE
    /\ UNCHANGED <<sb, fat, disk, todo, making, stored, crashes>>

\* The next write of the running command reaches the image.
Write ==
    /\ todo # << >>
    /\ Done(Head(todo))
    /\ todo' = Tail(todo)
    /\ stored' = IF Len(todo) = 1
                 THEN [stored EXCEPT ![making.path] = making.what]
                 ELSE stored
    /\ UNCHANGED <<making, crashes, fault>>

\* The command is killed, or the machine stops: the other writes are lost.
Crash ==
    /\ crashes < MaxCrashes
    /\ todo # << >>
    /\ todo' = << >>
    /\ crashes' = crashes + 1
    /\ UNCHANGED <<sb, fat, disk, making, stored, fault>>

Given == Passwords \cup {NoPassword}

Command(path) ==
    \/ Last(path) \in DirNames /\ mkdir(path)
    \/ /\ Last(path) \in FileNames
       /\ \/ \E l \in LinuxFiles : WriteNew(path, l)
          \/ \E l \in LinuxFiles, pw \in Given : WriteOver(path, l, pw)
          \/ \E pw \in Given : WriteNothing(path, pw)
    \/ /\ path \in ChmodPaths
       /\ \E pw \in Given :
            \/ \E plus \in BOOLEAN, letters \in {<<"r">>, <<"w">>, <<"r", "w">>} :
                 chmod(path, plus, letters, pw)
            \/ \E new \in Passwords : addpw(path, new, pw)
    \/ Stray(path)

Next ==
    \/ Idle /\ \E path \in Paths : Command(path)
    \/ Write
    \/ Crash

Spec == Init /\ [][Next]_vars

-----------------------------------------------------------------------------
(* Properties *)

\* The entries a walk of the directories comes to.
Listed(b) ==
    {slot \in ToSet(Walk(b)) : EntryAt(slot).active}
AllListed ==
    Listed(RootBlock) \cup
    UNION {Listed(EntryAt(s).first) :
             s \in {t \in Listed(RootBlock) : EntryAt(t).kind = "dir"}}

\* Each entry has a block of its own, which bounds the files; the last
\* command before SizeBound may add a whole file to the size.
Superblock == [numFiles : 0 .. NumBlocks - 1, numDirs : 1 .. SizeBound + 1,
               numFree : 0 .. NumBlocks - 1, rootSize : 0 .. SizeBound + NumBlocks]

TypeOK ==
    /\ sb \in Superblock
    /\ fat \in [Blocks -> Blocks \cup {FAT_ENTRY_EMPTY, FAT_ENTRY_END}]
    /\ DOMAIN disk = Places
    /\ \A p \in Places :
         /\ disk[p].kind \in {"zeroed", "table", "data"}
         /\ Len(disk[p].entries) <= EntriesPerBlock
         /\ \A i \in DOMAIN disk[p].entries :
              LET e == disk[p].entries[i]
              IN  /\ e.name \in Names \cup {Unnamed}
                  /\ e.kind \in {"file", "dir", "none"}
                  /\ e.first \in Blocks
                  /\ e.active <=> e.kind # "none"
    /\ DOMAIN stored = Paths
    /\ crashes \in 0 .. MaxCrashes /\ fault \in BOOLEAN

\* Every entry, as soon as it can be seen in its directory, begins at a block
\* of its own that the FAT does not call free: the FAT is written before the
\* entry, so not even a crash in between gives one block to two files.
OneOwner ==
    /\ \A s \in AllListed :
         /\ EntryAt(s).first # RootBlock
         /\ fat[EntryAt(s).first] # FAT_ENTRY_EMPTY
    /\ \A s, t \in AllListed :
         s # t => EntryAt(s).first # EntryAt(t).first

\* The count of free blocks never promises a block the FAT has not, so that
\* a command that passes the check of the capacity finds its block.
FreeCountSafe == sb.numFree <= Cardinality(FreeBlocks(fat))

\* When no command runs the superblock counts the free blocks and the files
\* exactly, on a full image too.  Of the directories it counts those that had
\* no room as well, so never too few.  No count leaves its range (TypeOK).
CountsExact ==
    /\ TypeOK
    /\ todo = << >> =>
         /\ sb.numFree = Cardinality(FreeBlocks(fat))
         /\ sb.numFiles = Cardinality({s \in AllListed : EntryAt(s).kind = "file"})
         /\ sb.numDirs >= 1 + Cardinality({s \in AllListed : EntryAt(s).kind = "dir"})

\* No command strays out of the directories: every walk ends at the entry
\* marked last, through all the moves of that mark.
DirectoriesReadable == ~fault

\* print_file, the read command: as many pieces as the entry's size, from
\* the first block on.
Content(e) == [i \in 1 .. e.size |-> disk[e.first + i - 1].piece]

\* What a finished command left is there until a command replaces it: a
\* directory is found, and a file is found and reads as it was written,
\* whatever is made, written or killed elsewhere.
FinishedWorkSurvives ==
    \A path \in Paths :
        /\ stored[path] = Directory =>
             PathFound(path) /\ EntryAt(PathSlot(path)).kind = "dir"
        /\ \A l \in LinuxFiles : stored[path] = l.id =>
             /\ PathFound(path)
             /\ Content(EntryAt(PathSlot(path))) =
                   [i \in 1 .. l.len |-> [id |-> l.id, no |-> i]]
=============================================================================
