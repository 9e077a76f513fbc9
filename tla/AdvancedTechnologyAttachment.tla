--------------------- MODULE AdvancedTechnologyAttachment ---------------------
(***************************************************************************)
(* The driver of ata.cpp and the two drives of one bus.  The drives share  *)
(* the bus's registers: what is written to a register reaches both, and    *)
(* the device register says which of them acts.  A sector is moved through *)
(* the data port word by word.  The driver never asks whether a drive      *)
(* wants or has words; it counts to 512 bytes by itself, whatever number   *)
(* of bytes its caller gave.  kernelMain identifies the drives of the bus, *)
(* then writes, flushes and reads (kernel.cpp l.767-785, commented out at  *)
(* this commit).                                                           *)
(*                                                                         *)
(* A drive is as the driver takes it to be: it is busy for a while after   *)
(* identify, read and flush, and takes a written sector at the pace of the *)
(* program.  It has a write cache: what was not flushed may be lost when   *)
(* the power goes.                                                         *)
(***************************************************************************)
EXTENDS Integers, Sequences

CONSTANTS
    SectorBytes,   \* 512 in the code; any even number
    ByteValues,    \* values of the bytes of a sector number
    Numbers,       \* the sector numbers callers use, four bytes, high one first
    Texts,         \* what callers write
    WriteCounts,   \* how many bytes of it
    ReadCounts,    \* how many bytes callers read
    MaxWrites,     \* bound: calls of Write28
    MaxCuts        \* bound: power cuts

ASSUME SectorAssumption == SectorBytes \in Nat /\ SectorBytes % 2 = 0
ASSUME ByteAssumption == 0 \in ByteValues /\ ByteValues \subseteq 0 .. 255
ASSUME CountsAssumption == WriteCounts \subseteq Nat /\ ReadCounts \subseteq Int

VARIABLES
    present,     \* the drives that are plugged in
    regs,        \* the bus's registers
    drive,       \* per drive, its status bits and the words it still moves
    cache,       \* per drive, its sectors as a read would return them
    medium,      \* per drive, its sectors as they are after a power cut
    identified,  \* the drives kernelMain has identified since the last boot
    call,        \* the driver's function that is running
    written,     \* history: per drive and number, what a read may show
    safe,        \* history: the same, if the power goes before the read
    writes, cuts

driveVars == <<present, drive, cache, medium>>
history == <<written, safe>>
counters == <<writes, cuts>>
vars == <<present, regs, drive, cache, medium, identified, call,
          written, safe, writes, cuts>>

Drives == {"master", "slave"}
Offsets == 0 .. SectorBytes - 1
Sectors == ByteValues \X ByteValues \X ByteValues \X ByteValues
ASSUME NumbersAssumption == Numbers \subseteq Sectors
Blank == [i \in Offsets |-> <<>>]

\* A text's byte i; what is behind the given number of bytes is zero.
TextOf(text, count) == [i \in Offsets |-> IF i < count THEN <<text, i>> ELSE <<>>]

NoCall == [name |-> "none"]
Idle == [status |-> {"DRDY"}, words |-> 0]

\* The BIOS leaves anything in lbaHi.
BootRegisters ==
    [device : {"master"}, top : {0}, low : {0}, mid : {0}, hi : ByteValues]

Init ==
    /\ present \in SUBSET Drives
    /\ regs \in BootRegisters
    /\ drive = [d \in Drives |-> Idle]
    /\ cache = [d \in Drives |-> [s \in Sectors |-> Blank]]
    /\ medium = cache
    /\ identified = {}
    /\ call = NoCall
    /\ written = [d \in Drives |-> [n \in Numbers |-> {Blank}]]
    /\ safe = written
    /\ writes = 0
    /\ cuts = 0

-----------------------------------------------------------------------------
(* The registers *)

EmptyBus == {"BSY", "DRDY", "DRQ", "ERR"}

\* commandPort.Read() with drive d selected: 0xFF on an empty bus, 0 where
\* only the other drive is there.
Status(d) ==
    CASE present = {} -> EmptyBus
      [] present # {} /\ d \notin present -> {}
      [] OTHER -> drive[d].status

\* Mutant of Loops: the loop waits for the end of busy only.
LoopsWhileBusy(status) == "BSY" \in status
\* while((status & 0x80) && !(status & 0x01))
Loops(status) == "BSY" \in status /\ "ERR" \notin status

\* Both Read28 and Write28 write bits 16 to 23 to lbaLow, over bits 0 to 7.
Addressed(d, n) ==
    [regs EXCEPT !.device = d, !.top = n[1], !.low = n[2], !.mid = n[3]]
\* Mutant of ReadAddressed: bits 16 to 23 go to lbaHi.
ReadAddressedHigh(d, n) ==
    [device |-> d, top |-> n[1], hi |-> n[2], mid |-> n[3], low |-> n[4]]
ReadAddressed(d, n) == Addressed(d, n)
WriteAddressed(d, n) == Addressed(d, n)

SectorAt(r) == <<r.top, r.hi, r.mid, r.low>>

\* The command reaches the selected drive, if it is there.
Commanded(d) ==
    IF d \in present
    THEN [drive EXCEPT ![d] = [status |-> {"DRDY", "BSY"}, words |-> 0]]
    ELSE drive

TooHigh(n) == n[1] > 15

\* The words of the two loops of Read28 and of Write28: i < count, then from
\* count, made even, to 512, both by steps of 2.
Halves(from, to) == IF from < to THEN (to - from + 1) \div 2 ELSE 0
\* C's remainder has the sign of its dividend.
RoundedUp(count) == count + (IF count < 0 THEN -((-count) % 2) ELSE count % 2)
\* Mutant of WordsMoved: nothing pads the sector.
WordsMovedUnpadded(count) == Halves(0, count)
WordsMoved(count) == Halves(0, count) + Halves(RoundedUp(count), SectorBytes)

SectorWords == SectorBytes \div 2
Left(words, moved) == IF moved < words THEN words - moved ELSE 0

Transferring(words) ==
    [status |-> IF words = 0 THEN {"DRDY"} ELSE {"DRDY", "DRQ"}, words |-> words]

\* The drive when the program has read or written so many words.
AfterMoving(d, count) ==
    [drive EXCEPT ![d] = Transferring(Left(drive[d].words, WordsMoved(count)))]

-----------------------------------------------------------------------------
(* The driver *)

Begin(name, d, n, count) ==
    call' = [name |-> name, drive |-> d, number |-> n, count |-> count]

\* Whether the bus is empty is asked of the master, for either drive.
Identify(d) ==
    /\ call = NoCall
    /\ identified' = identified \cup {d}
    /\ IF Status("master") = EmptyBus
       THEN /\ regs' = [regs EXCEPT !.device = "master", !.top = 0]
            /\ UNCHANGED <<drive, call>>
       ELSE /\ regs' = [device |-> d, top |-> 0, low |-> 0, mid |-> 0, hi |-> 0]
            /\ drive' = Commanded(d)
            /\ IF Status(d) = {} THEN UNCHANGED call
               ELSE Begin("Identify", d, <<0, 0, 0, 0>>, SectorBytes)
    /\ UNCHANGED <<present, cache, medium, history, counters>>

\* Callers may ask for any number of bytes, none, or more than there are.
Read28(d, n, count) ==
    /\ call = NoCall
    /\ identified = Drives
    /\ ~TooHigh(n)
    /\ regs' = ReadAddressed(d, n)
    /\ drive' = Commanded(d)
    /\ Begin("Read28", d, n, count)
    /\ UNCHANGED <<present, cache, medium, identified, history, counters>>

\* The numbers that the registers cannot tell from n.
Alike(n) == {k \in Numbers : k[1] = n[1] /\ k[2] = n[2] /\ k[3] = n[3]}

\* The drive takes the sector when it has got all of its words.
Write28(d, n, text, count) ==
    LET left == Left(SectorWords, WordsMoved(count))
        content == TextOf(text, count)
    IN  /\ call = NoCall
        /\ identified = Drives
        /\ writes < MaxWrites
        /\ ~TooHigh(n)
        /\ count <= SectorBytes
        /\ regs' = WriteAddressed(d, n)
        /\ IF d \notin present
           THEN UNCHANGED <<drive, cache, history>>
           ELSE /\ drive' = [drive EXCEPT ![d] = Transferring(left)]
                /\ cache' = IF left = 0
                            THEN [cache EXCEPT ![d][SectorAt(regs')] = content]
                            ELSE cache
                /\ written' = [written EXCEPT ![d] =
                     [k \in Numbers |-> IF k \in Alike(n) THEN {content} ELSE @[k]]]
                /\ safe' = [safe EXCEPT ![d] =
                     [k \in Numbers |-> IF k \in Alike(n) THEN @[k] \cup {content}
                                       ELSE @[k]]]
        /\ writes' = writes + 1
        /\ UNCHANGED <<present, medium, identified, call, cuts>>

\* Mutant of Flushes: always the master.
FlushesMaster(d) == "master"
Flushes(d) == d

Flush(d) ==
    /\ call = NoCall
    /\ identified = Drives
    /\ regs' = [regs EXCEPT !.device = Flushes(d), !.top = 0]
    /\ drive' = Commanded(Flushes(d))
    /\ IF Status(Flushes(d)) = {} THEN UNCHANGED call
       ELSE Begin("Flush", d, <<0, 0, 0, 0>>, 0)
    /\ UNCHANGED <<present, cache, medium, identified, history, counters>>

\* The loop on the status has ended.  With the error bit the driver prints
\* ERROR; otherwise it moves the words.
Selected == regs.device
Polled ==
    /\ call # NoCall
    /\ ~Loops(Status(Selected))
    /\ call' = NoCall

Fails ==
    /\ Polled
    /\ "ERR" \in Status(Selected)
    /\ UNCHANGED <<driveVars, regs, identified, history, counters>>

\* The byte that Read28 prints at place i.
Printed(i) == cache[Selected][SectorAt(regs)][i]

Reads ==
    /\ Polled
    /\ "ERR" \notin Status(Selected)
    /\ call.name \in {"Identify", "Read28"}
    /\ drive' = AfterMoving(Selected, call.count)
    /\ UNCHANGED <<present, cache, medium, regs, identified, history, counters>>

\* Flush returns without an error: the caller takes what it wrote for safe.
FlushReturns ==
    /\ Polled
    /\ "ERR" \notin Status(Selected)
    /\ call.name = "Flush"
    /\ safe' = [safe EXCEPT ![call.drive] = written[call.drive]]
    /\ UNCHANGED <<driveVars, regs, identified, written, counters>>

Returns == Fails \/ Reads \/ FlushReturns

-----------------------------------------------------------------------------
(* The drives *)

Busy(d) ==
    /\ d \in present
    /\ call # NoCall
    /\ "BSY" \in drive[d].status
    /\ "ERR" \notin drive[d].status

Answers(d) ==
    /\ Busy(d)
    /\ drive' = [drive EXCEPT ![d] =
                   Transferring(IF call.name = "Flush" THEN 0 ELSE SectorWords)]
    /\ medium' = IF call.name = "Flush" THEN [medium EXCEPT ![d] = cache[d]]
                 ELSE medium
    /\ UNCHANGED <<present, cache, regs, identified, call, history, counters>>

\* A drive that fails says so, and some keep the busy bit.
AnswersError(d) ==
    /\ Busy(d)
    /\ \E busy \in {{}, {"BSY"}} :
         drive' = [drive EXCEPT ![d] =
                     [status |-> {"DRDY", "ERR"} \cup busy, words |-> 0]]
    /\ UNCHANGED <<present, cache, medium, regs, identified, call,
                   history, counters>>

\* The drive writes a sector of its cache when it likes.
WritesBack(d, s) ==
    /\ medium[d][s] # cache[d][s]
    /\ medium' = [medium EXCEPT ![d][s] = cache[d][s]]
    /\ UNCHANGED <<present, drive, cache, regs, identified, call,
                   history, counters>>

\* The power goes, and the kernel boots again.
PowerCut ==
    /\ cuts < MaxCuts
    /\ cuts' = cuts + 1
    /\ cache' = medium
    /\ drive' = [d \in Drives |-> Idle]
    /\ regs' \in BootRegisters
    /\ identified' = {}
    /\ call' = NoCall
    /\ written' = safe
    /\ UNCHANGED <<present, medium, safe, writes>>

-----------------------------------------------------------------------------
Program ==
    \/ \E d \in Drives : Identify(d)
    \/ \E d \in Drives, n \in Numbers, count \in ReadCounts : Read28(d, n, count)
    \/ \E d \in Drives, n \in Numbers, text \in Texts, count \in WriteCounts :
          Write28(d, n, text, count)
    \/ \E d \in Drives : Flush(d)

Drive ==
    \/ \E d \in Drives : Answers(d)
    \/ \E d \in Drives : AnswersError(d)

Next ==
    \/ Program
    \/ Returns
    \/ Drive
    \/ \E d \in Drives, s \in Sectors : WritesBack(d, s)
    \/ PowerCut

\* A drive answers in the end, and the loop that polls it runs on.
Spec == Init /\ [][Next]_vars /\ WF_vars(Returns) /\ WF_vars(Drive)

-----------------------------------------------------------------------------
(* Properties *)

TypeOK ==
    /\ present \subseteq Drives
    /\ regs \in [device : Drives, top : ByteValues, low : ByteValues,
                 mid : ByteValues, hi : ByteValues]
    /\ drive \in [Drives -> [status : SUBSET EmptyBus, words : 0 .. SectorWords]]
    /\ identified \subseteq Drives
    /\ call.name \in {"none", "Identify", "Read28", "Flush"}

\* Between two calls no drive has a word that nobody read, or waits for one
\* that nobody wrote: the two loops of Read28 and Write28 (ata.cpp l.100-116,
\* 138-152) come to the whole sector for odd and even counts, for none, and,
\* in Read28, for too many and for less than none.
NothingPending ==
    /\ TypeOK
    /\ call = NoCall => \A d \in present : drive[d].words = 0

\* Read28 shows what the last Write28 put under that number on that drive,
\* with zeros behind it, or under a number that differs in its low byte only
\* (bits 16 to 23 are written over bits 0 to 7, l.81-83 and 130-132); after a
\* power cut, what Flush had made safe, or something written since.  It needs
\* lbaHi to stay what Identify made it: neither function writes it.
ShowsWritten ==
    Reads /\ call.name = "Read28" /\ Selected \in present =>
        \E content \in written[call.drive][call.number] :
            \A i \in Offsets : i < call.count => Printed(i) = content[i]

ReadsBack == [][ShowsWritten]_vars

\* No call hangs on a drive that answers, be it with an error and the busy
\* bit still on (l.52-54, 87-89, 165-167).
CallsReturn == call # NoCall ~> call = NoCall
=============================================================================
