----------------- MODULE AdvancedTechnologyAttachment_proofs -----------------
(***************************************************************************)
(* Theorems about the ATA driver and the drives, for every sector size,    *)
(* set of sector numbers, texts and counts:                                *)
(*   NothingLeftPending  between two calls no drive waits for a word;      *)
(*   ShownIsWritten      Read28 shows what Write28 wrote, power cuts       *)
(*                       included.                                         *)
(***************************************************************************)
EXTENDS AdvancedTechnologyAttachment, TLAPS

-----------------------------------------------------------------------------
(* The words of a sector *)

\* Whatever number of bytes is asked for, the two loops of Read28 and of
\* Write28 together move at least the words of a sector.
LEMMA WholeSector ==
    ASSUME NEW count \in Int
    PROVE  WordsMoved(count) \in Nat /\ WordsMoved(count) >= SectorWords
<1>1. SectorBytes \in Nat /\ SectorBytes % 2 = 0
  BY SectorAssumption
<1>2. PICK half \in Nat : SectorBytes = 2 * half
  <2>1. SectorBytes \div 2 \in Nat /\ SectorBytes = 2 * (SectorBytes \div 2)
    BY SMT, <1>1
  <2> QED
    BY <2>1
<1>3. SectorWords = half
  BY SMT, <1>2 DEF SectorWords
<1>4. PICK q \in Int : count = 2 * q \/ count = 2 * q + 1
  <2>1. count = 2 * (count \div 2) + (count % 2) /\ count % 2 \in 0 .. 1
    BY SMT
  <2> QED
    BY SMT, <2>1
<1>5. CASE count <= 0
  <2>1. Halves(0, count) = 0
    BY SMT, <1>5 DEF Halves
  <2>2. RoundedUp(count) \in Int /\ RoundedUp(count) <= 0
    BY SMT, <1>5 DEF RoundedUp
  <2> DEFINE from == RoundedUp(count)
  <2> HIDE DEF from
  <2>3. Halves(from, SectorBytes) \in Nat /\ Halves(from, SectorBytes) >= half
    BY SMT, <1>2, <2>2 DEF Halves, from
  <2> QED
    BY SMT, <1>3, <2>1, <2>3 DEF WordsMoved, from
<1>6. CASE count > 0
  <2>1. RoundedUp(count) = count + (count % 2)
    BY SMT, <1>6 DEF RoundedUp
  <2>2. Halves(0, count) = (count + 1) \div 2
    BY SMT, <1>6 DEF Halves
  <2>3. \/ count = 2 * q /\ count % 2 = 0 /\ (count + 1) \div 2 = q
        \/ count = 2 * q + 1 /\ count % 2 = 1 /\ (count + 1) \div 2 = q + 1
    BY SMT, <1>4
  <2>4. PICK p \in Nat : Halves(0, count) = p /\ RoundedUp(count) = 2 * p
    BY SMT, <1>6, <2>1, <2>2, <2>3
  <2>5. CASE p < half
    <3>1. Halves(2 * p, SectorBytes) = half - p
      BY SMT, <1>2, <2>4, <2>5 DEF Halves
    <3> QED
      BY SMT, <1>2, <1>3, <2>4, <2>5, <3>1 DEF WordsMoved
  <2>6. CASE ~(p < half)
    <3>1. Halves(2 * p, SectorBytes) = 0
      BY SMT, <1>2, <2>4, <2>6 DEF Halves
    <3> QED
      BY SMT, <1>2, <1>3, <2>4, <2>6, <3>1 DEF WordsMoved
  <2> QED
    BY SMT, <2>4, <2>5, <2>6
<1> QED
  BY SMT, <1>5, <1>6

\* So nothing is left of the sector.
LEMMA NothingLeft ==
    ASSUME NEW count \in Int, NEW words \in 0 .. SectorWords
    PROVE  Left(words, WordsMoved(count)) = 0
<1>1. WordsMoved(count) \in Nat /\ WordsMoved(count) >= SectorWords
  BY WholeSector
<1>2. SectorWords \in Nat
  BY SMT, SectorAssumption DEF SectorWords
<1> QED
  BY SMT, <1>1, <1>2 DEF Left

LEMMA WordsNumbers == SectorWords \in Nat /\ 0 \in 0 .. SectorWords
<1>1. SectorWords \in Nat
  BY SMT, SectorAssumption DEF SectorWords
<1> QED
  BY SMT, <1>1

-----------------------------------------------------------------------------
(* The inductive invariant *)

Statuses == {{"DRDY"}, {"DRDY", "BSY"}, {"DRDY", "DRQ"}, {"DRDY", "ERR"},
             {"DRDY", "ERR", "BSY"}}
Contents == {Blank} \cup {TextOf(text, count) : text \in Texts, count \in WriteCounts}
Names == {"Identify", "Read28", "Flush"}

CallTyped ==
    \/ call = NoCall
    \/ call \in [name : Names, drive : Drives, number : Sectors, count : Int]

\* What kernelMain and the drives can leave in the variables.
StateTyped ==
    /\ present \subseteq Drives
    /\ regs \in [device : Drives, top : ByteValues, low : ByteValues,
                 mid : ByteValues, hi : ByteValues]
    /\ drive \in [Drives -> [status : Statuses, words : 0 .. SectorWords]]
    /\ identified \subseteq Drives
    /\ CallTyped
    /\ cache \in [Drives -> [Sectors -> Contents]]
    /\ medium \in [Drives -> [Sectors -> Contents]]
    /\ written \in [Drives -> [Numbers -> SUBSET Contents]]
    /\ safe \in [Drives -> [Numbers -> SUBSET Contents]]

\* Only the drive that the device register selects works for a call.
Working(d) ==
    \/ drive[d].words # 0
    \/ "BSY" \in drive[d].status /\ "ERR" \notin drive[d].status
OneWorks ==
    \A d \in present :
        /\ Working(d) => call # NoCall /\ d = Selected
        /\ "ERR" \in drive[d].status => drive[d].words = 0
CallSelected ==
    call # NoCall => call.drive = Selected

\* The sector that the driver addresses under a number: bits 16 to 23 are in
\* the low byte, and the high byte is what Identify left there.
Place(n) == <<n[1], 0, n[3], n[2]>>
HighIsZero == identified # {} /\ present # {} => regs.hi = 0
ReadSelected ==
    call # NoCall /\ call.name = "Read28" =>
        /\ call.number \in Numbers /\ identified = Drives
        /\ regs.top = call.number[1] /\ regs.low = call.number[2]
        /\ regs.mid = call.number[3]

\* What a drive holds is what was written under the number, and what it
\* writes back is safe.
CacheWritten ==
    \A d \in Drives, n \in Numbers :
        /\ cache[d][Place(n)] \in written[d][n]
        /\ written[d][n] \subseteq safe[d][n]
        /\ medium[d][Place(n)] \in safe[d][n]
FlushWorks ==
    call # NoCall /\ call.name = "Flush" =>
        /\ \A d \in present : drive[d].words = 0
        /\ present # {} => Selected \in present
        /\ \A d \in present :
              d = Selected /\ drive[d].status \cap {"BSY", "ERR"} = {} =>
                 medium[d] = cache[d]

AInv ==
    /\ StateTyped /\ OneWorks /\ CallSelected
    /\ HighIsZero /\ ReadSelected
    /\ CacheWritten /\ FlushWorks

-----------------------------------------------------------------------------
(* What the steps do to registers and drives *)

Registers == [device : Drives, top : ByteValues, low : ByteValues,
              mid : ByteValues, hi : ByteValues]
DriveStates == [status : Statuses, words : 0 .. SectorWords]

LEMMA NumberBytes ==
    ASSUME NEW n \in Sectors
    PROVE  /\ n[1] \in ByteValues /\ n[2] \in ByteValues
           /\ n[3] \in ByteValues /\ n[4] \in ByteValues
           /\ Place(n) \in Sectors
<1>1. /\ n[1] \in ByteValues /\ n[2] \in ByteValues
      /\ n[3] \in ByteValues /\ n[4] \in ByteValues
  BY DEF Sectors
<1>2. Place(n) \in Sectors
  BY <1>1, ByteAssumption DEF Place, Sectors
<1> QED
  BY <1>1, <1>2

LEMMA AddressedRegisters ==
    ASSUME regs \in Registers, NEW d \in Drives, NEW n \in Sectors
    PROVE  /\ Addressed(d, n) \in Registers
           /\ Addressed(d, n).device = d /\ Addressed(d, n).hi = regs.hi
           /\ Addressed(d, n).top = n[1] /\ Addressed(d, n).low = n[2]
           /\ Addressed(d, n).mid = n[3]
BY NumberBytes DEF Addressed, Registers

LEMMA StatusOfPresent ==
    ASSUME StateTyped, NEW d \in Drives
    PROVE  /\ d \in present => Status(d) = drive[d].status /\ drive[d] \in DriveStates
           /\ d \notin present => Status(d) = IF present = {} THEN EmptyBus ELSE {}
BY DEF StateTyped, Status, DriveStates

\* A drive that is there never answers like an empty bus or like no drive.
LEMMA PresentAnswers ==
    ASSUME StateTyped, NEW d \in present
    PROVE  Status(d) # EmptyBus /\ Status(d) # {}
<1>1. d \in Drives /\ Status(d) \in Statuses
  BY StatusOfPresent DEF StateTyped, DriveStates
<1> QED
  BY <1>1 DEF Statuses, EmptyBus

\* A command of a call that begins.
LEMMA CommandReaches ==
    ASSUME StateTyped, OneWorks, call = NoCall, UNCHANGED present,
           NEW d \in Drives, drive' = Commanded(d), regs'.device = d,
           call' = NoCall => d \notin present,
           call' # NoCall => call'.drive = d
    PROVE  /\ drive' \in [Drives -> DriveStates]
           /\ OneWorks' /\ CallSelected'
           /\ \A e \in present : drive'[e].words = 0
           /\ d \in present => drive'[d].status = {"DRDY", "BSY"}
<1>1. drive \in [Drives -> DriveStates] /\ present \subseteq Drives
  BY DEF StateTyped, DriveStates
<1>2. \A e \in present : ~Working(e) /\ drive[e].words = 0
  BY DEF OneWorks, Working
<1>3. CASE d \notin present
  <2>1. drive' = drive
    BY <1>3 DEF Commanded
  <2>2. OneWorks'
    BY <1>2, <2>1 DEF OneWorks, Working
  <2> QED
    BY <1>1, <1>2, <1>3, <2>1, <2>2 DEF CallSelected, Selected
<1>4. CASE d \in present
  <2> DEFINE r == [status |-> {"DRDY", "BSY"}, words |-> 0]
  <2>1. r \in DriveStates
    BY WordsNumbers DEF DriveStates, Statuses
  <2>2. drive' = [drive EXCEPT ![d] = r]
    BY <1>4 DEF Commanded
  <2>3. r.status = {"DRDY", "BSY"} /\ r.words = 0
    OBVIOUS
  <2> HIDE DEF r
  <2>4. /\ drive' \in [Drives -> DriveStates]
        /\ \A e \in Drives : drive'[e] = IF e = d THEN r ELSE drive[e]
    BY <1>1, <2>1, <2>2
  <2>5. call' # NoCall
    BY <1>4
  <2>6. \A e \in present : /\ drive'[e].words = 0
                           /\ e # d => drive'[e] = drive[e]
    BY <1>1, <1>2, <2>3, <2>4
  <2>7. OneWorks'
    BY <1>2, <2>3, <2>4, <2>5, <2>6 DEF OneWorks, Working, Selected
  <2> QED
    BY <1>4, <2>3, <2>4, <2>5, <2>6, <2>7 DEF CallSelected, Selected
<1> QED
  BY <1>3, <1>4

\* What the history says of the drives is kept when both are.
LEMMA CacheWrittenKept ==
    ASSUME CacheWritten, UNCHANGED <<cache, medium, history>>
    PROVE  CacheWritten'
BY DEF CacheWritten, history

-----------------------------------------------------------------------------
(* Every step keeps the invariant *)

LEMMA IdentifyKeeps ==
    ASSUME AInv, NEW d \in Drives, Identify(d)
    PROVE  AInv'
<1>1. /\ call = NoCall /\ identified' = identified \cup {d}
      /\ UNCHANGED <<present, cache, medium, history, counters>>
      /\ StateTyped /\ OneWorks
  BY DEF Identify, AInv
<1>2. CacheWritten'
  BY <1>1, CacheWrittenKept DEF AInv
<1>3. regs \in Registers
  BY <1>1 DEF StateTyped, Registers
<1>4. CASE Status("master") = EmptyBus
  <2>1. /\ regs' = [regs EXCEPT !.device = "master", !.top = 0]
        /\ UNCHANGED <<drive, call>>
    BY <1>4 DEF Identify
  <2>2. present = {}
    <3>1. "master" \in Drives /\ "BSY" \in EmptyBus
      BY DEF Drives, EmptyBus
    <3>2. "master" \notin present
      BY <1>1, <1>4, PresentAnswers
    <3> QED
      BY <1>1, <1>4, <3>1, <3>2, StatusOfPresent
  <2>3. regs' \in Registers
    BY <1>3, <2>1, ByteAssumption DEF Registers, Drives
  <2>4. StateTyped'
    BY <1>1, <2>1, <2>3 DEF StateTyped, CallTyped, Registers, history
  <2>5. OneWorks' /\ HighIsZero' /\ CallSelected' /\ ReadSelected' /\ FlushWorks'
    BY <1>1, <2>1, <2>2
       DEF OneWorks, HighIsZero, CallSelected, ReadSelected, FlushWorks
  <2> QED
    BY <1>2, <2>4, <2>5 DEF AInv
<1>5. CASE Status("master") # EmptyBus
  <2>1. /\ regs' = [device |-> d, top |-> 0, low |-> 0, mid |-> 0, hi |-> 0]
        /\ drive' = Commanded(d)
        /\ IF Status(d) = {} THEN UNCHANGED call
           ELSE Begin("Identify", d, <<0, 0, 0, 0>>, SectorBytes)
    BY <1>5 DEF Identify
  <2>2. regs' \in Registers /\ regs'.device = d /\ regs'.hi = 0
    BY <2>1, ByteAssumption DEF Registers
  <2>3. \/ call' = NoCall /\ d \notin present
        \/ /\ call' # NoCall /\ call'.drive = d /\ call'.name = "Identify"
           /\ call' \in [name : Names, drive : Drives, number : Sectors, count : Int]
    <3>1. CASE Status(d) = {}
      BY <1>1, <2>1, <3>1, PresentAnswers
    <3>2. CASE Status(d) # {}
      <4>1. <<0, 0, 0, 0>> \in Sectors /\ SectorBytes \in Int /\ "Identify" \in Names
        BY ByteAssumption, SectorAssumption DEF Sectors, Names
      <4>2. call' = [name |-> "Identify", drive |-> d, number |-> <<0, 0, 0, 0>>,
                     count |-> SectorBytes]
        BY <2>1, <3>2 DEF Begin
      <4> QED
        BY <4>1, <4>2 DEF NoCall
    <3> QED
      BY <3>1, <3>2
  <2>4. /\ drive' \in [Drives -> DriveStates] /\ OneWorks' /\ CallSelected'
    BY <1>1, <2>1, <2>2, <2>3, CommandReaches
  <2>5. StateTyped'
    BY <1>1, <2>2, <2>3, <2>4
       DEF StateTyped, CallTyped, Registers, DriveStates, history
  <2>6. HighIsZero' /\ ReadSelected' /\ FlushWorks'
    BY <2>2, <2>3 DEF HighIsZero, ReadSelected, FlushWorks
  <2> QED
    BY <1>2, <2>4, <2>5, <2>6 DEF AInv
<1> QED
  BY <1>4, <1>5

LEMMA ReadKeeps ==
    ASSUME AInv, NEW d \in Drives, NEW n \in Numbers, NEW count \in ReadCounts,
           Read28(d, n, count)
    PROVE  AInv'
<1>1. /\ call = NoCall /\ identified = Drives
      /\ regs' = Addressed(d, n) /\ drive' = Commanded(d)
      /\ call' = [name |-> "Read28", drive |-> d, number |-> n, count |-> count]
      /\ UNCHANGED <<present, cache, medium, identified, history, counters>>
      /\ StateTyped /\ OneWorks
  BY DEF Read28, ReadAddressed, Begin, AInv
<1>2. CacheWritten'
  BY <1>1, CacheWrittenKept DEF AInv
<1>3. n \in Sectors /\ regs \in Registers
  BY <1>1, NumbersAssumption DEF StateTyped, Registers
<1>4. /\ regs' \in Registers /\ regs'.device = d /\ regs'.hi = regs.hi
      /\ regs'.top = n[1] /\ regs'.low = n[2] /\ regs'.mid = n[3]
  BY <1>1, <1>3, AddressedRegisters
<1>5. /\ call' # NoCall /\ call'.drive = d /\ call'.name = "Read28" /\ call'.number = n
      /\ call' \in [name : Names, drive : Drives, number : Sectors, count : Int]
  <2>1. count \in Int /\ "Read28" \in Names
    BY CountsAssumption DEF Names
  <2> QED
    BY <1>1, <1>3, <2>1 DEF NoCall
<1>6. drive' \in [Drives -> DriveStates] /\ OneWorks' /\ CallSelected'
  BY <1>1, <1>4, <1>5, CommandReaches
<1>7. StateTyped'
  BY <1>1, <1>4, <1>5, <1>6 DEF StateTyped, CallTyped, Registers, DriveStates, history
<1>8. HighIsZero'
  BY <1>1, <1>4 DEF AInv, HighIsZero
<1>9. ReadSelected' /\ FlushWorks'
  BY <1>1, <1>4, <1>5 DEF ReadSelected, FlushWorks
<1> QED
  BY <1>2, <1>6, <1>7, <1>8, <1>9 DEF AInv

\* Write28 puts the text under every number that its registers cannot tell
\* from the caller's, and under no other.
LEMMA WrittenUnderNumber ==
    ASSUME AInv, NEW d \in Drives, NEW n \in Numbers, NEW content \in Contents,
           d \in present,
           cache' = [cache EXCEPT ![d][Place(n)] = content],
           medium' = medium,
           written' = [written EXCEPT ![d] =
               [k \in Numbers |-> IF k \in Alike(n) THEN {content} ELSE @[k]]],
           safe' = [safe EXCEPT ![d] =
               [k \in Numbers |-> IF k \in Alike(n) THEN @[k] \cup {content} ELSE @[k]]]
    PROVE  /\ cache' \in [Drives -> [Sectors -> Contents]]
           /\ written' \in [Drives -> [Numbers -> SUBSET Contents]]
           /\ safe' \in [Drives -> [Numbers -> SUBSET Contents]]
           /\ CacheWritten'
<1>1. /\ cache \in [Drives -> [Sectors -> Contents]]
      /\ written \in [Drives -> [Numbers -> SUBSET Contents]]
      /\ safe \in [Drives -> [Numbers -> SUBSET Contents]]
      /\ CacheWritten
  BY DEF AInv, StateTyped
<1>2. \A k \in Numbers : k \in Sectors /\ Place(k) \in Sectors
  BY NumbersAssumption, NumberBytes
<1>3. \A k \in Numbers : Place(k) = Place(n) <=> k \in Alike(n)
  BY DEF Place, Alike
<1>4. \A e \in Drives, s \in Sectors :
        cache'[e][s] = IF e = d /\ s = Place(n) THEN content ELSE cache[e][s]
  BY <1>1, <1>2
<1>5. cache' \in [Drives -> [Sectors -> Contents]]
  BY <1>1, <1>2
<1>6. \A e \in Drives, k \in Numbers :
        written'[e][k] = IF e = d /\ k \in Alike(n) THEN {content} ELSE written[e][k]
  BY <1>1
<1>7. \A e \in Drives, k \in Numbers :
        safe'[e][k] = IF e = d /\ k \in Alike(n) THEN safe[e][k] \cup {content}
                      ELSE safe[e][k]
  BY <1>1
<1>8. written' \in [Drives -> [Numbers -> SUBSET Contents]]
  BY <1>1
<1>9. safe' \in [Drives -> [Numbers -> SUBSET Contents]]
  BY <1>1
<1>10. ASSUME NEW e \in Drives, NEW k \in Numbers
       PROVE  /\ cache'[e][Place(k)] \in written'[e][k]
              /\ written'[e][k] \subseteq safe'[e][k]
              /\ medium'[e][Place(k)] \in safe'[e][k]
  <2>1. /\ cache[e][Place(k)] \in written[e][k]
        /\ written[e][k] \subseteq safe[e][k]
        /\ medium[e][Place(k)] \in safe[e][k]
    BY <1>1 DEF CacheWritten
  <2>2. medium'[e][Place(k)] = medium[e][Place(k)] /\ Place(k) \in Sectors
    BY <1>2
  <2>3. CASE e = d /\ k \in Alike(n)
    <3>1. Place(k) = Place(n)
      BY <1>3, <2>3
    <3>2. cache'[e][Place(k)] = content
      BY <1>4, <2>2, <2>3, <3>1
    <3>3. written'[e][k] = {content}
      BY <1>6, <2>3
    <3>4. safe'[e][k] = safe[e][k] \cup {content}
      BY <1>7, <2>3
    <3> QED
      BY <2>1, <2>2, <3>2, <3>3, <3>4
  <2>4. CASE ~(e = d /\ k \in Alike(n))
    <3>1. /\ cache'[e][Place(k)] = cache[e][Place(k)]
          /\ written'[e][k] = written[e][k] /\ safe'[e][k] = safe[e][k]
      BY <1>3, <1>4, <1>6, <1>7, <2>2, <2>4
    <3> QED
      BY <2>1, <2>2, <3>1
  <2> QED
    BY <2>3, <2>4
<1>11. CacheWritten'
  BY <1>10 DEF CacheWritten, Place
<1> QED
  BY <1>5, <1>8, <1>9, <1>11

LEMMA WriteKeeps ==
    ASSUME AInv, NEW d \in Drives, NEW n \in Numbers, NEW text \in Texts,
           NEW count \in WriteCounts, Write28(d, n, text, count)
    PROVE  AInv'
<1> DEFINE left == Left(SectorWords, WordsMoved(count))
           content == TextOf(text, count)
<1>1. /\ call = NoCall /\ identified = Drives
      /\ regs' = Addressed(d, n)
      /\ UNCHANGED <<present, medium, identified, call, cuts>>
      /\ StateTyped /\ OneWorks
  BY DEF Write28, WriteAddressed, AInv
<1>2. left = 0
  <2>1. count \in Int /\ SectorWords \in 0 .. SectorWords
    BY SMT, WordsNumbers, CountsAssumption
  <2> QED
    BY <2>1, NothingLeft
<1>3. n \in Sectors /\ regs \in Registers
  BY <1>1, NumbersAssumption DEF StateTyped, Registers
<1>4. /\ regs' \in Registers /\ regs'.device = d /\ regs'.hi = regs.hi
      /\ regs'.top = n[1] /\ regs'.low = n[2] /\ regs'.mid = n[3]
  BY <1>1, <1>3, AddressedRegisters
<1>5. \A e \in present : ~Working(e) /\ drive[e].words = 0
  BY <1>1 DEF OneWorks, Working
<1>6. call' = NoCall
  BY <1>1
<1>7. HighIsZero' /\ CallSelected' /\ ReadSelected' /\ FlushWorks'
  BY <1>1, <1>4, <1>6 DEF AInv, HighIsZero, CallSelected, ReadSelected, FlushWorks
<1>8. CASE d \notin present
  <2>1. UNCHANGED <<drive, cache, history>>
    BY <1>8 DEF Write28
  <2>2. CacheWritten' /\ StateTyped'
    BY <1>1, <1>4, <2>1, CacheWrittenKept
       DEF AInv, StateTyped, CallTyped, Registers, history
  <2>3. OneWorks'
    BY <1>1, <1>5, <2>1 DEF OneWorks, Working
  <2> QED
    BY <1>7, <2>2, <2>3 DEF AInv
<1>9. CASE d \in present
  <2>1. content \in Contents
    BY DEF Contents
  <2>2. SectorAt(regs') = Place(n)
    <3>1. regs.hi = 0
      BY <1>1, <1>9 DEF AInv, HighIsZero
    <3> QED
      BY <1>4, <3>1 DEF SectorAt, Place
  <2>3. /\ drive' = [drive EXCEPT ![d] = Transferring(left)]
        /\ cache' = IF left = 0 THEN [cache EXCEPT ![d][SectorAt(regs')] = content]
                    ELSE cache
        /\ written' = [written EXCEPT ![d] =
             [k \in Numbers |-> IF k \in Alike(n) THEN {content} ELSE @[k]]]
        /\ safe' = [safe EXCEPT ![d] =
             [k \in Numbers |-> IF k \in Alike(n) THEN @[k] \cup {content} ELSE @[k]]]
    BY <1>9 DEF Write28
  <2> HIDE DEF left, content
  <2>4. cache' = [cache EXCEPT ![d][Place(n)] = content]
    BY <1>2, <2>2, <2>3
  <2>5. /\ cache' \in [Drives -> [Sectors -> Contents]]
        /\ written' \in [Drives -> [Numbers -> SUBSET Contents]]
        /\ safe' \in [Drives -> [Numbers -> SUBSET Contents]]
        /\ CacheWritten'
    BY <1>1, <1>9, <2>1, <2>3, <2>4, WrittenUnderNumber
  <2>6. /\ drive \in [Drives -> DriveStates]
        /\ Transferring(left) \in DriveStates
        /\ Transferring(left).words = 0 /\ Transferring(left).status = {"DRDY"}
    BY <1>1, <1>2, WordsNumbers DEF StateTyped, DriveStates, Transferring, Statuses
  <2>7. /\ drive' \in [Drives -> DriveStates]
        /\ \A e \in Drives : drive'[e] = IF e = d THEN Transferring(left) ELSE drive[e]
    BY <2>3, <2>6
  <2>8. OneWorks'
    <3>1. present' = present /\ present \subseteq Drives
      BY <1>1 DEF StateTyped
    <3>2. "ERR" \notin {"DRDY"} /\ "BSY" \notin {"DRDY"}
      OBVIOUS
    <3> QED
      BY <1>1, <1>5, <2>6, <2>7, <3>1, <3>2 DEF OneWorks, Working
  <2>9. StateTyped'
    BY <1>1, <1>4, <2>5, <2>7 DEF StateTyped, CallTyped, Registers, DriveStates
  <2> QED
    BY <1>7, <2>5, <2>8, <2>9 DEF AInv
<1> QED
  BY <1>8, <1>9

LEMMA FlushKeeps ==
    ASSUME AInv, NEW d \in Drives, Flush(d)
    PROVE  AInv'
<1>1. /\ call = NoCall /\ identified = Drives
      /\ regs' = [regs EXCEPT !.device = d, !.top = 0]
      /\ drive' = Commanded(d)
      /\ IF Status(d) = {} THEN UNCHANGED call ELSE Begin("Flush", d, <<0, 0, 0, 0>>, 0)
      /\ UNCHANGED <<present, cache, medium, identified, history, counters>>
      /\ StateTyped /\ OneWorks
  BY DEF Flush, Flushes, AInv
<1>2. CacheWritten'
  BY <1>1, CacheWrittenKept DEF AInv
<1>3. regs \in Registers
  BY <1>1 DEF StateTyped, Registers
<1>4. regs' \in Registers /\ regs'.device = d /\ regs'.hi = regs.hi
  BY <1>1, <1>3, ByteAssumption DEF Registers
<1>5. \/ call' = NoCall /\ d \notin present
      \/ /\ call' # NoCall /\ call'.drive = d /\ call'.name = "Flush"
         /\ call' \in [name : Names, drive : Drives, number : Sectors, count : Int]
         /\ Status(d) # {}
  <2>1. CASE Status(d) = {}
    BY <1>1, <2>1, PresentAnswers
  <2>2. CASE Status(d) # {}
    <3>1. <<0, 0, 0, 0>> \in Sectors /\ 0 \in Int /\ "Flush" \in Names
      BY ByteAssumption DEF Sectors, Names
    <3>2. call' = [name |-> "Flush", drive |-> d, number |-> <<0, 0, 0, 0>>,
                   count |-> 0]
      BY <1>1, <2>2 DEF Begin
    <3> QED
      BY <2>2, <3>1, <3>2 DEF NoCall
  <2> QED
    BY <2>1, <2>2
<1>6. /\ drive' \in [Drives -> DriveStates] /\ OneWorks' /\ CallSelected'
      /\ \A e \in present : drive'[e].words = 0
      /\ d \in present => drive'[d].status = {"DRDY", "BSY"}
  BY <1>1, <1>4, <1>5, CommandReaches
<1>7. StateTyped'
  BY <1>1, <1>4, <1>5, <1>6 DEF StateTyped, CallTyped, Registers, DriveStates, history
<1>8. HighIsZero' /\ ReadSelected'
  BY <1>1, <1>4, <1>5 DEF AInv, HighIsZero, ReadSelected
<1>9. FlushWorks'
  <2>1. call' # NoCall /\ present # {} => d \in present
    BY <1>1, <1>5, StatusOfPresent
  <2>2. {"DRDY", "BSY"} \cap {"BSY", "ERR"} # {}
    OBVIOUS
  <2> QED
    BY <1>1, <1>4, <1>6, <2>1, <2>2 DEF FlushWorks, Selected
<1> QED
  BY <1>2, <1>6, <1>7, <1>8, <1>9 DEF AInv

\* A loop that has ended for a drive that is there.
LEMMA PolledDrive ==
    ASSUME AInv, Polled
    PROVE  /\ call # NoCall /\ call' = NoCall
           /\ call.drive = Selected /\ Selected \in Drives
           /\ call \in [name : Names, drive : Drives, number : Sectors, count : Int]
           /\ Selected \in present =>
                 /\ Status(Selected) = drive[Selected].status
                 /\ "ERR" \notin drive[Selected].status =>
                       "BSY" \notin drive[Selected].status
<1>1. call # NoCall /\ call' = NoCall /\ ~Loops(Status(Selected)) /\ StateTyped
  BY DEF Polled, AInv
<1>2. call.drive = Selected /\ Selected \in Drives
  BY <1>1 DEF AInv, CallSelected, StateTyped, Selected
<1>3. call \in [name : Names, drive : Drives, number : Sectors, count : Int]
  BY <1>1 DEF StateTyped, CallTyped
<1>4. ASSUME Selected \in present
      PROVE  Status(Selected) = drive[Selected].status
  BY <1>1, <1>2, <1>4, StatusOfPresent
<1> QED
  BY <1>1, <1>2, <1>3, <1>4 DEF Loops

\* What a call leaves when it returns and no drive works any more.
LEMMA ReturnKeeps ==
    ASSUME AInv, call' = NoCall,
           UNCHANGED <<present, regs, identified>>
    PROVE  HighIsZero' /\ CallSelected' /\ ReadSelected' /\ FlushWorks'
BY DEF AInv, HighIsZero, CallSelected, ReadSelected, FlushWorks

LEMMA FailsKeeps == ASSUME AInv, Fails PROVE AInv'
<1>1. /\ Polled /\ "ERR" \in Status(Selected)
      /\ UNCHANGED <<driveVars, regs, identified, history, counters>>
      /\ StateTyped /\ OneWorks
  BY DEF Fails, AInv
<1>2. call' = NoCall /\ call # NoCall
  BY <1>1, PolledDrive
<1>3. HighIsZero' /\ CallSelected' /\ ReadSelected' /\ FlushWorks'
  BY <1>1, <1>2, ReturnKeeps DEF driveVars
<1>4. CacheWritten'
  BY <1>1, CacheWrittenKept DEF AInv, driveVars
<1>5. StateTyped'
  BY <1>1, <1>2 DEF StateTyped, CallTyped, driveVars, history
<1>6. OneWorks'
  <2>1. ASSUME NEW d \in present PROVE ~Working(d)
    <3>1. CASE d = Selected
      <4>1. "ERR" \in drive[d].status
        BY <1>1, <3>1, PolledDrive
      <4> QED
        BY <1>1, <4>1 DEF OneWorks, Working
    <3>2. CASE d # Selected
      BY <1>1, <3>2 DEF OneWorks
    <3> QED
      BY <3>1, <3>2
  <2>2. present' = present /\ drive' = drive
    BY <1>1 DEF driveVars
  <2> QED
    BY <1>1, <2>1, <2>2 DEF OneWorks, Working
<1> QED
  BY <1>3, <1>4, <1>5, <1>6 DEF AInv

LEMMA ReadsKeeps == ASSUME AInv, Reads PROVE AInv'
<1>1. /\ Polled /\ "ERR" \notin Status(Selected)
      /\ drive' = AfterMoving(Selected, call.count)
      /\ UNCHANGED <<present, cache, medium, regs, identified, history, counters>>
      /\ StateTyped /\ OneWorks
  BY DEF Reads, AInv
<1>2. /\ call' = NoCall /\ call.count \in Int /\ Selected \in Drives
  BY <1>1, PolledDrive
<1>3. HighIsZero' /\ CallSelected' /\ ReadSelected' /\ FlushWorks'
  BY <1>1, <1>2, ReturnKeeps
<1>4. CacheWritten'
  BY <1>1, CacheWrittenKept DEF AInv
<1> DEFINE d == Selected
           left == Left(drive[d].words, WordsMoved(call.count))
<1>5. drive \in [Drives -> DriveStates]
  BY <1>1 DEF StateTyped, DriveStates
<1>6. left = 0
  <2>1. drive[d].words \in 0 .. SectorWords
    BY <1>2, <1>5 DEF DriveStates
  <2> QED
    BY <1>2, <2>1, NothingLeft
<1>7. drive' = [drive EXCEPT ![d] = Transferring(left)]
  BY <1>1 DEF AfterMoving
<1> HIDE DEF left
<1>8. /\ Transferring(left) \in DriveStates
      /\ Transferring(left).words = 0 /\ Transferring(left).status = {"DRDY"}
  BY <1>6, WordsNumbers DEF DriveStates, Transferring, Statuses
<1>9. /\ drive' \in [Drives -> DriveStates]
      /\ \A e \in Drives : drive'[e] = IF e = d THEN Transferring(left) ELSE drive[e]
  BY <1>5, <1>7, <1>8
<1>10. OneWorks'
  <2>1. present' = present /\ present \subseteq Drives
    BY <1>1 DEF StateTyped
  <2>2. "ERR" \notin {"DRDY"} /\ "BSY" \notin {"DRDY"}
    OBVIOUS
  <2>3. \A e \in present : e # Selected => ~Working(e)
    BY <1>1 DEF OneWorks
  <2>4. \A e \in present :
           /\ drive'[e].words = 0
           /\ ~("BSY" \in drive'[e].status /\ "ERR" \notin drive'[e].status)
    BY <1>8, <1>9, <2>1, <2>2, <2>3 DEF Working
  <2> QED
    BY <2>1, <2>4 DEF OneWorks, Working
<1>11. StateTyped'
  BY <1>1, <1>2, <1>9 DEF StateTyped, CallTyped, DriveStates, history
<1> QED
  BY <1>3, <1>4, <1>10, <1>11 DEF AInv

\* Flush returns without an error: the drive has written all of its sectors.
LEMMA FlushReturnsKeeps == ASSUME AInv, FlushReturns PROVE AInv'
<1>1. /\ Polled /\ "ERR" \notin Status(Selected) /\ call.name = "Flush"
      /\ safe' = [safe EXCEPT ![call.drive] = written[call.drive]]
      /\ UNCHANGED <<driveVars, regs, identified, written, counters>>
      /\ StateTyped /\ OneWorks /\ FlushWorks /\ CacheWritten
  BY DEF FlushReturns, AInv
<1>2. /\ call' = NoCall /\ call # NoCall /\ call.drive = Selected /\ Selected \in Drives
  BY <1>1, PolledDrive
<1>3. HighIsZero' /\ CallSelected' /\ ReadSelected' /\ FlushWorks'
  BY <1>1, <1>2, ReturnKeeps DEF driveVars
<1>4. Selected \in present
  <2>1. present # {}
    <3>1. "ERR" \in EmptyBus
      BY DEF EmptyBus
    <3> QED
      BY <1>1, <1>2, <3>1, StatusOfPresent
  <2> QED
    BY <1>1, <1>2, <2>1 DEF FlushWorks
<1>5. medium[Selected] = cache[Selected]
  <2>1. "ERR" \notin drive[Selected].status /\ "BSY" \notin drive[Selected].status
    BY <1>1, <1>4, PolledDrive
  <2> QED
    BY <1>1, <1>2, <1>4, <2>1 DEF FlushWorks
<1>6. /\ cache' = cache /\ medium' = medium /\ drive' = drive
      /\ present' = present /\ written' = written
  BY <1>1 DEF driveVars
<1>7. /\ \A d \in Drives : safe'[d] = IF d = Selected THEN written[d] ELSE safe[d]
      /\ safe' \in [Drives -> [Numbers -> SUBSET Contents]]
  BY <1>1, <1>2 DEF StateTyped
<1>8. CacheWritten'
  <2>1. ASSUME NEW d \in Drives, NEW n \in Numbers
        PROVE  /\ cache[d][Place(n)] \in written[d][n]
               /\ written[d][n] \subseteq safe'[d][n]
               /\ medium[d][Place(n)] \in safe'[d][n]
    <3>1. /\ cache[d][Place(n)] \in written[d][n]
          /\ written[d][n] \subseteq safe[d][n]
          /\ medium[d][Place(n)] \in safe[d][n]
      BY <1>1 DEF CacheWritten
    <3>2. CASE d = Selected
      BY <1>5, <1>7, <3>1, <3>2
    <3>3. CASE d # Selected
      BY <1>7, <3>1, <3>3
    <3> QED
      BY <3>2, <3>3
  <2> QED
    BY <1>6, <2>1 DEF CacheWritten, Place
<1>9. OneWorks'
  <2>1. \A d \in present : ~Working(d)
    <3>1. "ERR" \notin drive[Selected].status /\ "BSY" \notin drive[Selected].status
      BY <1>1, <1>4, PolledDrive
    <3>2. \A d \in present : drive[d].words = 0
      BY <1>1, <1>2 DEF FlushWorks
    <3> QED
      BY <1>1, <3>1, <3>2 DEF OneWorks, Working
  <2> QED
    BY <1>1, <1>6, <2>1 DEF OneWorks, Working
<1>10. StateTyped'
  BY <1>1, <1>2, <1>6, <1>7 DEF StateTyped, CallTyped
<1> QED
  BY <1>3, <1>8, <1>9, <1>10 DEF AInv

\* The drive that has finished a command, with words to move or without.
LEMMA AnswerKeeps ==
    ASSUME AInv, NEW d \in Drives, Busy(d), NEW r \in DriveStates,
           drive' = [drive EXCEPT ![d] = r],
           "ERR" \in r.status => r.words = 0,
           call.name = "Flush" => r.words = 0,
           UNCHANGED <<present, regs, identified, cache, call, history>>
    PROVE  /\ d = Selected /\ call # NoCall
           /\ drive' \in [Drives -> DriveStates]
           /\ drive'[d] = r
           /\ OneWorks' /\ CallSelected' /\ HighIsZero' /\ ReadSelected'
           /\ call.name = "Flush" => \A e \in present : drive'[e].words = 0
<1>1. /\ StateTyped /\ OneWorks /\ d \in present /\ call # NoCall
      /\ "BSY" \in drive[d].status /\ "ERR" \notin drive[d].status
  BY DEF AInv, Busy
<1>2. d = Selected
  BY <1>1 DEF OneWorks, Working
<1>3. drive \in [Drives -> DriveStates] /\ present \subseteq Drives
  BY <1>1 DEF StateTyped, DriveStates
<1>4. /\ drive' \in [Drives -> DriveStates]
      /\ \A e \in Drives : drive'[e] = IF e = d THEN r ELSE drive[e]
  BY <1>3
<1>5. OneWorks'
  <2>1. \A e \in present : e # d => drive'[e] = drive[e] /\ ~Working(e)
    BY <1>1, <1>2, <1>3, <1>4 DEF OneWorks
  <2>2. \A e \in present : "ERR" \in drive'[e].status => drive'[e].words = 0
    BY <1>1, <1>3, <1>4 DEF OneWorks
  <2>3. \A e \in present : e # d => ~Working(e)'
    BY <2>1 DEF Working
  <2> QED
    BY <1>1, <1>2, <2>2, <2>3 DEF OneWorks, Selected
<1>6. CallSelected' /\ HighIsZero' /\ ReadSelected'
  BY DEF AInv, CallSelected, Selected, HighIsZero, ReadSelected
<1>7. ASSUME call.name = "Flush", NEW e \in present PROVE drive'[e].words = 0
  BY <1>1, <1>3, <1>4, <1>7 DEF AInv, FlushWorks
<1> QED
  BY <1>1, <1>2, <1>4, <1>5, <1>6, <1>7

LEMMA AnswersKeeps == ASSUME AInv, NEW d \in Drives, Answers(d) PROVE AInv'
<1> DEFINE words == IF call.name = "Flush" THEN 0 ELSE SectorWords
           r == Transferring(words)
<1>1. /\ Busy(d) /\ drive' = [drive EXCEPT ![d] = r]
      /\ medium' = IF call.name = "Flush" THEN [medium EXCEPT ![d] = cache[d]]
                   ELSE medium
      /\ UNCHANGED <<present, cache, regs, identified, call, history, counters>>
      /\ StateTyped /\ CacheWritten
  BY DEF Answers, AInv
<1>2. words \in 0 .. SectorWords /\ (call.name = "Flush" => words = 0)
  BY SMT, WordsNumbers
<1> HIDE DEF words
<1>3. /\ r \in DriveStates /\ r.words = words
      /\ r.status \cap {"BSY", "ERR"} = {}
  BY <1>2 DEF Transferring, DriveStates, Statuses
<1> HIDE DEF r
<1>4. "ERR" \notin r.status
  BY <1>3
<1>5. /\ d = Selected /\ call # NoCall
      /\ drive' \in [Drives -> DriveStates]
      /\ OneWorks' /\ CallSelected' /\ HighIsZero' /\ ReadSelected'
      /\ call.name = "Flush" => \A e \in present : drive'[e].words = 0
  BY <1>1, <1>2, <1>3, <1>4, AnswerKeeps
<1>6. /\ medium' \in [Drives -> [Sectors -> Contents]]
      /\ \A e \in Drives :
            medium'[e] = IF call.name = "Flush" /\ e = d THEN cache[e] ELSE medium[e]
  BY <1>1 DEF StateTyped
<1>7. CacheWritten'
  <2>1. ASSUME NEW e \in Drives, NEW n \in Numbers
        PROVE  /\ cache[e][Place(n)] \in written[e][n]
               /\ written[e][n] \subseteq safe[e][n]
               /\ medium'[e][Place(n)] \in safe[e][n]
    BY <1>1, <1>6 DEF CacheWritten
  <2> QED
    BY <1>1, <2>1 DEF CacheWritten, Place, history
<1>8. StateTyped'
  BY <1>1, <1>5, <1>6 DEF StateTyped, CallTyped, DriveStates, history
<1>9. FlushWorks'
  <2>1. ASSUME call.name = "Flush"
        PROVE  medium'[d] = cache[d] /\ d \in present
    BY <1>1, <1>6, <2>1 DEF Busy
  <2> QED
    BY <1>1, <1>5, <2>1 DEF FlushWorks, Selected
<1> QED
  BY <1>5, <1>7, <1>8, <1>9 DEF AInv

LEMMA AnswersErrorKeeps == ASSUME AInv, NEW d \in Drives, AnswersError(d) PROVE AInv'
<1>1. PICK busy \in {{}, {"BSY"}} :
        drive' = [drive EXCEPT ![d] = [status |-> {"DRDY", "ERR"} \cup busy, words |-> 0]]
  BY DEF AnswersError
<1> DEFINE r == [status |-> {"DRDY", "ERR"} \cup busy, words |-> 0]
<1>2. /\ Busy(d) /\ StateTyped
      /\ UNCHANGED <<present, cache, medium, regs, identified, call, history, counters>>
  BY DEF AnswersError, AInv
<1>3. r \in DriveStates /\ r.words = 0 /\ "ERR" \in r.status
  <2>1. {"DRDY", "ERR"} \cup busy \in Statuses
    BY DEF Statuses
  <2> QED
    BY <2>1, WordsNumbers DEF DriveStates
<1>4. drive' = [drive EXCEPT ![d] = r]
  BY <1>1
<1> HIDE DEF r
<1>5. /\ d = Selected /\ call # NoCall
      /\ drive' \in [Drives -> DriveStates] /\ drive'[d] = r
      /\ OneWorks' /\ CallSelected' /\ HighIsZero' /\ ReadSelected'
      /\ call.name = "Flush" => \A e \in present : drive'[e].words = 0
  BY <1>2, <1>3, <1>4, AnswerKeeps
<1>6. CacheWritten'
  BY <1>2, CacheWrittenKept DEF AInv
<1>7. StateTyped'
  BY <1>2, <1>5 DEF StateTyped, CallTyped, DriveStates, history
<1>8. FlushWorks'
  <2>1. r.status \cap {"BSY", "ERR"} # {}
    BY <1>3
  <2> QED
    BY <1>2, <1>5, <2>1 DEF FlushWorks, Selected, Busy
<1> QED
  BY <1>5, <1>6, <1>7, <1>8 DEF AInv

LEMMA WritesBackKeeps ==
    ASSUME AInv, NEW d \in Drives, NEW s \in Sectors, WritesBack(d, s)
    PROVE  AInv'
<1>1. /\ medium' = [medium EXCEPT ![d][s] = cache[d][s]]
      /\ UNCHANGED <<present, drive, cache, regs, identified, call, history, counters>>
      /\ StateTyped
  BY DEF WritesBack, AInv
<1>2. /\ medium' \in [Drives -> [Sectors -> Contents]]
      /\ \A e \in Drives, t \in Sectors :
            medium'[e][t] = IF e = d /\ t = s THEN cache[e][t] ELSE medium[e][t]
  BY <1>1 DEF StateTyped
<1>3. StateTyped'
  BY <1>1, <1>2 DEF StateTyped, CallTyped, history
<1>4. OneWorks' /\ CallSelected' /\ HighIsZero' /\ ReadSelected'
  BY <1>1 DEF AInv, OneWorks, Working, CallSelected, Selected, HighIsZero, ReadSelected
<1>5. CacheWritten'
  <2>1. ASSUME NEW e \in Drives, NEW n \in Numbers
        PROVE  /\ cache[e][Place(n)] \in written[e][n]
               /\ written[e][n] \subseteq safe[e][n]
               /\ medium'[e][Place(n)] \in safe[e][n]
    <3>1. Place(n) \in Sectors
      BY NumbersAssumption, NumberBytes
    <3> QED
      BY <1>2, <3>1 DEF AInv, CacheWritten
  <2> QED
    BY <1>1, <2>1 DEF CacheWritten, Place, history
<1>6. FlushWorks'
  <2>1. ASSUME NEW e \in Drives, medium[e] = cache[e]
        PROVE  medium'[e] = cache[e]
    <3>1. \A t \in Sectors : medium'[e][t] = cache[e][t]
      BY <1>2, <2>1
    <3>2. medium'[e] \in [Sectors -> Contents] /\ cache[e] \in [Sectors -> Contents]
      BY <1>1, <1>2 DEF StateTyped
    <3> QED
      BY <3>1, <3>2
  <2>2. Selected' = Selected /\ Selected \in Drives
    BY <1>1 DEF Selected, StateTyped
  <2> QED
    BY <1>1, <2>1, <2>2 DEF AInv, FlushWorks
<1> QED
  BY <1>3, <1>4, <1>5, <1>6 DEF AInv

LEMMA PowerCutKeeps == ASSUME AInv, PowerCut PROVE AInv'
<1>1. /\ cache' = medium /\ drive' = [d \in Drives |-> Idle]
      /\ regs' \in BootRegisters /\ identified' = {} /\ call' = NoCall
      /\ written' = safe
      /\ UNCHANGED <<present, medium, safe, writes>>
      /\ StateTyped
  BY DEF PowerCut, AInv
<1>2. /\ drive' \in [Drives -> DriveStates]
      /\ \A d \in Drives : drive'[d].words = 0 /\ drive'[d].status = {"DRDY"}
  BY <1>1, WordsNumbers DEF Idle, DriveStates, Statuses
<1>3. regs' \in Registers
  BY <1>1, ByteAssumption DEF BootRegisters, Registers, Drives
<1>4. StateTyped'
  BY <1>1, <1>2, <1>3 DEF StateTyped, CallTyped, Registers, DriveStates
<1>5. OneWorks'
  <2>1. present' \subseteq Drives
    BY <1>1 DEF StateTyped
  <2>2. "BSY" \notin {"DRDY"} /\ "ERR" \notin {"DRDY"}
    OBVIOUS
  <2> QED
    BY <1>2, <2>1, <2>2 DEF OneWorks, Working
<1>6. CacheWritten'
  BY <1>1 DEF AInv, CacheWritten, Place
<1>7. CallSelected' /\ HighIsZero' /\ ReadSelected' /\ FlushWorks'
  BY <1>1 DEF CallSelected, HighIsZero, ReadSelected, FlushWorks
<1> QED
  BY <1>4, <1>5, <1>6, <1>7 DEF AInv

LEMMA InitAInv == Init => AInv
<1> SUFFICES ASSUME Init PROVE AInv
  OBVIOUS
<1>1. /\ drive \in [Drives -> DriveStates]
      /\ \A d \in Drives : drive[d].words = 0 /\ drive[d].status = {"DRDY"}
  BY WordsNumbers DEF Init, Idle, DriveStates, Statuses
<1>2. regs \in Registers
  BY ByteAssumption DEF Init, BootRegisters, Registers, Drives
<1>3. /\ cache = [d \in Drives |-> [s \in Sectors |-> Blank]] /\ medium = cache
      /\ written = [d \in Drives |-> [n \in Numbers |-> {Blank}]] /\ safe = written
      /\ call = NoCall /\ identified = {} /\ present \subseteq Drives
  BY DEF Init
<1>4. Blank \in Contents
  BY DEF Contents
<1>5. StateTyped
  BY <1>1, <1>2, <1>3, <1>4 DEF StateTyped, CallTyped, Registers, DriveStates
<1>6. OneWorks
  <2>1. "BSY" \notin {"DRDY"} /\ "ERR" \notin {"DRDY"}
    OBVIOUS
  <2> QED
    BY <1>1, <1>3, <2>1 DEF OneWorks, Working
<1>7. CacheWritten
  <2>1. \A n \in Numbers : Place(n) \in Sectors
    BY NumbersAssumption, NumberBytes
  <2> QED
    BY <1>3, <2>1 DEF CacheWritten
<1>8. CallSelected /\ HighIsZero /\ ReadSelected /\ FlushWorks
  BY <1>3 DEF CallSelected, HighIsZero, ReadSelected, FlushWorks
<1> QED
  BY <1>5, <1>6, <1>7, <1>8 DEF AInv

LEMMA DiskInvariant == Spec => []AInv
<1>1. ASSUME AInv, [Next]_vars PROVE AInv'
  <2>1. CASE Program
    BY <1>1, <2>1, IdentifyKeeps, ReadKeeps, WriteKeeps, FlushKeeps DEF Program
  <2>2. CASE Returns
    BY <1>1, <2>2, FailsKeeps, ReadsKeeps, FlushReturnsKeeps DEF Returns
  <2>3. CASE Drive
    BY <1>1, <2>3, AnswersKeeps, AnswersErrorKeeps DEF Drive
  <2>4. CASE \E d \in Drives, s \in Sectors : WritesBack(d, s)
    BY <1>1, <2>4, WritesBackKeeps
  <2>5. CASE PowerCut
    BY <1>1, <2>5, PowerCutKeeps
  <2>6. CASE UNCHANGED vars
    BY <1>1, <2>6
       DEF vars, AInv, StateTyped, CallTyped, OneWorks, Working, CallSelected, Selected,
           HighIsZero, ReadSelected, CacheWritten, Place, FlushWorks
  <2> QED
    BY <1>1, <2>1, <2>2, <2>3, <2>4, <2>5, <2>6 DEF Next
<1> QED
  BY <1>1, InitAInv, PTL DEF Spec

-----------------------------------------------------------------------------
(* The theorems *)

\* Between two calls no drive has a word that nobody read or waits for one
\* that nobody wrote, whatever numbers of bytes the callers gave.
THEOREM NothingLeftPending == Spec => []NothingPending
<1>1. ASSUME AInv PROVE NothingPending
  <2>1. StateTyped /\ OneWorks
    BY <1>1 DEF AInv
  <2>2. Statuses \subseteq SUBSET EmptyBus
    BY DEF Statuses, EmptyBus
  <2>3. call.name \in {"none", "Identify", "Read28", "Flush"}
    BY <2>1 DEF StateTyped, CallTyped, NoCall, Names
  <2>4. TypeOK
    BY <2>1, <2>2, <2>3 DEF StateTyped, TypeOK
  <2> QED
    BY <2>1, <2>4 DEF NothingPending, OneWorks, Working
<1> QED
  BY <1>1, DiskInvariant, PTL

\* What Read28 shows is what was written under the number, or, after a power
\* cut, what Flush had made safe or what was written since.
THEOREM ShownIsWritten == Spec => ReadsBack
<1>1. ASSUME AInv PROVE ShowsWritten
  <2> SUFFICES ASSUME Reads, call.name = "Read28", Selected \in present
               PROVE  \E content \in written[call.drive][call.number] :
                          \A i \in Offsets : i < call.count => Printed(i) = content[i]
    BY DEF ShowsWritten
  <2>1. call # NoCall /\ call.drive = Selected /\ Selected \in Drives
    BY <1>1, PolledDrive DEF Reads
  <2>2. call.number \in Numbers /\ SectorAt(regs) = Place(call.number)
    <3>1. /\ call.number \in Numbers /\ identified = Drives
          /\ regs.top = call.number[1] /\ regs.low = call.number[2]
          /\ regs.mid = call.number[3]
      BY <1>1, <2>1 DEF AInv, ReadSelected
    <3>2. regs.hi = 0
      BY <1>1, <3>1 DEF AInv, HighIsZero, Drives
    <3> QED
      BY <3>1, <3>2 DEF SectorAt, Place
  <2>3. cache[Selected][SectorAt(regs)] \in written[call.drive][call.number]
    BY <1>1, <2>1, <2>2 DEF AInv, CacheWritten
  <2> QED
    BY <2>3 DEF Printed
<1>2. AInv => [ShowsWritten]_vars
  BY <1>1
<1> QED
  BY <1>2, DiskInvariant, PTL DEF ReadsBack
=============================================================================
