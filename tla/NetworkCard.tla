----------------------------- MODULE NetworkCard -----------------------------
(***************************************************************************)
(* The am79c973 network card and its driver (amd_am79c973.cpp).            *)
(*                                                                         *)
(* They share two rings of buffer descriptors.  Bit 31 of a descriptor's   *)
(* flags says who owns it: the card fills the receive descriptors it owns  *)
(* and gives them to the driver, the driver gives full send descriptors to *)
(* the card.  Each side keeps its own place in each ring.                  *)
(*                                                                         *)
(* HandleInterrupt runs with interrupts off but beside the card: it reads  *)
(* the card's status, empties the receive ring and writes the status back, *)
(* which clears the flags that are set in what it writes.                  *)
(*                                                                         *)
(* The receive buffers lie 8 bytes apart, rounded up to 16, so a frame     *)
(* that comes in overwrites the frames waiting in the buffers around its   *)
(* own: the bytes are modelled with the addresses the code computes.       *)
(*                                                                         *)
(* The card itself is external: what the code relies on it to do.          *)
(***************************************************************************)
EXTENDS Integers, Sequences, FiniteSets

CONSTANTS
    Ring,           \* 8 descriptors in each ring
    MaxFrames,      \* bound: frames that come in
    RecvBuffers,    \* the address of recvBuffers
    FrameSizes      \* bytes of a frame, checksum and all: 64 at least

ASSUME RingAssumption == Ring \in Nat \ {0}
ASSUME FramesAssumption == MaxFrames \in Nat
ASSUME BuffersAssumption == RecvBuffers \in Nat /\ FrameSizes \subseteq Nat \ {0}

Slots == 0 .. Ring - 1

\* recvBuffers is [2*1024+15][8]: &recvBuffers[i] is 8 bytes behind the one
\* before it, and is rounded up to 16.
Address(i) == 16 * ((RecvBuffers + 8 * i + 15) \div 16)
Buffer(i, size) == Address(i) .. Address(i) + size - 1
Bytes == UNION {Buffer(i, size) : i \in Slots, size \in FrameSizes}

VARIABLES
    recvOwner,      \* [Slots -> "card" or "driver"], bit 31
    recvFrame,      \* [Slots -> the frame it was given for, and whether the
                    \*          flags say that it came whole and without error]
    recvSize,       \* [Slots -> flags & 0xFFF]
    memory,         \* [Bytes -> the frame the byte is of, 0 for none]
    currentRecvBuffer,
    cardRecv,       \* the card's place in the receive ring
    sendOwner,      \* the same for the send ring
    currentSendBuffer,
    cardSend,
    power,          \* the card: "stopped", "starting" (INIT written), "running"
    csr0,           \* the flags in the card's status
    step,           \* where HandleInterrupt is: "out", "read", "receive", "ack"
    temp,           \* the status it has read
    arrived,        \* frames that came in so far, good or bad, kept or lost
    shown,          \* per frame Receive printed: its number, and the frames
                    \* whose bytes were printed in its place
    sent,           \* frames the card has put on the wire
    raced           \* a frame came in after Receive had looked for the last
                    \* time and before its flag was acknowledged

bufferVars == <<recvFrame, recvSize, memory>>
recvVars == <<recvOwner, bufferVars, currentRecvBuffer, cardRecv, arrived, shown>>
sendVars == <<sendOwner, currentSendBuffer, cardSend, sent>>
handlerVars == <<step, temp>>
cardVars == <<power, csr0>>
networkVars == <<recvVars, sendVars, handlerVars, cardVars, raced>>

Flags == {"IDON", "RINT", "TINT", "MISS"}
NoFrame == [id |-> 0, good |-> FALSE]

\* The size in the flags that the driver writes, 0x7FF.
BufferSize == 2047

\* A frame that was shown, and the frames whose bytes were.
Entries == [id : Nat, from : SUBSET Nat]

NetworkTypeOK ==
    /\ recvOwner \in [Slots -> {"card", "driver"}]
    /\ recvFrame \in [Slots -> [id : Nat, good : BOOLEAN]]
    /\ recvSize \in [Slots -> FrameSizes \cup {BufferSize}]
    /\ \A i \in Slots : recvOwner[i] = "driver" => recvSize[i] \in FrameSizes
    /\ memory \in [Bytes -> Nat]
    /\ currentRecvBuffer \in Slots /\ cardRecv \in Slots
    /\ sendOwner \in [Slots -> {"card", "driver"}]
    /\ currentSendBuffer \in Slots /\ cardSend \in Slots
    /\ power \in {"stopped", "starting", "running"}
    /\ csr0 \subseteq Flags /\ temp \subseteq Flags
    /\ step \in {"out", "read", "receive", "ack"}
    /\ arrived \in Nat /\ shown \in Seq(Entries) /\ sent \in Nat
    /\ raced \in BOOLEAN

\* The constructor: receive descriptors belong to the card, send descriptors
\* to the driver.
NetworkInit ==
    /\ recvOwner = [i \in Slots |-> "card"]
    /\ recvFrame = [i \in Slots |-> NoFrame]
    /\ recvSize = [i \in Slots |-> BufferSize]
    /\ memory = [b \in Bytes |-> 0]
    /\ currentRecvBuffer = 0 /\ cardRecv = 0
    /\ sendOwner = [i \in Slots |-> "driver"]
    /\ currentSendBuffer = 0 /\ cardSend = 0
    /\ power = "stopped" /\ csr0 = {}
    /\ step = "out" /\ temp = {}
    /\ arrived = 0 /\ shown = <<>> /\ sent = 0
    /\ raced = FALSE

\* (i + 1) % 8
Following(i) == (i + 1) % Ring

-----------------------------------------------------------------------------
(* The driver *)

\* Activate writes INIT and, without waiting, START.
ActivateCard ==
    /\ power' = "starting"
    /\ UNCHANGED <<recvVars, sendVars, handlerVars, csr0, raced>>

SendDescriptor == currentSendBuffer

\* Send looks at nothing: it takes the next descriptor whoever owns it.
Send ==
    /\ currentSendBuffer' = Following(currentSendBuffer)
    /\ sendOwner' = [sendOwner EXCEPT ![SendDescriptor] = "card"]
    /\ UNCHANGED <<recvVars, handlerVars, cardVars, cardSend, sent, raced>>

HandlerBegins ==
    /\ step = "out"
    /\ step' = "read"
    /\ UNCHANGED <<recvVars, sendVars, cardVars, temp, raced>>

ReadStatus ==
    /\ step = "read"
    /\ temp' = csr0
    /\ step' = IF "RINT" \in csr0 THEN "receive" ELSE "ack"
    /\ raced' = (raced /\ "RINT" \notin csr0)
    /\ UNCHANGED <<recvVars, sendVars, cardVars>>

\* Mutant of Continue: Receive takes one frame for each interrupt.
ContinueNever == "ack"

Continue == "receive"

\* Mutant of GivenBack: the descriptor stays with the driver.
NotGivenBack == recvOwner

\* The flags written back have bit 31 set.
GivenBack == [recvOwner EXCEPT ![currentRecvBuffer] = "card"]

\* Mutant of ShownBuffer: the place in the ring has moved on already.
ShownBufferLate == Following(currentRecvBuffer)

ShownBuffer == currentRecvBuffer

\* What is printed lies at the buffer's address, whoever has written it; four
\* bytes of checksum are left away.
ShownSize(size) == IF size > 64 THEN size - 4 ELSE size
Printed ==
    {memory[b] : b \in Buffer(ShownBuffer, ShownSize(recvSize[currentRecvBuffer]))}

\* Receive: one turn of its loop, which prints a frame that is whole and
\* free of errors, or its end, at the first descriptor of the card.
Receive ==
    /\ step = "receive"
    /\ recvOwner[currentRecvBuffer] = "driver"
    /\ LET frame == recvFrame[currentRecvBuffer]
       IN  shown' = IF frame.good
                    THEN Append(shown, [id |-> frame.id, from |-> Printed])
                    ELSE shown
    /\ recvSize' = [recvSize EXCEPT ![currentRecvBuffer] = BufferSize]
    /\ recvOwner' = GivenBack
    /\ currentRecvBuffer' = Following(currentRecvBuffer)
    /\ step' = Continue
    /\ UNCHANGED <<recvFrame, memory, cardRecv, arrived, sendVars, cardVars, temp, raced>>

ReceiveEnds ==
    /\ step = "receive"
    /\ recvOwner[currentRecvBuffer] = "card"
    /\ step' = "ack"
    /\ UNCHANGED <<recvVars, sendVars, cardVars, temp, raced>>

\* Mutant of Acknowledged: all flags are cleared, whatever was read.
AcknowledgedAll == {}

\* A flag is cleared when it is written as 1.
Acknowledged == csr0 \ temp

Acknowledge ==
    /\ step = "ack"
    /\ csr0' = Acknowledged
    /\ temp' = {}
    /\ step' = "out"
    /\ UNCHANGED <<recvVars, sendVars, power, raced>>

HandlerStep == ReadStatus \/ Receive \/ ReceiveEnds \/ Acknowledge

-----------------------------------------------------------------------------
(* The card *)

CardStarts ==
    /\ power = "starting"
    /\ power' = "running"
    /\ csr0' = csr0 \cup {"IDON"}
    /\ UNCHANGED <<recvVars, sendVars, handlerVars, raced>>

CardKeeps == recvOwner[cardRecv] = "card"

\* The card writes the frame to the address of its descriptor and says in
\* the flags what Receive reads there: the frame's size, good or bad.
FrameArrives(good, size) ==
    /\ power = "running" /\ arrived < MaxFrames
    /\ arrived' = arrived + 1
    /\ IF CardKeeps
       THEN /\ recvFrame' = [recvFrame EXCEPT ![cardRecv] =
                                [id |-> arrived + 1, good |-> good]]
            /\ recvSize' = [recvSize EXCEPT ![cardRecv] = size]
            /\ memory' = [b \in Bytes |-> IF b \in Buffer(cardRecv, size)
                                          THEN arrived + 1 ELSE memory[b]]
            /\ recvOwner' = [recvOwner EXCEPT ![cardRecv] = "driver"]
            /\ cardRecv' = Following(cardRecv)
            /\ csr0' = csr0 \cup {"RINT"}
            /\ raced' = (raced \/ (step = "ack" /\ "RINT" \in temp))
       ELSE /\ csr0' = csr0 \cup {"MISS"}
            /\ UNCHANGED <<bufferVars, recvOwner, cardRecv, raced>>
    /\ UNCHANGED <<currentRecvBuffer, shown, sendVars, handlerVars, power>>

CardSends ==
    /\ power = "running" /\ sendOwner[cardSend] = "card"
    /\ sent' = sent + 1
    /\ sendOwner' = [sendOwner EXCEPT ![cardSend] = "driver"]
    /\ cardSend' = Following(cardSend)
    /\ csr0' = csr0 \cup {"TINT"}
    /\ UNCHANGED <<recvVars, handlerVars, currentSendBuffer, power, raced>>

CardStep ==
    \/ CardStarts \/ CardSends
    \/ \E good \in BOOLEAN, size \in FrameSizes : FrameArrives(good, size)

-----------------------------------------------------------------------------
(* Properties *)

\* From the driver's place to the card's place, and nowhere else, the
\* descriptors are the driver's; when the two are at the same place, all of
\* them or none.
Between(i) ==
    IF currentRecvBuffer < cardRecv
    THEN currentRecvBuffer <= i /\ i < cardRecv
    ELSE currentRecvBuffer <= i \/ i < cardRecv

\* The two sides never lose track of each other in the receive ring, though
\* neither ever sees the other's place: the driver looks next at the
\* descriptor of the frame that has waited longest.
RingInSync ==
    IF currentRecvBuffer = cardRecv
    THEN \A i, j \in Slots : recvOwner[i] = recvOwner[j]
    ELSE \A i \in Slots : recvOwner[i] = "driver" <=> Between(i)

Pending == {i \in Slots : recvOwner[i] = "driver"}
PendingFrames ==
    [k \in 1 .. Cardinality(Pending) |->
        recvFrame[(currentRecvBuffer + k - 1) % Ring]]

\* The ring is a queue of turns: every frame that finds room has one, in the
\* order of arrival.  What is shown then are bytes of frames that wait, of the
\* frame itself when it waits alone, and never of one that had its turn.
Queue == INSTANCE FrameQueue
            WITH Length <- Ring, Numbers <- 1 .. MaxFrames, queue <- PendingFrames
ImplementsQueue == Queue!Spec

\* Nothing is left when Receive ends: a frame that waits has its interrupt
\* still to come, or it raced with the acknowledgment and waits for the next
\* frame.
FramesAnnounced ==
    step = "out" /\ Pending # {} => "RINT" \in csr0 \/ raced

\* An interrupt for a frame gives every waiting frame its turn.
FramesLookedAt == step = "out" /\ "RINT" \in csr0 ~> Pending = {}
=============================================================================
