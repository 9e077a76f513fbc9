------------------------------ MODULE Boot_proofs ------------------------------
(***************************************************************************)
(* Proofs about Boot and NetworkCard, for every size of the ring, every    *)
(* bus and any number of frames and interrupts: driver and card stay in    *)
(* step in the receive ring and implement FrameQueue, no waiting frame is  *)
(* left without its interrupt, every interrupt is acknowledged, and the    *)
(* scan of the bus gives each card one driver with its own ports.  And     *)
(* about GlobalDescriptorTable: what is decoded is what was encoded.       *)
(***************************************************************************)
EXTENDS Boot, FiniteSetTheorems, SequenceTheorems, TLAPS

-----------------------------------------------------------------------------
(* The receive ring *)

RingTyped ==
    /\ recvOwner \in [Slots -> {"card", "driver"}]
    /\ currentRecvBuffer \in Slots /\ cardRecv \in Slots

\* What (i + 1) % Ring comes to.
LEMMA FollowingSlot ==
    ASSUME NEW i \in Slots
    PROVE  /\ Following(i) = IF i = Ring - 1 THEN 0 ELSE i + 1
           /\ Following(i) \in Slots
<1>1. Ring \in Nat /\ Ring > 0 /\ i \in Nat /\ i < Ring
  BY SMT, RingAssumption DEF Slots
<1>2. CASE i = Ring - 1
  BY SMT, <1>1, <1>2 DEF Following, Slots
<1>3. CASE i # Ring - 1
  <2>1. (i + 1) % Ring = i + 1
    BY SMT, <1>1, <1>3
  <2> QED
    BY SMT, <1>1, <1>3, <2>1 DEF Following, Slots
<1> QED
  BY <1>2, <1>3

\* The card fills the descriptor at its place.
LEMMA CardInSync ==
    ASSUME RingTyped, RingInSync, recvOwner[cardRecv] = "card",
           recvOwner' = [recvOwner EXCEPT ![cardRecv] = "driver"],
           cardRecv' = Following(cardRecv), UNCHANGED currentRecvBuffer
    PROVE  RingTyped' /\ RingInSync'
<1>1. RingTyped'
  BY FollowingSlot DEF RingTyped
<1>2. /\ currentRecvBuffer \in Nat /\ currentRecvBuffer < Ring
      /\ cardRecv \in Nat /\ cardRecv < Ring
      /\ Ring \in Nat /\ Ring > 0
      /\ \A i \in Slots : i \in Nat /\ i < Ring
  BY SMT, RingAssumption DEF RingTyped, Slots
<1>3. cardRecv' = IF cardRecv = Ring - 1 THEN 0 ELSE cardRecv + 1
  BY FollowingSlot DEF RingTyped
<1>4. \A i \in Slots : recvOwner'[i] = IF i = cardRecv THEN "driver" ELSE recvOwner[i]
  BY DEF RingTyped
<1>5. CASE currentRecvBuffer = cardRecv
  <2>1. \A i \in Slots : recvOwner[i] = "card"
    BY <1>5 DEF RingInSync, RingTyped
  <2>2. \A i \in Slots : recvOwner'[i] = "driver" <=> i = cardRecv
    BY <1>4, <2>1
  <2>3. CASE cardRecv' = currentRecvBuffer
    <3>1. \A i \in Slots : i = cardRecv
      BY SMT, <1>2, <1>3, <1>5, <2>3
    <3> QED
      BY <1>1, <2>2, <2>3, <3>1 DEF RingInSync
  <2>4. CASE cardRecv' # currentRecvBuffer
    <3>1. \A i \in Slots : i = cardRecv <=> Between(i)'
      BY SMT, <1>2, <1>3, <1>5, <2>4 DEF Between
    <3> QED
      BY <1>1, <2>2, <2>4, <3>1 DEF RingInSync
  <2> QED
    BY <2>3, <2>4
<1>6. CASE currentRecvBuffer # cardRecv
  <2>1. \A i \in Slots : recvOwner[i] = "driver" <=> Between(i)
    BY <1>6 DEF RingInSync
  <2>2. \A i \in Slots : recvOwner'[i] = "driver" <=> Between(i) \/ i = cardRecv
    BY <1>4, <2>1
  <2>3. CASE cardRecv' = currentRecvBuffer
    <3>1. \A i \in Slots : Between(i) \/ i = cardRecv
      BY SMT, <1>2, <1>3, <1>6, <2>3 DEF Between
    <3> QED
      BY <1>1, <2>2, <2>3, <3>1 DEF RingInSync
  <2>4. CASE cardRecv' # currentRecvBuffer
    <3>1. \A i \in Slots : Between(i) \/ i = cardRecv <=> Between(i)'
      BY SMT, <1>2, <1>3, <1>6, <2>4 DEF Between
    <3> QED
      BY <1>1, <2>2, <2>4, <3>1 DEF RingInSync
  <2> QED
    BY <2>3, <2>4
<1> QED
  BY <1>1, <1>5, <1>6

\* Receive gives the descriptor at the driver's place back.
LEMMA DriverInSync ==
    ASSUME RingTyped, RingInSync, recvOwner[currentRecvBuffer] = "driver",
           recvOwner' = GivenBack,
           currentRecvBuffer' = Following(currentRecvBuffer), UNCHANGED cardRecv
    PROVE  RingTyped' /\ RingInSync'
<1>1. RingTyped'
  BY FollowingSlot DEF RingTyped, GivenBack
<1>2. /\ currentRecvBuffer \in Nat /\ currentRecvBuffer < Ring
      /\ cardRecv \in Nat /\ cardRecv < Ring
      /\ Ring \in Nat /\ Ring > 0
      /\ \A i \in Slots : i \in Nat /\ i < Ring
  BY SMT, RingAssumption DEF RingTyped, Slots
<1>3. currentRecvBuffer' =
          IF currentRecvBuffer = Ring - 1 THEN 0 ELSE currentRecvBuffer + 1
  BY FollowingSlot DEF RingTyped
<1>4. \A i \in Slots :
          recvOwner'[i] = IF i = currentRecvBuffer THEN "card" ELSE recvOwner[i]
  BY DEF RingTyped, GivenBack
<1>5. \A i \in Slots : recvOwner[i] = "driver" <=>
          currentRecvBuffer = cardRecv \/ Between(i)
  BY DEF RingInSync, RingTyped
<1>6. \A i \in Slots : recvOwner'[i] = "driver" <=>
          i # currentRecvBuffer /\ (currentRecvBuffer = cardRecv \/ Between(i))
  BY <1>4, <1>5
<1>7. CASE currentRecvBuffer' = cardRecv
  <2>1. \A i \in Slots :
            ~(i # currentRecvBuffer /\ (currentRecvBuffer = cardRecv \/ Between(i)))
    BY SMT, <1>2, <1>3, <1>7 DEF Between
  <2>2. \A i \in Slots : recvOwner'[i] = "card"
    BY <1>1, <1>6, <2>1 DEF RingTyped
  <2> QED
    BY <1>1, <1>7, <2>2 DEF RingInSync
<1>8. CASE currentRecvBuffer' # cardRecv
  <2>1. \A i \in Slots :
            i # currentRecvBuffer /\ (currentRecvBuffer = cardRecv \/ Between(i))
            <=> Between(i)'
    BY SMT, <1>2, <1>3, <1>8 DEF Between
  <2> QED
    BY <1>1, <1>6, <1>8, <2>1 DEF RingInSync
<1> QED
  BY <1>7, <1>8

-----------------------------------------------------------------------------
(* Frames and their interrupts *)

\* A frame waits only for an interrupt that comes: its flag is set, and what
\* the handler is about to write back does not clear it; or Receive has not
\* ended; or it raced.
Announced ==
    Pending # {} =>
        /\ step \in {"out", "read"} => "RINT" \in csr0 \/ raced
        /\ step = "ack" => raced \/ ("RINT" \in csr0 /\ "RINT" \notin temp)

\* When Receive ends at a descriptor of the card, no frame waits at all.
LEMMA ReceiveEndsEmpty ==
    ASSUME RingTyped, RingInSync, recvOwner[currentRecvBuffer] = "card"
    PROVE  Pending = {}
<1>1. CASE currentRecvBuffer = cardRecv
  BY <1>1 DEF RingInSync, RingTyped, Pending
<1>2. CASE currentRecvBuffer # cardRecv
  <2>1. Between(currentRecvBuffer)
    BY SMT DEF Between, RingTyped, Slots
  <2> QED
    BY <1>2, <2>1 DEF RingInSync, RingTyped
<1> QED
  BY <1>1, <1>2

RingInv == RingTyped /\ RingInSync /\ Announced /\ step \in {"out", "read", "receive", "ack"}

LEMMA InitRing == NetworkInit => RingInv
<1> SUFFICES ASSUME NetworkInit PROVE RingInv
  OBVIOUS
<1>1. 0 \in Slots
  BY SMT, RingAssumption DEF Slots
<1>2. RingTyped /\ RingInSync
  BY <1>1 DEF NetworkInit, RingTyped, RingInSync
<1>3. Pending = {}
  BY DEF NetworkInit, Pending
<1> QED
  BY <1>2, <1>3 DEF RingInv, Announced, NetworkInit

\* What leaves the receive ring, the handler's place and its flags alone.
LEMMA RingKept ==
    ASSUME RingInv, UNCHANGED <<recvOwner, currentRecvBuffer, cardRecv, step, temp, raced>>,
           csr0' = csr0 \/ \E flag \in Flags : csr0' = csr0 \cup {flag}
    PROVE  RingInv'
BY DEF RingInv, RingTyped, RingInSync, Between, Announced, Pending

LEMMA HandlerKeepsRing == ASSUME RingInv, HandlerStep PROVE RingInv'
<1>1. CASE ReadStatus
  BY <1>1 DEF ReadStatus, RingInv, RingTyped, RingInSync, Between, Announced, Pending,
     recvVars, sendVars, cardVars
<1>2. CASE Receive
  <2>1. RingTyped' /\ RingInSync'
    BY <1>2, DriverInSync DEF Receive, RingInv
  <2> QED
    BY <1>2, <2>1 DEF Receive, Continue, RingInv, Announced
<1>3. CASE ReceiveEnds
  <2>1. Pending = {}
    BY <1>3, ReceiveEndsEmpty DEF ReceiveEnds, RingInv
  <2> QED
    BY <1>3, <2>1 DEF ReceiveEnds, RingInv, RingTyped, RingInSync, Between, Announced,
       Pending, recvVars
<1>4. CASE Acknowledge
  BY <1>4 DEF Acknowledge, Acknowledged, RingInv, RingTyped, RingInSync, Between,
     Announced, Pending, recvVars
<1> QED
  BY <1>1, <1>2, <1>3, <1>4 DEF HandlerStep

LEMMA CardKeepsRing == ASSUME RingInv, CardStep PROVE RingInv'
<1>1. CASE CardStarts
  BY <1>1, RingKept DEF CardStarts, recvVars, handlerVars, Flags
<1>2. CASE CardSends
  BY <1>2, RingKept DEF CardSends, recvVars, handlerVars, Flags
<1>3. ASSUME NEW good \in BOOLEAN, NEW size \in FrameSizes, FrameArrives(good, size)
      PROVE  RingInv'
  <2>1. CASE CardKeeps
    <3>1. RingTyped' /\ RingInSync'
      BY <1>3, <2>1, CardInSync DEF FrameArrives, CardKeeps, RingInv
    <3> QED
      BY <1>3, <2>1, <3>1 DEF FrameArrives, RingInv, Announced, handlerVars
  <2>2. CASE ~CardKeeps
    BY <1>3, <2>2, RingKept DEF FrameArrives, handlerVars, Flags
  <2> QED
    BY <2>1, <2>2
<1> QED
  BY <1>1, <1>2, <1>3 DEF CardStep

\* What an action of Boot does to the network card and its driver.
NetworkNext ==
    \/ ActivateCard \/ Send
    \/ HandlerBegins \/ HandlerStep
    \/ CardStep
    \/ UNCHANGED networkVars

LEMMA NextNetwork == [Next]_vars => NetworkNext
BY DEF Next, NetworkNext, KernelMain, BuildSegments, InstallInterrupts, InstallSyscalls,
   AddKeyboard, AddMouse, ScanFunction, ScanEnds, ActivateAll, SendHello,
   ActivateInterrupts, Raise, TakeInterrupt, CardHandler, EndOfInterrupt, Card, vars

LEMMA NetworkKeepsRing == ASSUME RingInv, NetworkNext PROVE RingInv'
<1>1. CASE ActivateCard \/ Send \/ UNCHANGED networkVars
  <2>1. UNCHANGED <<recvVars, step, temp, csr0, raced>>
    BY <1>1 DEF ActivateCard, Send, networkVars, handlerVars, cardVars
  <2> QED
    BY <2>1, RingKept DEF recvVars
<1>2. CASE HandlerBegins
  BY <1>2 DEF HandlerBegins, RingInv, RingTyped, RingInSync, Between, Announced, Pending,
     recvVars, cardVars
<1> QED
  BY <1>1, <1>2, HandlerKeepsRing, CardKeepsRing DEF NetworkNext

-----------------------------------------------------------------------------
(* Types *)

\* The bytes of a frame are bytes of memory, and what is printed of it is some
\* of them.
LEMMA BufferBytes ==
    ASSUME NEW i \in Slots, NEW size \in FrameSizes
    PROVE  /\ Buffer(i, size) \subseteq Bytes
           /\ Buffer(i, ShownSize(size)) \subseteq Buffer(i, size)
           /\ Buffer(i, ShownSize(size)) # {}
<1>1. size \in Nat /\ size > 0 /\ i \in Nat /\ RecvBuffers \in Nat
  BY SMT, BuffersAssumption, RingAssumption DEF Slots
<1>2. Address(i) \in Int
  BY SMT, <1>1 DEF Address
<1>3. ShownSize(size) \in Nat /\ ShownSize(size) <= size /\ ShownSize(size) > 0
  BY SMT, <1>1 DEF ShownSize
<1>4. Address(i) \in Buffer(i, ShownSize(size))
  BY SMT, <1>2, <1>3 DEF Buffer
<1>5. Buffer(i, ShownSize(size)) \subseteq Buffer(i, size)
  BY SMT, <1>1, <1>2, <1>3 DEF Buffer
<1>6. Buffer(i, size) \subseteq Bytes
  BY DEF Bytes
<1> QED
  BY <1>4, <1>5, <1>6

LEMMA PrintedTyped ==
    ASSUME NetworkTypeOK, recvOwner[currentRecvBuffer] = "driver"
    PROVE  Printed \in SUBSET Nat
<1>1. /\ currentRecvBuffer \in Slots /\ recvSize[currentRecvBuffer] \in FrameSizes
      /\ memory \in [Bytes -> Nat]
  BY DEF NetworkTypeOK
<1>2. Buffer(currentRecvBuffer, ShownSize(recvSize[currentRecvBuffer])) \subseteq Bytes
  BY <1>1, BufferBytes
<1> QED
  BY <1>1, <1>2 DEF Printed, ShownBuffer

LEMMA NetworkTyped == ASSUME NetworkTypeOK, NetworkNext PROVE NetworkTypeOK'
<1> USE DEF NetworkTypeOK
<1>1. CASE UNCHANGED networkVars
  BY <1>1 DEF networkVars, recvVars, bufferVars, sendVars, handlerVars, cardVars
<1>2. CASE ActivateCard
  BY <1>2 DEF ActivateCard, recvVars, bufferVars, sendVars, handlerVars
<1>3. CASE Send
  BY <1>3, FollowingSlot DEF Send, SendDescriptor, recvVars, bufferVars, handlerVars, cardVars
<1>4. CASE HandlerBegins
  BY <1>4 DEF HandlerBegins, recvVars, bufferVars, sendVars, cardVars
<1>5. CASE ReadStatus
  BY <1>5 DEF ReadStatus, recvVars, bufferVars, sendVars, cardVars
<1>6. CASE Receive
  <2>1. shown' \in Seq(Entries)
    <3> DEFINE f == recvFrame[currentRecvBuffer]
               entry == [id |-> f.id, from |-> Printed]
    <3>1. f.id \in Nat /\ Printed \in SUBSET Nat
      BY <1>6, PrintedTyped DEF Receive
    <3>2. entry \in Entries
      BY <3>1 DEF Entries
    <3>3. shown' = IF f.good THEN Append(shown, entry) ELSE shown
      BY <1>6 DEF Receive
    <3> HIDE DEF f, entry
    <3>4. Append(shown, entry) \in Seq(Entries)
      BY <3>2, AppendProperties
    <3> QED
      BY <3>3, <3>4
  <2>2. recvOwner' \in [Slots -> {"card", "driver"}] /\ currentRecvBuffer' \in Slots
    BY <1>6, FollowingSlot DEF Receive, GivenBack
  <2>3. /\ recvSize' \in [Slots -> FrameSizes \cup {BufferSize}]
        /\ \A i \in Slots : recvOwner'[i] = "driver" => recvSize'[i] \in FrameSizes
    BY <1>6 DEF Receive, GivenBack
  <2> QED
    BY <1>6, <2>1, <2>2, <2>3 DEF Receive, Continue, sendVars, cardVars
<1>7. CASE ReceiveEnds
  BY <1>7 DEF ReceiveEnds, recvVars, bufferVars, sendVars, cardVars
<1>8. CASE Acknowledge
  BY <1>8 DEF Acknowledge, Acknowledged, recvVars, bufferVars, sendVars
<1>9. CASE CardStarts
  BY <1>9 DEF CardStarts, Flags, recvVars, bufferVars, sendVars, handlerVars
<1>10. CASE CardSends
  <2>1. sent' \in Nat
    BY SMT, <1>10 DEF CardSends
  <2>2. cardSend' \in Slots
    BY <1>10, FollowingSlot DEF CardSends
  <2> QED
    BY <1>10, <2>1, <2>2 DEF CardSends, Flags, recvVars, bufferVars, handlerVars
<1>11. ASSUME NEW good \in BOOLEAN, NEW size \in FrameSizes, FrameArrives(good, size)
       PROVE  NetworkTypeOK'
  <2>1. arrived' \in Nat /\ arrived + 1 \in Nat
    BY SMT, <1>11 DEF FrameArrives
  <2>2. recvFrame' \in [Slots -> [id : Nat, good : BOOLEAN]]
    <3>1. [id |-> arrived + 1, good |-> good] \in [id : Nat, good : BOOLEAN]
      BY <2>1
    <3>2. /\ cardRecv \in Slots /\ recvFrame \in [Slots -> [id : Nat, good : BOOLEAN]]
          /\ \/ UNCHANGED recvFrame
             \/ recvFrame' = [recvFrame EXCEPT ![cardRecv] =
                                 [id |-> arrived + 1, good |-> good]]
      BY <1>11 DEF FrameArrives, bufferVars
    <3> QED
      BY <3>1, <3>2
  <2>3. raced' \in BOOLEAN
    BY <1>11 DEF FrameArrives
  <2>4. cardRecv' \in Slots /\ recvOwner' \in [Slots -> {"card", "driver"}]
    BY <1>11, FollowingSlot DEF FrameArrives
  <2>5. /\ recvSize' \in [Slots -> FrameSizes \cup {BufferSize}]
        /\ \A i \in Slots : recvOwner'[i] = "driver" => recvSize'[i] \in FrameSizes
    BY <1>11 DEF FrameArrives, bufferVars
  <2>6. memory' \in [Bytes -> Nat]
    BY <1>11, <2>1 DEF FrameArrives, bufferVars
  <2> QED
    BY <1>11, <2>1, <2>2, <2>3, <2>4, <2>5, <2>6
       DEF FrameArrives, Flags, sendVars, handlerVars
<1> QED
  BY <1>1, <1>2, <1>3, <1>4, <1>5, <1>6, <1>7, <1>8, <1>9, <1>10, <1>11
     DEF NetworkNext, HandlerStep, CardStep

\* What TypeOK says of kernelMain and of the interrupt controllers.
BootTyped ==
    /\ bus \in Buses /\ stage \in Stages
    /\ place \in (0 .. Devices) \X (0 .. Functions - 1)
    /\ \A n \in DOMAIN handlers : n \in 0 .. 255
    /\ room \in 0 .. MaxCards
    /\ requested \subseteq 0 .. 15 /\ requests \in 0 .. MaxRequests
    /\ inService.master \subseteq 0 .. 7 /\ inService.slave \subseteq 8 .. 15
    /\ interrupt \in {None} \cup 0 .. 15

LEMMA HandlersTyped ==
    ASSUME \A n \in DOMAIN handlers : n \in 0 .. 255, NEW driver,
           driver.line \in 0 .. 255, Register(driver)
    PROVE  \A n \in DOMAIN handlers' : n \in 0 .. 255
<1>1. Number(driver.line) \in 0 .. 255
  BY SMT DEF Number, HardwareInterruptOffset
<1>2. DOMAIN handlers' = {Number(driver.line)} \cup DOMAIN handlers
  BY DEF Register
<1> QED
  BY <1>1, <1>2

LEMMA KernelTyped == ASSUME BootTyped, KernelMain PROVE BootTyped'
<1> USE DEF BootTyped, Stages, picVars
<1>1. CASE BuildSegments
  BY <1>1 DEF BuildSegments, Then
<1>5. CASE InstallInterrupts
  <2>1. DOMAIN handlers' = {}
    BY <1>5 DEF InstallInterrupts
  <2> QED
    BY <1>5, <2>1 DEF InstallInterrupts, Then
<1>2. CASE InstallSyscalls \/ AddKeyboard \/ AddMouse
  <2>1. 128 \in 0 .. 255 /\ 1 \in 0 .. 255 /\ 12 \in 0 .. 255
    BY SMT
  <2>2. \A n \in DOMAIN handlers' : n \in 0 .. 255
    BY <1>2, <2>1, HandlersTyped DEF InstallSyscalls, AddKeyboard, AddMouse, Syscalls,
       Keyboard, Mouse, Driver
  <2>3. /\ stage' \in Stages
        /\ UNCHANGED <<picVars, bus, place, room>>
    BY <1>2 DEF InstallSyscalls, AddKeyboard, AddMouse, Then
  <2> QED
    BY <2>2, <2>3
<1>3. CASE ScanFunction
  <2>1. place[1] \in 0 .. Devices - 1 /\ place[2] \in 0 .. Functions - 1
    BY SMT, <1>3, BootAssumption DEF ScanFunction
  <2>2. place \in Places
    BY <2>1 DEF Places
  <2>3. place' \in (0 .. Devices) \X (0 .. Functions - 1)
    <3>1. NumFunctions \in {1, Functions}
      BY DEF NumFunctions
    <3>2. /\ place[2] + 1 < NumFunctions => place[2] + 1 \in 0 .. Functions - 1
          /\ place[1] + 1 \in 0 .. Devices /\ 0 \in 0 .. Functions - 1
          /\ place[1] \in 0 .. Devices
      BY SMT, <2>1, <3>1, BootAssumption
    <3> QED
      BY <1>3, <3>2 DEF ScanFunction, NextPlace
  <2>4. CASE Answer(place) # Absent /\ Constructs(Answer(place))
    <3>1. Answer(place).line \in 0 .. 255
      BY <2>2, <2>4, ConfigurationAssumption DEF Answer
    <3>2. \A n \in DOMAIN handlers' : n \in 0 .. 255
      BY <1>3, <2>4, <3>1, HandlersTyped DEF ScanFunction, SelectsDriver, Driver
    <3>3. room' \in 0 .. MaxCards
      BY SMT, <1>3, <2>4, BootAssumption DEF ScanFunction, Constructs
    <3> QED
      BY <1>3, <2>3, <3>2, <3>3 DEF ScanFunction
  <2>5. CASE ~(Answer(place) # Absent /\ Constructs(Answer(place)))
    BY <1>3, <2>3, <2>5 DEF ScanFunction
  <2> QED
    BY <2>4, <2>5
<1>4. CASE ScanEnds \/ ActivateAll \/ SendHello \/ ActivateInterrupts
  <2>1. /\ stage' \in Stages
        /\ UNCHANGED <<picVars, bus, place, handlers, room>>
    BY <1>4 DEF ScanEnds, ActivateAll, SendHello, ActivateInterrupts, Then
  <2> QED
    BY <2>1
<1> QED
  BY <1>1, <1>2, <1>3, <1>4, <1>5 DEF KernelMain

-----------------------------------------------------------------------------
(* The interrupt controllers *)

\* In service is the line that is being handled, and the cascade for a line
\* of the slave; nothing else is.
InServiceExact ==
    inService = IF interrupt = None THEN [master |-> {}, slave |-> {}]
                ELSE [master |-> {MasterLine(interrupt)},
                      slave |-> {interrupt} \cap 8 .. 15]

LEMMA Takes ==
    ASSUME BootTyped, InServiceExact, NEW line \in 0 .. 15, TakeInterrupt(line)
    PROVE  BootTyped' /\ InServiceExact'
<1>1. MasterLine(line) \in 0 .. 7 /\ {line} \cap 8 .. 15 \subseteq 8 .. 15
  BY SMT DEF MasterLine, Cascade
<1>2. line # None
  BY SMT DEF None
<1>3. inService' = [master |-> {MasterLine(line)}, slave |-> {line} \cap 8 .. 15]
  BY DEF TakeInterrupt, InServiceExact
<1> QED
  BY <1>1, <1>2, <1>3 DEF TakeInterrupt, BootTyped, InServiceExact, bootVars

LEMMA Acknowledges ==
    ASSUME BootTyped, InServiceExact, EndOfInterrupt
    PROVE  BootTyped' /\ InServiceExact'
<1>1. \A n \in Int : Rank(n) <= Rank(n)
  BY SMT DEF Rank, Cascade
<1>2. interrupt \in 0 .. 15 /\ interrupt # None
  BY DEF EndOfInterrupt, BootTyped
<1>3. interrupt \in Int /\ MasterLine(interrupt) \in Int
  BY SMT, <1>2 DEF MasterLine, Cascade
<1>4. Served({MasterLine(interrupt)}) = {} /\ Served({interrupt}) = {}
  BY <1>1, <1>3 DEF Served
<1>5. EndOfSlave(inService.slave) = {}
  <2>1. CASE interrupt >= 8
    <3>1. inService.slave = {interrupt}
      <4>1. interrupt \in 8 .. 15
        BY SMT, <1>2, <2>1
      <4> QED
        BY <1>2, <4>1 DEF InServiceExact
    <3> QED
      BY <1>4, <2>1, <3>1 DEF EndOfSlave
  <2>2. CASE ~(interrupt >= 8)
    <3>1. interrupt \notin 8 .. 15
      BY SMT, <1>2, <2>2
    <3> QED
      BY <1>2, <2>2, <3>1 DEF InServiceExact, EndOfSlave
  <2> QED
    BY <2>1, <2>2
<1>6. inService' = [master |-> {}, slave |-> {}]
  BY <1>2, <1>4, <1>5 DEF EndOfInterrupt, InServiceExact
<1>7. interrupt' = None /\ UNCHANGED <<bootVars, requested, requests>>
  BY DEF EndOfInterrupt
<1> QED
  BY <1>6, <1>7 DEF BootTyped, InServiceExact, bootVars

LEMMA PicTyped ==
    ASSUME BootTyped, InServiceExact, [Next]_vars
    PROVE  BootTyped' /\ InServiceExact'
<1>1. CASE UNCHANGED <<bootVars, picVars>>
  BY <1>1 DEF BootTyped, InServiceExact, bootVars, picVars
<1>2. CASE KernelMain
  <2>1. UNCHANGED picVars
    BY <1>2 DEF KernelMain, BuildSegments, InstallInterrupts, InstallSyscalls,
       AddKeyboard, AddMouse, ScanFunction, ScanEnds, ActivateAll, SendHello,
       ActivateInterrupts
  <2> QED
    BY <1>2, <2>1, KernelTyped DEF InServiceExact, picVars
<1>3. ASSUME NEW line \in OtherLines, Raise(line) PROVE BootTyped' /\ InServiceExact'
  <2>1. line \in 0 .. 15
    BY SMT, <1>3 DEF OtherLines
  <2>2. requests' \in 0 .. MaxRequests
    BY SMT, <1>3, BootAssumption DEF Raise, BootTyped
  <2> QED
    BY <1>3, <2>1, <2>2 DEF Raise, BootTyped, InServiceExact, bootVars
<1> QED
  BY <1>1, <1>2, <1>3, Takes, Acknowledges DEF Next, CardHandler, Card, vars

-----------------------------------------------------------------------------
(* The theorems *)

IInv == NetworkTypeOK /\ RingInv /\ BootTyped /\ InServiceExact

LEMMA InitIInv == Init => IInv
<1> SUFFICES ASSUME Init PROVE IInv
  OBVIOUS
<1>1. RingInv
  BY InitRing DEF Init
<1>2. NetworkTypeOK
  <2>1. 0 \in Nat /\ 0 \in Slots /\ <<>> \in Seq(Entries)
    BY SMT, RingAssumption DEF Slots
  <2>2. /\ recvFrame \in [Slots -> [id : Nat, good : BOOLEAN]]
        /\ memory \in [Bytes -> Nat]
    BY <2>1 DEF Init, NetworkInit, NoFrame
  <2> QED
    BY <2>1, <2>2 DEF Init, NetworkInit, NetworkTypeOK
<1>3. BootTyped
  <2>1. 0 \in 0 .. Devices /\ 0 \in 0 .. Functions - 1 /\ 0 \in 0 .. MaxRequests
    BY SMT, BootAssumption
  <2> QED
    BY <2>1 DEF Init, BootTyped, Stages
<1>4. InServiceExact
  BY DEF Init, InServiceExact
<1> QED
  BY <1>1, <1>2, <1>3, <1>4 DEF IInv

LEMMA NextIInv == IInv /\ [Next]_vars => IInv'
BY NextNetwork, NetworkKeepsRing, NetworkTyped, PicTyped DEF IInv

\* The inductive invariant of the kernel's start and of its interrupts.
THEOREM BootInvariant == Spec => []IInv
BY InitIInv, NextIInv, PTL DEF Spec

\* Driver and card never lose each other in the receive ring, however many
\* descriptors it has and however frames, bad ones and full rings follow.
THEOREM RingStaysInSync == Spec => []RingInSync
<1>1. IInv => RingInSync
  BY DEF IInv, RingInv
<1> QED
  BY <1>1, BootInvariant, PTL

\* Outside of the handler a frame waits only with its interrupt pending, or
\* when it came between Receive's end and the acknowledgment.
THEOREM EveryFrameAnnounced == Spec => []FramesAnnounced
<1>1. IInv => FramesAnnounced
  BY DEF IInv, RingInv, Announced, FramesAnnounced
<1> QED
  BY <1>1, BootInvariant, PTL

\* Every interrupt is acknowledged at the controllers that wait for it, and
\* every variable keeps its type.
THEOREM InterruptsAcknowledged == Spec => []EverythingAcknowledged
<1>1. IInv => EverythingAcknowledged
  BY DEF IInv, BootTyped, InServiceExact, TypeOK, EverythingAcknowledged
<1> QED
  BY <1>1, BootInvariant, PTL

-----------------------------------------------------------------------------
(* The receive ring is a queue *)

Frames == [id : Nat, good : BOOLEAN]

\* The slot of the k-th frame that waits.
Place(k) == (currentRecvBuffer + k - 1) % Ring

\* The card's place is as far ahead of the driver's as frames wait.
RingCounted ==
    /\ Cardinality(Pending) \in 0 .. Ring
    /\ cardRecv = (currentRecvBuffer + Cardinality(Pending)) % Ring

\* Frames are numbered as they come in.
FramesNumbered ==
    /\ \A i \in Slots : recvFrame[i].id <= arrived
    /\ \A k \in DOMAIN shown : shown[k].id <= arrived

\* In the buffer of a frame that waits lie bytes of frames that wait, its own
\* and of frames behind it.
BuffersHold ==
    \A k \in 1 .. Cardinality(Pending) :
        /\ recvSize[Place(k)] \in FrameSizes
        /\ \A b \in Buffer(Place(k), recvSize[Place(k)]) :
               \E j \in k .. Cardinality(Pending) : memory[b] = PendingFrames[j].id

QueueInv == RingCounted /\ FramesNumbered /\ BuffersHold

LEMMA AroundRing ==
    ASSUME NEW x \in 0 .. Ring + Ring - 1
    PROVE  /\ x % Ring = IF x < Ring THEN x ELSE x - Ring
           /\ x % Ring \in Slots
<1>1. Ring \in Nat /\ Ring > 0 /\ x \in Nat /\ x < Ring + Ring
  BY SMT, RingAssumption
<1>2. CASE x < Ring
  <2>1. x % Ring = x
    BY SMT, <1>1, <1>2
  <2> QED
    BY SMT, <1>1, <1>2, <2>1 DEF Slots
<1>3. CASE ~(x < Ring)
  <2>1. x = (Ring * 1) + (x - Ring) /\ x - Ring \in Nat /\ x - Ring < Ring
    BY SMT, <1>1, <1>3
  <2>2. x % Ring = x - Ring
    BY SMT, <1>1, <2>1
  <2> QED
    BY SMT, <1>1, <1>3, <2>1, <2>2 DEF Slots
<1> QED
  BY <1>2, <1>3

LEMMA SlotSets ==
    ASSUME NEW P \in SUBSET Slots
    PROVE  IsFiniteSet(P) /\ Cardinality(P) \in 0 .. Ring
<1>1. Ring \in Nat /\ 0 \in Int /\ Ring - 1 \in Int /\ Ring > 0
  BY SMT, RingAssumption
<1>2. IsFiniteSet(Slots) /\ Cardinality(Slots) = Ring
  <2>1. IsFiniteSet(0 .. Ring - 1) /\ Cardinality(0 .. Ring - 1) = Ring - 1 - 0 + 1
    BY <1>1, FS_Interval
  <2> QED
    BY SMT, <1>1, <2>1 DEF Slots
<1>3. IsFiniteSet(P) /\ Cardinality(P) <= Ring
  BY <1>2, FS_Subset
<1>4. Cardinality(P) \in Nat
  BY <1>3, FS_CardinalityType
<1> QED
  BY SMT, <1>1, <1>3, <1>4

LEMMA PendingFinite == IsFiniteSet(Pending) /\ Cardinality(Pending) \in 0 .. Ring
BY SlotSets DEF Pending

\* The waiting frames as a sequence, with no index out of the ring.
LEMMA PendingIsSequence ==
    ASSUME NetworkTypeOK
    PROVE  /\ PendingFrames \in Seq(Frames)
           /\ Len(PendingFrames) = Cardinality(Pending)
           /\ \A k \in 1 .. Cardinality(Pending) :
                 Place(k) \in Slots /\ PendingFrames[k] = recvFrame[Place(k)]
<1> DEFINE n == Cardinality(Pending)
<1>1. n \in 0 .. Ring /\ Ring \in Nat /\ n \in Nat
  BY SMT, PendingFinite, RingAssumption
<1> HIDE DEF n
<1>2. ASSUME NEW k \in 1 .. n PROVE Place(k) \in Slots
  <2>1. currentRecvBuffer + k - 1 \in 0 .. Ring + Ring - 1
    BY SMT, <1>1 DEF NetworkTypeOK, Slots
  <2> QED
    BY <1>1, <2>1, AroundRing DEF Place
<1>3. ASSUME NEW k \in 1 .. n PROVE recvFrame[Place(k)] \in Frames
  BY <1>2 DEF NetworkTypeOK, Frames
<1>4. PendingFrames = [k \in 1 .. n |-> recvFrame[Place(k)]]
  BY DEF PendingFrames, Place, n
<1>5. PendingFrames \in [1 .. n -> Frames]
  BY <1>3, <1>4
<1>6. PendingFrames \in Seq(Frames)
  BY <1>1, <1>5, SeqDef
<1>7. Len(PendingFrames) = n
  BY <1>1, <1>4
<1> QED
  BY <1>2, <1>4, <1>6, <1>7 DEF n

\* A frame that finds room is the last one of the queue.
LEMMA ArriveAppends ==
    ASSUME NetworkTypeOK, NetworkTypeOK', QueueInv,
           NEW good \in BOOLEAN, NEW size \in FrameSizes, FrameArrives(good, size),
           CardKeeps
    PROVE  /\ Len(PendingFrames) < Ring
           /\ PendingFrames' = Append(PendingFrames, [id |-> arrived + 1, good |-> good])
           /\ RingCounted' /\ BuffersHold'
<1> DEFINE n == Cardinality(Pending)
           frame == [id |-> arrived + 1, good |-> good]
<1>1. /\ recvFrame' = [recvFrame EXCEPT ![cardRecv] = frame]
      /\ recvOwner' = [recvOwner EXCEPT ![cardRecv] = "driver"]
      /\ cardRecv' = Following(cardRecv)
      /\ UNCHANGED currentRecvBuffer
  BY DEF FrameArrives
<1>2. /\ cardRecv \in Slots /\ currentRecvBuffer \in Slots
      /\ recvOwner \in [Slots -> {"card", "driver"}]
      /\ recvFrame \in [Slots -> Frames]
      /\ frame \in Frames
  <2>1. arrived + 1 \in Nat
    BY SMT DEF NetworkTypeOK
  <2> QED
    BY <2>1 DEF NetworkTypeOK, Frames
<1>3. cardRecv \notin Pending /\ Pending' = Pending \cup {cardRecv}
  BY <1>1, <1>2 DEF CardKeeps, Pending
<1>4. Cardinality(Pending') = n + 1
  BY <1>3, PendingFinite, FS_AddElement
<1>5. /\ n \in Nat /\ n < Ring /\ Ring \in Nat /\ Ring > 0
      /\ Cardinality(Pending)' = n + 1
      /\ Cardinality(Pending)' \in 0 .. Ring
  <2>1. Cardinality(Pending') \in 0 .. Ring
    BY SlotSets DEF Pending
  <2> QED
    BY SMT, <1>4, <2>1, PendingFinite, RingAssumption
<1> HIDE DEF n, frame
<1>6. cardRecv = (currentRecvBuffer + n) % Ring
  BY DEF QueueInv, RingCounted, n
<1>7. /\ currentRecvBuffer \in Nat /\ currentRecvBuffer < Ring
      /\ cardRecv \in Nat /\ cardRecv < Ring
  BY SMT, <1>2, <1>5 DEF Slots
<1>8. cardRecv = IF currentRecvBuffer + n < Ring THEN currentRecvBuffer + n
                 ELSE currentRecvBuffer + n - Ring
  <2>1. currentRecvBuffer + n \in 0 .. Ring + Ring - 1
    BY SMT, <1>5, <1>7
  <2> QED
    BY <1>6, <1>5, <1>7, <2>1, AroundRing
<1>9. RingCounted'
  <2>1. currentRecvBuffer + (n + 1) \in 0 .. Ring + Ring - 1
    BY SMT, <1>5, <1>7
  <2>2. (currentRecvBuffer + (n + 1)) % Ring =
          IF currentRecvBuffer + (n + 1) < Ring THEN currentRecvBuffer + (n + 1)
          ELSE currentRecvBuffer + (n + 1) - Ring
    BY <1>5, <1>7, <1>8, <2>1, AroundRing
  <2>3. cardRecv' = IF cardRecv = Ring - 1 THEN 0 ELSE cardRecv + 1
    BY <1>1, <1>2, FollowingSlot
  <2>4. cardRecv' = (currentRecvBuffer + (n + 1)) % Ring
    BY SMT, <1>5, <1>7, <1>8, <2>2, <2>3
  <2> QED
    BY <1>1, <1>5, <2>4 DEF RingCounted
<1>10. ASSUME NEW k \in 1 .. n PROVE Place(k) \in Slots /\ Place(k) # cardRecv
  <2>1. currentRecvBuffer + k - 1 \in 0 .. Ring + Ring - 1
    BY SMT, <1>5, <1>7
  <2>2. /\ Place(k) \in Slots
        /\ Place(k) = IF currentRecvBuffer + k - 1 < Ring THEN currentRecvBuffer + k - 1
                      ELSE currentRecvBuffer + k - 1 - Ring
    BY <1>5, <1>7, <1>8, <2>1, AroundRing DEF Place
  <2> QED
    BY SMT, <1>5, <1>7, <1>8, <2>2
<1>11. Place(n + 1) = cardRecv
  <2>1. currentRecvBuffer + (n + 1) - 1 = currentRecvBuffer + n
    BY SMT, <1>5, <1>7
  <2> QED
    BY <1>6, <2>1 DEF Place
<1>12. /\ PendingFrames \in Seq(Frames) /\ Len(PendingFrames) = n
       /\ \A k \in 1 .. n : PendingFrames[k] = recvFrame[Place(k)]
  BY PendingIsSequence DEF n
<1>13. \A k : Place(k)' = Place(k)
  BY <1>1 DEF Place
<1>14. /\ PendingFrames' \in Seq(Frames) /\ Len(PendingFrames') = n + 1
       /\ \A k \in 1 .. n + 1 : PendingFrames'[k] = recvFrame'[Place(k)]
  <2>1. /\ PendingFrames' = [k \in 1 .. n + 1 |-> recvFrame'[Place(k)]]
    BY <1>1, <1>5 DEF PendingFrames, Place
  <2>2. ASSUME NEW k \in 1 .. n + 1 PROVE recvFrame'[Place(k)] \in Frames
    <3>1. Place(k) \in Slots
      <4>1. k \in 1 .. n \/ k = n + 1
        BY SMT, <1>5
      <4> QED
        BY <1>2, <1>10, <1>11, <4>1
    <3> QED
      BY <1>1, <1>2, <3>1
  <2>3. PendingFrames' \in [1 .. n + 1 -> Frames] /\ n + 1 \in Nat
    BY <1>5, <2>1, <2>2
  <2>4. PendingFrames' \in Seq(Frames)
    BY <2>3, SeqDef
  <2>5. Len(PendingFrames') = n + 1
    BY <2>1, <2>3
  <2> QED
    BY <2>1, <2>4, <2>5
<1>15. PendingFrames' = Append(PendingFrames, frame)
  <2>1. /\ Append(PendingFrames, frame) \in Seq(Frames)
        /\ Len(Append(PendingFrames, frame)) = n + 1
        /\ \A k \in 1 .. n : Append(PendingFrames, frame)[k] = PendingFrames[k]
        /\ Append(PendingFrames, frame)[n + 1] = frame
    BY <1>2, <1>12, AppendProperties
  <2>2. ASSUME NEW k \in 1 .. n + 1
        PROVE  PendingFrames'[k] = Append(PendingFrames, frame)[k]
    <3>1. CASE k = n + 1
      BY <1>1, <1>2, <1>11, <1>14, <2>1, <3>1
    <3>2. CASE k \in 1 .. n
      BY <1>1, <1>2, <1>10, <1>12, <1>14, <2>1, <3>2
    <3>3. k \in 1 .. n \/ k = n + 1
      BY SMT, <1>5
    <3> QED
      BY <3>1, <3>2, <3>3
  <2> QED
    BY <1>14, <2>1, <2>2, SeqEqual
<1>16. BuffersHold'
  <2>1. /\ recvSize' = [recvSize EXCEPT ![cardRecv] = size]
        /\ memory' = [b \in Bytes |-> IF b \in Buffer(cardRecv, size)
                                      THEN arrived + 1 ELSE memory[b]]
        /\ recvSize \in [Slots -> FrameSizes \cup {BufferSize}]
    BY DEF FrameArrives, NetworkTypeOK
  <2>2. /\ \A j \in 1 .. n : PendingFrames'[j] = PendingFrames[j]
        /\ PendingFrames'[n + 1].id = arrived + 1
    <3>1. n + 1 \in 1 .. n + 1 /\ \A j \in 1 .. n : j \in 1 .. n + 1
      BY SMT, <1>5
    <3>2. PendingFrames'[n + 1] = frame
      BY <1>1, <1>2, <1>11, <1>14, <3>1
    <3>3. \A j \in 1 .. n : recvFrame'[Place(j)] = recvFrame[Place(j)]
      BY <1>1, <1>2, <1>10
    <3> QED
      BY <1>12, <1>14, <3>1, <3>2, <3>3 DEF frame
  <2>4. ASSUME NEW k \in 1 .. n + 1 PROVE recvSize'[Place(k)] \in FrameSizes
    <3>1. CASE k = n + 1
      BY <1>2, <1>11, <2>1, <3>1
    <3>2. CASE k \in 1 .. n
      <4>1. recvSize[Place(k)] \in FrameSizes
        BY <3>2 DEF QueueInv, BuffersHold, n
      <4> QED
        BY <1>2, <1>10, <2>1, <3>2, <4>1
    <3>3. k = n + 1 \/ k \in 1 .. n
      BY SMT, <1>5
    <3> QED
      BY <3>1, <3>2, <3>3
  <2>3. ASSUME NEW k \in 1 .. n + 1, NEW b \in Buffer(Place(k), recvSize'[Place(k)])
        PROVE  \E j \in k .. n + 1 : memory'[b] = PendingFrames'[j].id
    <3>1. CASE k = n + 1
      <4>1. recvSize'[Place(k)] = size /\ Place(k) = cardRecv
        BY <1>2, <1>11, <2>1, <3>1
      <4>2. b \in Buffer(cardRecv, size) /\ b \in Bytes
        BY <1>2, <2>3, <4>1, BufferBytes
      <4>3. memory'[b] = arrived + 1
        BY <2>1, <4>2
      <4>4. n + 1 \in k .. n + 1
        BY SMT, <1>5, <3>1
      <4> QED
        BY <2>2, <4>3, <4>4
    <3>2. CASE k \in 1 .. n
      <4>1. recvSize'[Place(k)] = recvSize[Place(k)] /\ Place(k) \in Slots
        BY <1>2, <1>10, <2>1, <3>2
      <4>2. PICK j \in k .. n : memory[b] = PendingFrames[j].id
        BY <2>3, <3>2, <4>1 DEF QueueInv, BuffersHold, n
      <4>4. recvSize[Place(k)] \in FrameSizes
        BY <3>2 DEF QueueInv, BuffersHold, n
      <4>5. b \in Bytes
        BY <2>3, <4>1, <4>4, BufferBytes
      <4>6. CASE b \in Buffer(cardRecv, size)
        <5>1. memory'[b] = arrived + 1 /\ n + 1 \in k .. n + 1
          BY SMT, <1>5, <2>1, <4>5, <4>6
        <5> QED
          BY <2>2, <5>1
      <4>7. CASE b \notin Buffer(cardRecv, size)
        <5>1. memory'[b] = memory[b]
          BY <2>1, <4>5, <4>7
        <5>2. j \in k .. n + 1 /\ j \in 1 .. n
          BY SMT, <1>5
        <5> QED
          BY <2>2, <4>2, <5>1, <5>2
      <4> QED
        BY <4>6, <4>7
    <3>3. k = n + 1 \/ k \in 1 .. n
      BY SMT, <1>5
    <3> QED
      BY <3>1, <3>2, <3>3
  <2> QED
    BY <1>5, <1>13, <2>3, <2>4 DEF BuffersHold
<1> QED
  BY <1>5, <1>9, <1>12, <1>15, <1>16 DEF frame

\* One turn of Receive's loop looks at the first frame of the queue.
LEMMA ReceiveTakesFirst ==
    ASSUME NetworkTypeOK, NetworkTypeOK', QueueInv, Receive
    PROVE  /\ PendingFrames # <<>>
           /\ PendingFrames' = Tail(PendingFrames)
           /\ Head(PendingFrames) = recvFrame[currentRecvBuffer]
           /\ RingCounted' /\ BuffersHold'
           /\ \A b \in Buffer(currentRecvBuffer, recvSize[currentRecvBuffer]) :
                 \E j \in DOMAIN PendingFrames : memory[b] = PendingFrames[j].id
           /\ recvSize[currentRecvBuffer] \in FrameSizes
<1> DEFINE n == Cardinality(Pending)
<1>1. /\ recvOwner[currentRecvBuffer] = "driver"
      /\ recvOwner' = [recvOwner EXCEPT ![currentRecvBuffer] = "card"]
      /\ currentRecvBuffer' = Following(currentRecvBuffer)
      /\ UNCHANGED <<cardRecv, recvFrame>>
  BY DEF Receive, GivenBack
<1>2. /\ cardRecv \in Slots /\ currentRecvBuffer \in Slots
      /\ recvOwner \in [Slots -> {"card", "driver"}]
      /\ recvFrame \in [Slots -> Frames]
  BY DEF NetworkTypeOK, Frames
<1>3. currentRecvBuffer \in Pending /\ Pending' = Pending \ {currentRecvBuffer}
  BY <1>1, <1>2 DEF Pending
<1>4. Cardinality(Pending') = n - 1
  BY <1>3, PendingFinite, FS_RemoveElement
<1>5. /\ n \in Nat /\ n <= Ring /\ n > 0 /\ Ring \in Nat /\ Ring > 0
      /\ Cardinality(Pending)' = n - 1
      /\ Cardinality(Pending)' \in 0 .. Ring
  <2>1. n # 0
    BY <1>3, PendingFinite, FS_EmptySet
  <2> QED
    BY SMT, <1>4, <2>1, PendingFinite, RingAssumption
<1> HIDE DEF n
<1>6. cardRecv = (currentRecvBuffer + n) % Ring
  BY DEF QueueInv, RingCounted, n
<1>7. currentRecvBuffer \in Nat /\ currentRecvBuffer < Ring
  BY SMT, <1>2, <1>5 DEF Slots
<1>8. currentRecvBuffer' = IF currentRecvBuffer = Ring - 1 THEN 0
                           ELSE currentRecvBuffer + 1
  BY <1>1, <1>2, FollowingSlot
<1>9. RingCounted'
  <2>1. /\ currentRecvBuffer + n \in 0 .. Ring + Ring - 1
        /\ currentRecvBuffer' + (n - 1) \in 0 .. Ring + Ring - 1
    BY SMT, <1>5, <1>7, <1>8
  <2>2. (currentRecvBuffer + n) % Ring =
          IF currentRecvBuffer + n < Ring THEN currentRecvBuffer + n
          ELSE currentRecvBuffer + n - Ring
    BY <1>5, <1>7, <1>8, <2>1, AroundRing
  <2>3. (currentRecvBuffer' + (n - 1)) % Ring =
          IF currentRecvBuffer' + (n - 1) < Ring THEN currentRecvBuffer' + (n - 1)
          ELSE currentRecvBuffer' + (n - 1) - Ring
    BY <1>5, <1>7, <1>8, <2>1, AroundRing
  <2>4. (currentRecvBuffer + n) % Ring = (currentRecvBuffer' + (n - 1)) % Ring
    BY SMT, <1>5, <1>7, <1>8, <2>2, <2>3
  <2> QED
    BY <1>1, <1>5, <1>6, <2>4 DEF RingCounted
<1>10. ASSUME NEW k \in 1 .. n - 1
       PROVE  /\ Place(k)' = Place(k + 1) /\ k + 1 \in 1 .. n
              /\ Place(k + 1) # currentRecvBuffer
  <2>1. /\ currentRecvBuffer + (k + 1) - 1 \in 0 .. Ring + Ring - 1
        /\ currentRecvBuffer' + k - 1 \in 0 .. Ring + Ring - 1
        /\ k + 1 \in 1 .. n
    BY SMT, <1>5, <1>7, <1>8
  <2>2. Place(k + 1) = IF currentRecvBuffer + (k + 1) - 1 < Ring
                       THEN currentRecvBuffer + (k + 1) - 1
                       ELSE currentRecvBuffer + (k + 1) - 1 - Ring
    BY <1>5, <1>7, <1>8, <2>1, AroundRing DEF Place
  <2>3. Place(k)' = IF currentRecvBuffer' + k - 1 < Ring
                    THEN currentRecvBuffer' + k - 1
                    ELSE currentRecvBuffer' + k - 1 - Ring
    BY <1>5, <1>7, <1>8, <2>1, AroundRing DEF Place
  <2> QED
    BY SMT, <1>5, <1>7, <1>8, <2>1, <2>2, <2>3
<1>11. Place(1) = currentRecvBuffer /\ 1 \in 1 .. n
  <2>1. /\ currentRecvBuffer + 1 - 1 = currentRecvBuffer
        /\ currentRecvBuffer \in 0 .. Ring + Ring - 1 /\ 1 \in 1 .. n
    BY SMT, <1>5, <1>7
  <2>2. currentRecvBuffer % Ring = currentRecvBuffer
    BY <1>7, <2>1, AroundRing
  <2> QED
    BY <2>1, <2>2 DEF Place
<1>12. /\ PendingFrames \in Seq(Frames) /\ Len(PendingFrames) = n
       /\ \A k \in 1 .. n : /\ Place(k) \in Slots
                             /\ PendingFrames[k] = recvFrame[Place(k)]
  BY PendingIsSequence DEF n
<1>13. PendingFrames # <<>> /\ Head(PendingFrames) = recvFrame[currentRecvBuffer]
  <2>1. PendingFrames # <<>>
    BY SMT, <1>5, <1>12
  <2> QED
    BY <1>11, <1>12, <2>1
<1>14. /\ PendingFrames' \in Seq(Frames) /\ Len(PendingFrames') = n - 1
       /\ \A k \in 1 .. n - 1 : PendingFrames'[k] = recvFrame[Place(k + 1)]
  <2>1. PendingFrames' = [k \in 1 .. n - 1 |-> recvFrame[Place(k)']]
    BY <1>1, <1>5 DEF PendingFrames, Place
  <2>2. ASSUME NEW k \in 1 .. n - 1 PROVE recvFrame[Place(k)'] \in Frames
    BY <1>2, <1>10, <1>12
  <2>3. PendingFrames' \in [1 .. n - 1 -> Frames]
    BY <2>1, <2>2
  <2>4. n - 1 \in Nat
    BY SMT, <1>5
  <2>5. PendingFrames' \in Seq(Frames) /\ Len(PendingFrames') = n - 1
    BY <2>1, <2>3, <2>4, SeqDef
  <2> QED
    BY <1>10, <2>1, <2>5
<1>15. PendingFrames' = Tail(PendingFrames)
  <2>1. /\ Tail(PendingFrames) \in Seq(Frames)
        /\ Len(Tail(PendingFrames)) = n - 1
        /\ \A k \in 1 .. n - 1 : Tail(PendingFrames)[k] = PendingFrames[k + 1]
    BY <1>12, <1>13, HeadTailProperties
  <2>2. \A k \in 1 .. n - 1 : PendingFrames'[k] = Tail(PendingFrames)[k]
    BY <1>10, <1>12, <1>14, <2>1
  <2> QED
    BY <1>14, <2>1, <2>2, SeqEqual
<1>16. BuffersHold'
  <2>1. /\ UNCHANGED memory
        /\ recvSize' = [recvSize EXCEPT ![currentRecvBuffer] = BufferSize]
        /\ recvSize \in [Slots -> FrameSizes \cup {BufferSize}]
    BY DEF Receive, NetworkTypeOK
  <2>2. ASSUME NEW j \in 2 .. n PROVE j - 1 \in 1 .. n - 1 /\ PendingFrames'[j - 1] = PendingFrames[j]
    <3>1. j - 1 \in 1 .. n - 1 /\ (j - 1) + 1 = j /\ j \in 1 .. n
      BY SMT, <1>5
    <3> QED
      BY <1>12, <1>14, <3>1
  <2>3. ASSUME NEW k \in 1 .. n - 1
        PROVE  /\ recvSize'[Place(k)'] = recvSize[Place(k + 1)]
               /\ recvSize[Place(k + 1)] \in FrameSizes
    <3>1. /\ Place(k)' = Place(k + 1) /\ Place(k + 1) # currentRecvBuffer
          /\ Place(k + 1) \in Slots /\ k + 1 \in 1 .. n
      BY <1>10, <1>12
    <3>2. recvSize[Place(k + 1)] \in FrameSizes
      BY <3>1 DEF QueueInv, BuffersHold, n
    <3> QED
      BY <2>1, <3>1, <3>2
  <2>4. ASSUME NEW k \in 1 .. n - 1, NEW b \in Buffer(Place(k + 1), recvSize[Place(k + 1)])
        PROVE  \E j \in k .. n - 1 : memory[b] = PendingFrames'[j].id
    <3>1. k + 1 \in 1 .. n
      BY <1>10
    <3>2. PICK j \in k + 1 .. n : memory[b] = PendingFrames[j].id
      BY <2>4, <3>1 DEF QueueInv, BuffersHold, n
    <3>3. j \in 2 .. n /\ j - 1 \in k .. n - 1
      BY SMT, <1>5
    <3> QED
      BY <2>2, <3>2, <3>3
  <2>5. \A k \in 1 .. n - 1 :
            /\ recvSize'[Place(k)'] \in FrameSizes
            /\ \A b \in Buffer(Place(k)', recvSize'[Place(k)']) :
                  \E j \in k .. n - 1 : memory[b] = PendingFrames'[j].id
    BY <1>10, <2>3, <2>4
  <2> QED
    BY <1>5, <2>1, <2>5 DEF BuffersHold
<1>17. /\ \A b \in Buffer(currentRecvBuffer, recvSize[currentRecvBuffer]) :
              \E j \in DOMAIN PendingFrames : memory[b] = PendingFrames[j].id
       /\ recvSize[currentRecvBuffer] \in FrameSizes
  <2>1. DOMAIN PendingFrames = 1 .. n
    BY DEF PendingFrames, n
  <2> QED
    BY <1>11, <2>1 DEF QueueInv, BuffersHold, n
<1> QED
  BY <1>9, <1>13, <1>15, <1>16, <1>17

\* Every step of kernel and card is a step of the abstract queue or leaves it
\* as it is; a frame that is lost to a full ring is one of the latter.
LEMMA StepsOfQueue ==
    ASSUME NetworkTypeOK, NetworkTypeOK', QueueInv, NetworkNext
    PROVE  QueueInv' /\ [Queue!Next]_<<PendingFrames, shown>>
<1>1. /\ arrived \in Nat /\ recvFrame \in [Slots -> Frames]
      /\ shown \in Seq(Entries)
      /\ \A i \in Slots : recvFrame[i].id \in Nat
  BY DEF NetworkTypeOK, Frames, Entries
<1>2. CASE UNCHANGED recvVars
  <2>1. UNCHANGED <<PendingFrames, Pending>>
    BY <1>2 DEF recvVars, bufferVars, PendingFrames, Pending
  <2>2. Cardinality(Pending)' = Cardinality(Pending)
    BY <2>1
  <2>3. BuffersHold'
    <3>1. UNCHANGED <<recvSize, memory, currentRecvBuffer>>
      BY <1>2 DEF recvVars, bufferVars
    <3>2. \A k : Place(k)' = Place(k)
      BY <3>1 DEF Place
    <3> QED
      BY <2>1, <2>2, <3>1, <3>2 DEF QueueInv, BuffersHold
  <2> QED
    BY <1>2, <2>1, <2>2, <2>3 DEF recvVars, bufferVars, QueueInv, RingCounted, FramesNumbered
<1>3. CASE Receive
  <2> DEFINE f == recvFrame[currentRecvBuffer]
             entry == [id |-> f.id, from |-> Printed]
  <2>1. /\ PendingFrames # <<>>
        /\ PendingFrames' = Tail(PendingFrames)
        /\ Head(PendingFrames) = f
        /\ RingCounted' /\ BuffersHold'
        /\ \A b \in Buffer(currentRecvBuffer, recvSize[currentRecvBuffer]) :
              \E j \in DOMAIN PendingFrames : memory[b] = PendingFrames[j].id
        /\ recvSize[currentRecvBuffer] \in FrameSizes
    BY <1>3, ReceiveTakesFirst
  <2>2. /\ shown' = IF f.good THEN Append(shown, entry) ELSE shown
        /\ UNCHANGED <<recvFrame, arrived>>
        /\ currentRecvBuffer \in Slots /\ f.id \in Nat
        /\ recvOwner[currentRecvBuffer] = "driver"
    BY <1>1, <1>3 DEF Receive, NetworkTypeOK
  <2>3. Printed \in (SUBSET Queue!Waiting) \ {{}}
    <3>1. /\ Buffer(currentRecvBuffer, ShownSize(recvSize[currentRecvBuffer])) # {}
          /\ Buffer(currentRecvBuffer, ShownSize(recvSize[currentRecvBuffer]))
                \subseteq Buffer(currentRecvBuffer, recvSize[currentRecvBuffer])
      BY <2>1, <2>2, BufferBytes
    <3>2. Printed = {memory[b] : b \in
             Buffer(currentRecvBuffer, ShownSize(recvSize[currentRecvBuffer]))}
      BY DEF Printed, ShownBuffer
    <3>3. Printed # {}
      BY <3>1, <3>2
    <3>4. ASSUME NEW x \in Printed PROVE x \in Queue!Waiting
      <4>1. PICK b \in Buffer(currentRecvBuffer, recvSize[currentRecvBuffer]) : x = memory[b]
        BY <3>1, <3>2
      <4>2. PICK j \in DOMAIN PendingFrames : memory[b] = PendingFrames[j].id
        BY <2>1
      <4> QED
        BY <4>1, <4>2 DEF Queue!Waiting
    <3> QED
      BY <3>3, <3>4
  <2>4. entry \in Entries /\ entry.id = f.id
    <3>1. Printed \in SUBSET Nat
      BY <2>2, PrintedTyped
    <3> QED
      BY <2>2, <3>1 DEF Entries
  <2>5. Queue!Handle
    BY <2>1, <2>2, <2>3 DEF Queue!Handle
  <2>6. FramesNumbered'
    <3>1. CASE shown' = shown
      BY <2>2, <3>1 DEF QueueInv, FramesNumbered
    <3>2. CASE shown' = Append(shown, entry)
      <4>1. entry.id <= arrived
        BY <2>2, <2>4 DEF QueueInv, FramesNumbered
      <4> HIDE DEF f, entry
      <4>2. /\ Len(shown) \in Nat /\ DOMAIN shown = 1 .. Len(shown)
            /\ shown' \in Seq(Entries) /\ Len(shown') = Len(shown) + 1
            /\ \A k \in 1 .. Len(shown) : shown'[k] = shown[k]
            /\ shown'[Len(shown) + 1] = entry
        BY <1>1, <2>4, <3>2, LenProperties, AppendProperties
      <4>3. DOMAIN shown' = 1 .. Len(shown) + 1
        BY <4>2, LenProperties
      <4>4. \A k \in 1 .. Len(shown) + 1 : k \in 1 .. Len(shown) \/ k = Len(shown) + 1
        BY SMT, <4>2
      <4> QED
        BY <2>2, <4>1, <4>2, <4>3, <4>4 DEF QueueInv, FramesNumbered
    <3> QED
      BY <2>2, <3>1, <3>2
  <2> QED
    BY <2>1, <2>5, <2>6 DEF QueueInv, Queue!Next
<1>4. ASSUME NEW good \in BOOLEAN, NEW size \in FrameSizes, FrameArrives(good, size),
             CardKeeps
      PROVE  QueueInv' /\ Queue!Next
  <2> DEFINE frame == [id |-> arrived + 1, good |-> good]
  <2>1. /\ Len(PendingFrames) < Ring
        /\ PendingFrames' = Append(PendingFrames, frame)
        /\ RingCounted' /\ BuffersHold'
    BY <1>4, ArriveAppends
  <2>2. /\ recvFrame' = [recvFrame EXCEPT ![cardRecv] = frame]
        /\ arrived' = arrived + 1 /\ arrived < MaxFrames
        /\ UNCHANGED shown
        /\ cardRecv \in Slots
    BY <1>4 DEF FrameArrives, NetworkTypeOK
  <2>3. /\ DOMAIN PendingFrames = 1 .. Cardinality(Pending)
        /\ \A k \in 1 .. Cardinality(Pending) :
              Place(k) \in Slots /\ PendingFrames[k] = recvFrame[Place(k)]
    BY PendingIsSequence DEF PendingFrames
  <2>4. \A k \in DOMAIN PendingFrames : PendingFrames[k].id < arrived + 1
    <3>1. \A i \in Slots : recvFrame[i].id < arrived + 1
      BY SMT, <1>1 DEF QueueInv, FramesNumbered
    <3> QED
      BY <2>3, <3>1
  <2>5. \A k \in DOMAIN shown : shown[k].id \in Nat
    <3>1. \A k \in DOMAIN shown : shown[k] \in Entries
      BY <1>1, LenProperties, ElementOfSeq
    <3> QED
      BY <3>1 DEF Entries
  <2>6. \A k \in DOMAIN shown :
            shown[k].id < arrived + 1 /\ shown[k].id <= arrived + 1
    BY SMT, <1>1, <2>5 DEF QueueInv, FramesNumbered
  <2>7. arrived + 1 \in 1 .. MaxFrames
    BY SMT, <1>1, <2>2, FramesAssumption
  <2>8. Queue!Arrive(frame)
    BY <2>1, <2>2 DEF Queue!Arrive
  <2>9. Queue!Next
    BY <2>4, <2>6, <2>7, <2>8 DEF Queue!Next
  <2>10. FramesNumbered'
    <3>1. \A i \in Slots : recvFrame'[i] = IF i = cardRecv THEN frame ELSE recvFrame[i]
      BY <1>1, <2>2
    <3>2. \A i \in Slots : recvFrame[i].id <= arrived + 1
      BY SMT, <1>1 DEF QueueInv, FramesNumbered
    <3>3. frame.id = arrived + 1 /\ arrived + 1 <= arrived + 1
      BY SMT, <1>1
    <3> QED
      BY <2>2, <2>6, <3>1, <3>2, <3>3 DEF FramesNumbered
  <2> QED
    BY <2>1, <2>9, <2>10 DEF QueueInv
<1>5. ASSUME NEW good \in BOOLEAN, NEW size \in FrameSizes, FrameArrives(good, size),
             ~CardKeeps
      PROVE  QueueInv' /\ UNCHANGED <<PendingFrames, shown>>
  <2>1. /\ UNCHANGED <<recvOwner, recvFrame, currentRecvBuffer, cardRecv, shown>>
        /\ UNCHANGED <<recvSize, memory>>
        /\ arrived' = arrived + 1
    BY <1>5 DEF FrameArrives, bufferVars
  <2>2. UNCHANGED <<PendingFrames, Pending>>
    BY <2>1 DEF PendingFrames, Pending
  <2>3. Cardinality(Pending)' = Cardinality(Pending)
    BY <2>2
  <2>4. \A k \in DOMAIN shown : shown[k].id \in Nat
    <3>1. \A k \in DOMAIN shown : shown[k] \in Entries
      BY <1>1, LenProperties, ElementOfSeq
    <3> QED
      BY <3>1 DEF Entries
  <2>5. FramesNumbered'
    <3>1. \A i \in Slots : recvFrame[i].id <= arrived + 1
      BY SMT, <1>1 DEF QueueInv, FramesNumbered
    <3>2. \A k \in DOMAIN shown : shown[k].id <= arrived + 1
      BY SMT, <1>1, <2>4 DEF QueueInv, FramesNumbered
    <3> QED
      BY <2>1, <3>1, <3>2 DEF FramesNumbered
  <2>6. BuffersHold'
    <3>1. \A k : Place(k)' = Place(k)
      BY <2>1 DEF Place
    <3> QED
      BY <2>1, <2>2, <2>3, <3>1 DEF QueueInv, BuffersHold
  <2> QED
    BY <2>1, <2>2, <2>3, <2>5, <2>6 DEF QueueInv, RingCounted
<1>6. \/ UNCHANGED recvVars \/ Receive
      \/ \E good \in BOOLEAN, size \in FrameSizes : FrameArrives(good, size)
  BY DEF NetworkNext, ActivateCard, Send, HandlerBegins, HandlerStep, ReadStatus,
     ReceiveEnds, Acknowledge, CardStep, CardStarts, CardSends, networkVars
<1> QED
  BY <1>2, <1>3, <1>4, <1>5, <1>6

LEMMA InitQueue == NetworkInit => QueueInv /\ Queue!Init
<1> SUFFICES ASSUME NetworkInit PROVE QueueInv /\ Queue!Init
  OBVIOUS
<1>1. Pending = {} /\ Cardinality(Pending) = 0
  <2>1. Pending = {}
    BY DEF NetworkInit, Pending
  <2> QED
    BY <2>1, FS_EmptySet
<1>2. Queue!Init
  <2>1. \A f : [k \in 1 .. 0 |-> f[k]] = <<>>
    BY SMT
  <2>2. PendingFrames = <<>>
    BY SMT, <1>1 DEF PendingFrames
  <2> QED
    BY <2>2 DEF NetworkInit, Queue!Init
<1>3. RingCounted
  <2>1. 0 \in 0 .. Ring /\ 0 + 0 \in 0 .. Ring + Ring - 1 /\ 0 + 0 < Ring /\ 0 + 0 = 0
    BY SMT, RingAssumption
  <2>2. (0 + 0) % Ring = 0
    BY <2>1, AroundRing
  <2> QED
    BY <1>1, <2>1, <2>2 DEF NetworkInit, RingCounted
<1>4. FramesNumbered
  <2>1. DOMAIN shown = {}
    BY DEF NetworkInit
  <2>2. \A i \in Slots : recvFrame[i].id = 0 /\ arrived = 0
    BY DEF NetworkInit, NoFrame
  <2>3. 0 <= 0
    BY SMT
  <2> QED
    BY <2>1, <2>2, <2>3 DEF FramesNumbered
<1>5. BuffersHold
  <2>1. \A k \in 1 .. 0 : FALSE
    BY SMT
  <2> QED
    BY <1>1, <2>1 DEF BuffersHold
<1> QED
  BY <1>2, <1>3, <1>4, <1>5 DEF QueueInv

LEMMA QueueInvariant == Spec => [](IInv /\ QueueInv)
<1>1. Init => QueueInv
  BY InitQueue DEF Init
<1>2. IInv /\ IInv' /\ QueueInv /\ [Next]_vars => QueueInv'
  BY NextNetwork, StepsOfQueue DEF IInv
<1> QED
  BY <1>1, <1>2, BootInvariant, PTL DEF Spec

\* Card and driver together implement the queue of FrameQueue: every frame
\* that finds a descriptor free has one turn, in the order in which the frames
\* came in.  For any number, address and size of the buffers, overlapping as
\* they are, what is shown in the turn of a whole frame are bytes of frames
\* that wait at that moment: its own when it waits alone, never older ones.
THEOREM RingIsQueue == Spec => ImplementsQueue
<1>1. Init => Queue!Init
  BY InitQueue DEF Init
<1>2. IInv /\ IInv' /\ QueueInv /\ [Next]_vars => [Queue!Next]_<<PendingFrames, shown>>
  BY NextNetwork, StepsOfQueue DEF IInv
<1> QED
  BY <1>1, <1>2, QueueInvariant, BootInvariant, PTL DEF Spec, ImplementsQueue, Queue!Spec

-----------------------------------------------------------------------------
(* The PCI scan *)

DriverKinds == {"keyboard", "mouse", "am79c973"}
AnyDriver ==
    [kind : DriverKinds, at : Places \cup {None}, line : 0 .. 255, portBase : Nat \cup Addresses]

BeforeScan == {"gdt", "interrupts", "syscalls", "keyboard", "mouse"}
AfterScan == {"activate", "send", "sti", "running", "undefined"}

\* SelectDrivers goes through the functions in the order of the bus, and asks
\* for a function behind the first only where the device has several.
ScanPlaced ==
    /\ stage \in BeforeScan => place = <<0, 0>>
    /\ stage \in AfterScan => place[1] = Devices
    /\ place[2] # 0 => NumFunctions = Functions /\ place[1] < Devices

\* The drivers that stand in front of the cards.
DriversAdded ==
    /\ drivers \in Seq(AnyDriver)
    /\ stage \in BeforeScan \ {"mouse"} => drivers = <<>>
    /\ stage = "mouse" => drivers = <<Keyboard>>
    /\ stage \notin BeforeScan =>
          Len(drivers) >= 2 /\ drivers[1] = Keyboard /\ drivers[2] = Mouse

\* The cards scanned so far have one driver each, in the order of the bus.
CardsListed ==
    /\ \A i \in 3 .. Len(drivers) :
          /\ drivers[i].kind = "am79c973"
          /\ drivers[i].at \in CardPlaces /\ Earlier(drivers[i].at, place)
    /\ \A i, j \in 3 .. Len(drivers) : i < j => Earlier(drivers[i].at, drivers[j].at)

NoCardMissed ==
    room > 0 /\ stage \notin BeforeScan =>
        \A c \in CardPlaces : Earlier(c, place) =>
            \E i \in 3 .. Len(drivers) : drivers[i].at = c

PortsRight ==
    \A i \in 3 .. Len(drivers) :
        \E bar \in 1 .. 6 :
            /\ Answer(drivers[i].at).bars[bar].io
            /\ drivers[i].portBase = Answer(drivers[i].at).bars[bar].address

ScanInv == ScanPlaced /\ DriversAdded /\ CardsListed /\ NoCardMissed /\ PortsRight

\* A place and its two numbers.
LEMMA PlaceNumbers ==
    ASSUME NEW c \in Places
    PROVE  /\ c = <<c[1], c[2]>>
           /\ c[1] \in Nat /\ c[1] < Devices
           /\ c[2] \in Nat /\ c[2] < Functions
<1>1. c = <<c[1], c[2]>> /\ c[1] \in 0 .. Devices - 1 /\ c[2] \in 0 .. Functions - 1
  BY DEF Places
<1>2. Devices \in Nat /\ Functions \in Nat
  BY BootAssumption
<1> QED
  BY SMT, <1>1, <1>2

\* What SelectDrivers and the constructors of the keyboard's and the mouse's
\* driver give to AddDriver.
LEMMA DriverTyped ==
    ASSUME NEW kind \in DriverKinds, NEW at \in Places \cup {None},
           NEW line \in 0 .. 255, NEW portBase \in Nat \cup Addresses
    PROVE  Driver(kind, at, line, portBase) \in AnyDriver
BY DEF Driver, AnyDriver

LEMMA ScannedNumbers ==
    ASSUME BootTyped
    PROVE  /\ place = <<place[1], place[2]>>
           /\ place[1] \in Nat /\ place[1] <= Devices
           /\ place[2] \in Nat /\ place[2] < Functions
           /\ Devices \in Nat /\ Functions \in Nat
           /\ place[1] < Devices => place \in Places
<1>1. /\ place = <<place[1], place[2]>>
      /\ place[1] \in 0 .. Devices /\ place[2] \in 0 .. Functions - 1
  BY DEF BootTyped
<1>2. Devices \in Nat /\ Functions \in Nat
  BY BootAssumption
<1>3. place[1] < Devices => place[1] \in 0 .. Devices - 1
  BY SMT, <1>1, <1>2
<1>4. place[1] < Devices => place \in Places
  BY <1>1, <1>3 DEF Places
<1> QED
  BY SMT, <1>1, <1>2, <1>4

\* The scan asks at no place where a device only repeats its one function.
LEMMA ScannedIsReal ==
    ASSUME BootTyped, ScanPlaced, place[1] < Devices,
           Answer(place) # Absent, IsCard(Answer(place))
    PROVE  place \in CardPlaces
<1>1. /\ place \in Places
      /\ place[2] \in Nat /\ place[2] < Functions /\ Functions \in Nat
  BY ScannedNumbers
<1>2. ASSUME place[2] # 0, Answer(<<place[1], 0>>) # Absent
      PROVE  Answer(<<place[1], 0>>).multifunction
  <2>1. NumFunctions = Functions /\ Functions # 1
    BY SMT, <1>1, <1>2 DEF ScanPlaced
  <2> QED
    BY <1>2, <2>1 DEF NumFunctions
<1> QED
  BY <1>1, <1>2 DEF CardPlaces, Real

\* The functions that the scan leaves out are no cards of this machine.
LEMMA NothingSkipped ==
    ASSUME BootTyped, ScanPlaced, place[1] < Devices, NEW c \in CardPlaces
    PROVE  Earlier(c, NextPlace) <=> Earlier(c, place) \/ c = place
<1> DEFINE p1 == place[1]
           p2 == place[2]
           c1 == c[1]
           c2 == c[2]
<1>1. /\ place = <<p1, p2>> /\ p1 \in Nat /\ p2 \in Nat /\ p2 < Functions
      /\ Functions \in Nat
  BY ScannedNumbers
<1>2. c \in Places /\ Real(c)
  BY DEF CardPlaces
<1>3. c = <<c1, c2>> /\ c1 \in Nat /\ c2 \in Nat /\ c2 < Functions
  BY <1>2, PlaceNumbers
<1>4. c = place <=> c1 = p1 /\ c2 = p2
  BY <1>1, <1>3
<1>5. Earlier(c, place) <=> c1 < p1 \/ (c1 = p1 /\ c2 < p2)
  BY DEF Earlier
<1>6. NumFunctions \in {1, Functions}
  BY DEF NumFunctions
<1> HIDE DEF p1, p2, c1, c2
<1>7. CASE p2 + 1 < NumFunctions
  <2>1. NextPlace = <<p1, p2 + 1>>
    BY <1>7 DEF NextPlace, p1, p2
  <2>2. Earlier(c, NextPlace) <=> c1 < p1 \/ (c1 = p1 /\ c2 < p2 + 1)
    BY <2>1 DEF Earlier, c1, c2
  <2> QED
    BY SMT, <1>1, <1>3, <1>4, <1>5, <2>2
<1>8. CASE ~(p2 + 1 < NumFunctions)
  <2>1. NextPlace = <<p1 + 1, 0>>
    BY <1>8 DEF NextPlace, p1, p2
  <2>2. Earlier(c, NextPlace) <=> c1 < p1 + 1 \/ (c1 = p1 + 1 /\ c2 < 0)
    BY <2>1 DEF Earlier, c1, c2
  <2>3. ASSUME c1 = p1 PROVE c2 <= p2
    <3>1. CASE NumFunctions = Functions
      BY SMT, <1>1, <1>3, <1>8, <3>1
    <3>2. CASE NumFunctions # Functions
      <4>1. /\ Answer(<<p1, 0>>) # Absent
            /\ ~Answer(<<p1, 0>>).multifunction
        BY <3>2 DEF NumFunctions, p1
      <4>2. c2 = 0
        BY <1>2, <2>3, <4>1 DEF Real, c1, c2
      <4> QED
        BY SMT, <1>1, <4>2
    <3> QED
      BY <3>1, <3>2
  <2> QED
    BY SMT, <1>1, <1>3, <1>4, <1>5, <2>2, <2>3
<1> QED
  BY <1>7, <1>8

\* GetBaseAddressRegister and SelectDrivers: the port base of a card is the
\* address of one of its I/O registers.
LEMMA CardPort ==
    ASSUME NEW at \in Places, bus \in Buses,
           Answer(at) # Absent, IsCard(Answer(at)),
           NEW portBase \in PortBases(Answer(at))
    PROVE  /\ \E bar \in 1 .. 6 : /\ Answer(at).bars[bar].io
                                  /\ portBase = Answer(at).bars[bar].address
           /\ portBase \in Addresses
<1> DEFINE f == Answer(at)
           Candidates(bar) ==
               {r.address : r \in {q \in BarResults(f, bar) : SetsPort(q)}}
           Kept(bar) == \E r \in BarResults(f, bar) : ~SetsPort(r)
           Last(bar) == \A later \in bar + 1 .. 6 : Kept(later)
<1>1. /\ f.headertype = 0
      /\ f.bars \in [1 .. 6 -> [io : BOOLEAN, address : Addresses]]
      /\ \E bar \in 1 .. 6 : f.bars[bar].io /\ f.bars[bar].address # 0
  BY CardAssumption, ConfigurationAssumption DEF Answer
<1>2. NumBars(f) = 6
  BY SMT, <1>1 DEF NumBars
<1>3. \A bar \in 1 .. 6 : ~(bar > NumBars(f))
  BY SMT, <1>2
<1>4. \A bar \in 1 .. 6 :
        BarResults(f, bar) = IF f.bars[bar].io THEN {f.bars[bar]}
                             ELSE [io : {FALSE}, address : Addresses]
  BY <1>3 DEF BarResults
<1>5. ~Last(0)
  <2>1. PICK bar \in 1 .. 6 : f.bars[bar].io /\ f.bars[bar].address # 0
    BY <1>1
  <2>2. BarResults(f, bar) = {f.bars[bar]} /\ SetsPort(f.bars[bar])
    BY <1>4, <2>1 DEF SetsPort
  <2>3. ~Kept(bar)
    BY <2>2
  <2>4. bar \in 0 + 1 .. 6
    BY SMT
  <2> QED
    BY <2>3, <2>4
<1>6. portBase \in UNION {Candidates(bar) : bar \in {b \in 1 .. 6 : Last(b)}}
  <2>1. PortBases(f) = UNION {Candidates(bar) : bar \in {b \in 1 .. 6 : Last(b)}}
                         \cup (IF Last(0) THEN Addresses ELSE {})
    BY DEF PortBases
  <2> HIDE DEF Last, Candidates
  <2> QED
    BY <1>5, <2>1
<1>7. PICK bar \in 1 .. 6 : portBase \in Candidates(bar)
  BY <1>6
<1>8. PICK r \in BarResults(f, bar) : SetsPort(r) /\ portBase = r.address
  BY <1>7
<1>9. f.bars[bar].io /\ r = f.bars[bar]
  <2>1. r.io
    BY <1>8 DEF SetsPort
  <2>2. CASE ~f.bars[bar].io
    <3>1. r \in [io : {FALSE}, address : Addresses]
      BY <1>4, <1>8, <2>2
    <3> QED
      BY <2>1, <3>1
  <2>3. CASE f.bars[bar].io
    BY <1>4, <1>8, <2>3
  <2> QED
    BY <2>2, <2>3
<1> QED
  BY <1>1, <1>8, <1>9

\* Where the scan is after one more function.
LEMMA ScanMoves ==
    ASSUME BootTyped, ScanPlaced, ScanFunction
    PROVE  ScanPlaced' /\ CardPlaces' = CardPlaces
<1>1. /\ stage = "pci" /\ place[1] < Devices /\ place' = NextPlace
      /\ UNCHANGED <<bus, stage>>
  BY DEF ScanFunction
<1>2. /\ place[1] \in Nat /\ place[2] \in Nat /\ Devices \in Nat /\ Functions \in Nat
  BY ScannedNumbers
<1>3. CardPlaces' = CardPlaces
  BY <1>1 DEF CardPlaces, Real, Answer
<1>4. place'[2] # 0 => NumFunctions' = Functions /\ place'[1] < Devices
  <2>1. CASE place[2] + 1 < NumFunctions
    <3>1. place'[1] = place[1] /\ place'[2] = place[2] + 1
      BY <1>1, <2>1 DEF NextPlace
    <3>2. NumFunctions' = NumFunctions
      BY <1>1, <3>1 DEF NumFunctions, Answer
    <3>3. NumFunctions \in {1, Functions}
      BY DEF NumFunctions
    <3>4. NumFunctions # 1
      BY SMT, <1>2, <2>1
    <3> QED
      BY <1>1, <3>1, <3>2, <3>3, <3>4
  <2>2. CASE ~(place[2] + 1 < NumFunctions)
    <3>1. place'[2] = 0
      BY <1>1, <2>2 DEF NextPlace
    <3> QED
      BY <3>1
  <2> QED
    BY <2>1, <2>2
<1> QED
  BY <1>1, <1>3, <1>4 DEF ScanPlaced, BeforeScan, AfterScan

LEMMA CardAdded ==
    ASSUME BootTyped, ScanInv, ScanFunction,
           Answer(place) # Absent, Constructs(Answer(place))
    PROVE  ScanInv'
<1> DEFINE n == Len(drivers)
<1>1. /\ stage = "pci" /\ place[1] < Devices /\ place' = NextPlace
      /\ IsCard(Answer(place)) /\ room > 0 /\ room' = room - 1
      /\ UNCHANGED <<bus, stage>>
  BY DEF ScanFunction, Constructs
<1>2. PICK portBase \in PortBases(Answer(place)) :
        AddDriver(Driver("am79c973", place, Answer(place).line, portBase))
  BY DEF ScanFunction, SelectsDriver
<1> DEFINE card == Driver("am79c973", place, Answer(place).line, portBase)
<1>3. place \in Places /\ bus \in Buses /\ place \in CardPlaces
  BY <1>1, ScannedNumbers, ScannedIsReal DEF ScanInv, BootTyped
<1>4. /\ card.kind = "am79c973" /\ card.at = place /\ card.portBase = portBase
      /\ card \in AnyDriver
      /\ \E bar \in 1 .. 6 : /\ Answer(place).bars[bar].io
                             /\ portBase = Answer(place).bars[bar].address
  <2>1. Answer(place).line \in 0 .. 255
    BY <1>3, ConfigurationAssumption DEF Answer
  <2>2. /\ \E bar \in 1 .. 6 : /\ Answer(place).bars[bar].io
                               /\ portBase = Answer(place).bars[bar].address
        /\ portBase \in Addresses
    BY <1>1, <1>3, CardPort
  <2>3. card \in AnyDriver
    <3>1. "am79c973" \in DriverKinds
      BY DEF DriverKinds
    <3> QED
      BY <1>3, <2>1, <2>2, <3>1, DriverTyped
  <2> QED
    BY <2>2, <2>3 DEF Driver
<1>5. /\ n \in Nat /\ n >= 2 /\ drivers' \in Seq(AnyDriver) /\ Len(drivers') = n + 1
      /\ \A i \in 1 .. n : drivers'[i] = drivers[i]
      /\ drivers'[n + 1] = card
  <2>1. drivers \in Seq(AnyDriver) /\ drivers' = Append(drivers, card) /\ n >= 2
    BY <1>1, <1>2 DEF AddDriver, ScanInv, DriversAdded, BeforeScan
  <2> HIDE DEF card
  <2> QED
    BY <1>4, <2>1, LenProperties, AppendProperties
<1> HIDE DEF card, n
<1>6. /\ \A i \in 3 .. n : i \in 1 .. n /\ i \in 3 .. n + 1
      /\ n + 1 \in 3 .. n + 1
      /\ \A i \in 3 .. n + 1 : i \in 3 .. n \/ i = n + 1
      /\ 1 \in 1 .. n /\ 2 \in 1 .. n /\ n + 1 >= 2
  BY SMT, <1>5
<1>7. ScanPlaced' /\ CardPlaces' = CardPlaces
  BY ScanMoves DEF ScanInv
<1>8. DriversAdded'
  BY <1>1, <1>5, <1>6 DEF ScanInv, DriversAdded, BeforeScan, n
<1>9. \A c \in CardPlaces : Earlier(c, place') <=> Earlier(c, place) \/ c = place
  BY <1>1, NothingSkipped DEF ScanInv
<1>10. /\ \A i \in 3 .. n : /\ drivers[i].kind = "am79c973"
                            /\ drivers[i].at \in CardPlaces
                            /\ Earlier(drivers[i].at, place)
       /\ \A i, j \in 3 .. n : i < j => Earlier(drivers[i].at, drivers[j].at)
  BY DEF ScanInv, CardsListed, n
<1>11. CardsListed'
  <2>1. \A i \in 3 .. n + 1 :
          /\ drivers'[i].kind = "am79c973"
          /\ drivers'[i].at \in CardPlaces /\ Earlier(drivers'[i].at, place')
    BY <1>3, <1>4, <1>5, <1>6, <1>9, <1>10
  <2>2. ASSUME NEW i \in 3 .. n + 1, NEW j \in 3 .. n + 1, i < j
        PROVE  Earlier(drivers'[i].at, drivers'[j].at)
    <3>1. i \in 3 .. n
      BY SMT, <1>5, <2>2
    <3> QED
      BY <1>4, <1>5, <1>6, <1>10, <2>2, <3>1
  <2>3. \A a, b : Earlier(a, b)' <=> Earlier(a, b)
    BY DEF Earlier
  <2> QED
    BY <1>5, <1>7, <2>1, <2>2, <2>3 DEF CardsListed, Earlier
<1>12. NoCardMissed'
  <2>1. \A c \in CardPlaces : Earlier(c, place) => \E i \in 3 .. n : drivers[i].at = c
    BY <1>1 DEF ScanInv, NoCardMissed, BeforeScan, n
  <2>2. \A c \in CardPlaces : Earlier(c, place') =>
           \E i \in 3 .. n + 1 : drivers'[i].at = c
    BY <1>4, <1>5, <1>6, <1>9, <2>1
  <2> QED
    BY <1>5, <1>7, <2>2 DEF NoCardMissed, Earlier
<1>13. PortsRight'
  <2>1. \A i \in 3 .. n :
          \E bar \in 1 .. 6 :
             /\ Answer(drivers[i].at).bars[bar].io
             /\ drivers[i].portBase = Answer(drivers[i].at).bars[bar].address
    BY DEF ScanInv, PortsRight, n
  <2>2. \A i \in 3 .. n + 1 :
          \E bar \in 1 .. 6 :
             /\ bus[drivers'[i].at].bars[bar].io
             /\ drivers'[i].portBase = bus[drivers'[i].at].bars[bar].address
    BY <1>4, <1>5, <1>6, <2>1 DEF Answer
  <2> QED
    BY <1>1, <1>5, <2>2 DEF PortsRight, Answer
<1> QED
  BY <1>7, <1>8, <1>11, <1>12, <1>13 DEF ScanInv

LEMMA NothingAdded ==
    ASSUME BootTyped, ScanInv, ScanFunction,
           ~(Answer(place) # Absent /\ Constructs(Answer(place)))
    PROVE  ScanInv'
<1>1. /\ stage = "pci" /\ place[1] < Devices /\ place' = NextPlace
      /\ UNCHANGED <<bus, stage, drivers, room>>
  BY DEF ScanFunction
<1>2. ScanPlaced' /\ CardPlaces' = CardPlaces
  BY ScanMoves DEF ScanInv
<1>3. \A c \in CardPlaces : Earlier(c, place') <=> Earlier(c, place) \/ c = place
  BY <1>1, NothingSkipped DEF ScanInv
<1>4. DriversAdded' /\ PortsRight'
  BY <1>1 DEF ScanInv, DriversAdded, PortsRight, Answer
<1>5. CardsListed'
  BY <1>1, <1>2, <1>3 DEF ScanInv, CardsListed, Earlier
<1>6. room > 0 => place \notin CardPlaces
  BY DEF Constructs, CardPlaces, Real
<1>7. NoCardMissed'
  <2>1. room > 0 => \A c \in CardPlaces : Earlier(c, place') =>
                       \E i \in 3 .. Len(drivers) : drivers[i].at = c
    BY <1>1, <1>3, <1>6 DEF ScanInv, NoCardMissed, BeforeScan
  <2> QED
    BY <1>1, <1>2, <2>1 DEF NoCardMissed, Earlier
<1> QED
  BY <1>2, <1>4, <1>5, <1>7 DEF ScanInv

\* Nothing is before the place where the scan begins.
LEMMA ScanBegins ==
    ASSUME NEW c \in CardPlaces
    PROVE  ~Earlier(c, <<0, 0>>)
<1>1. c \in Places
  BY DEF CardPlaces
<1>2. c[1] \in Nat /\ c[2] \in Nat
  BY <1>1, PlaceNumbers
<1> QED
  BY SMT, <1>2 DEF Earlier

LEMMA ScanKept ==
    ASSUME ScanInv, UNCHANGED <<bus, stage, place, drivers, room>>
    PROVE  ScanInv'
<1>1. /\ CardPlaces' = CardPlaces /\ NumFunctions' = NumFunctions
      /\ \A at : Answer(at)' = Answer(at)
  BY DEF CardPlaces, Real, Answer, NumFunctions
<1>2. ScanPlaced' /\ DriversAdded'
  BY <1>1 DEF ScanInv, ScanPlaced, DriversAdded
<1>3. CardsListed' /\ PortsRight'
  BY <1>1 DEF ScanInv, CardsListed, PortsRight, Earlier
<1>4. NoCardMissed'
  BY <1>1 DEF ScanInv, NoCardMissed, Earlier
<1> QED
  BY <1>2, <1>3, <1>4 DEF ScanInv

\* The steps of kernelMain that move neither the scan nor the drivers.
LEMMA StageMoves ==
    ASSUME ScanInv, UNCHANGED <<bus, place, drivers, room>>,
           \/ Then("gdt", "interrupts") \/ Then("interrupts", "syscalls")
           \/ Then("syscalls", "keyboard")
           \/ place[1] = Devices /\ Then("pci", "activate")
           \/ Then("activate", "send") \/ Then("send", "sti")
           \/ Then("send", "undefined") \/ Then("sti", "running")
    PROVE  ScanInv'
<1>1. /\ CardPlaces' = CardPlaces /\ NumFunctions' = NumFunctions
      /\ \A at : Answer(at)' = Answer(at)
  BY DEF CardPlaces, Real, Answer, NumFunctions
<1>2. stage' \notin BeforeScan <=> stage \notin BeforeScan
  BY DEF Then, BeforeScan
<1>3. stage # "mouse" /\ stage' # "mouse"
  BY DEF Then
<1>4. stage' \in AfterScan => place[1] = Devices
  BY DEF ScanInv, ScanPlaced, Then, AfterScan
<1>5. ScanPlaced'
  BY <1>1, <1>2, <1>4 DEF ScanInv, ScanPlaced
<1>6. DriversAdded'
  BY <1>2, <1>3 DEF ScanInv, DriversAdded
<1>7. CardsListed' /\ PortsRight'
  BY <1>1 DEF ScanInv, CardsListed, PortsRight, Earlier
<1>8. NoCardMissed'
  BY <1>1, <1>2 DEF ScanInv, NoCardMissed, Earlier
<1> QED
  BY <1>5, <1>6, <1>7, <1>8 DEF ScanInv

LEMMA KeyboardAdded == ASSUME ScanInv, AddKeyboard PROVE ScanInv'
<1>1. /\ stage = "keyboard" /\ stage' = "mouse" /\ drivers = <<>>
      /\ drivers' = Append(drivers, Keyboard)
      /\ UNCHANGED <<bus, place, room>>
  BY DEF AddKeyboard, Then, AddDriver, ScanInv, DriversAdded, BeforeScan
<1>2. drivers' = <<Keyboard>> /\ Len(drivers') = 1
  BY <1>1
<1>3. Keyboard \in AnyDriver
  <2>1. 1 \in 0 .. 255 /\ 96 \in Nat
    BY SMT
  <2>2. "keyboard" \in DriverKinds
    BY DEF DriverKinds
  <2> QED
    BY <2>1, <2>2, DriverTyped DEF Keyboard
<1>4. 3 .. 1 = {}
  BY SMT
<1>5. CardsListed' /\ PortsRight'
  BY <1>2, <1>4 DEF CardsListed, PortsRight
<1>6. ScanPlaced'
  BY <1>1 DEF ScanInv, ScanPlaced, BeforeScan, AfterScan, NumFunctions, Answer
<1>7. DriversAdded' /\ NoCardMissed'
  BY <1>1, <1>2, <1>3 DEF DriversAdded, NoCardMissed, BeforeScan
<1> QED
  BY <1>5, <1>6, <1>7 DEF ScanInv

LEMMA MouseAdded == ASSUME ScanInv, AddMouse PROVE ScanInv'
<1>1. /\ stage = "mouse" /\ stage' = "pci" /\ drivers = <<Keyboard>>
      /\ drivers' = Append(drivers, Mouse)
      /\ place = <<0, 0>>
      /\ UNCHANGED <<bus, place, room>>
  BY DEF AddMouse, Then, AddDriver, ScanInv, DriversAdded, ScanPlaced, BeforeScan
<1>3. Keyboard \in AnyDriver /\ Mouse \in AnyDriver
  <2>1. 1 \in 0 .. 255 /\ 12 \in 0 .. 255 /\ 96 \in Nat
    BY SMT
  <2>2. "keyboard" \in DriverKinds /\ "mouse" \in DriverKinds
    BY DEF DriverKinds
  <2> QED
    BY <2>1, <2>2, DriverTyped DEF Keyboard, Mouse
<1>2. /\ drivers' \in Seq(AnyDriver) /\ Len(drivers') = 2
      /\ drivers'[1] = Keyboard /\ drivers'[2] = Mouse
  <2>1. \A a : /\ Len(<<a>>) = 1 /\ <<a>>[1] = a
               /\ a \in AnyDriver => <<a>> \in Seq(AnyDriver)
    OBVIOUS
  <2> DEFINE before == <<Keyboard>>
  <2>2. before \in Seq(AnyDriver) /\ Len(before) = 1 /\ before[1] = Keyboard
    BY <1>3, <2>1
  <2>3. drivers' = Append(before, Mouse)
    BY <1>1
  <2> HIDE DEF before
  <2>4. /\ drivers' \in Seq(AnyDriver) /\ Len(drivers') = Len(before) + 1
        /\ \A i \in 1 .. Len(before) : drivers'[i] = before[i]
        /\ drivers'[Len(before) + 1] = Mouse
    <3>1. /\ Append(before, Mouse) \in Seq(AnyDriver)
          /\ Len(Append(before, Mouse)) = Len(before) + 1
          /\ \A i \in 1 .. Len(before) : Append(before, Mouse)[i] = before[i]
          /\ Append(before, Mouse)[Len(before) + 1] = Mouse
      <4>1. ASSUME NEW q \in Seq(AnyDriver), NEW d \in AnyDriver
            PROVE  /\ Append(q, d) \in Seq(AnyDriver)
                   /\ Len(Append(q, d)) = Len(q) + 1
                   /\ \A i \in 1 .. Len(q) : Append(q, d)[i] = q[i]
                   /\ Append(q, d)[Len(q) + 1] = d
        BY AppendProperties
      <4> QED
        BY Zenon, <1>3, <2>2, <4>1
    <3> QED
      BY Zenon, <2>3, <3>1
  <2>5. Len(before) + 1 = 2 /\ 1 \in 1 .. Len(before)
    BY SMT, <2>2
  <2> QED
    BY Zenon, <2>2, <2>4, <2>5
<1>4. 3 .. 2 = {} /\ 2 >= 2
  BY SMT
<1>5. CardsListed' /\ PortsRight'
  BY <1>2, <1>4 DEF CardsListed, PortsRight
<1>6. ScanPlaced'
  BY <1>1 DEF ScanPlaced, BeforeScan, AfterScan
<1>7. DriversAdded'
  BY <1>1, <1>2, <1>3, <1>4 DEF DriversAdded, BeforeScan
<1>8. NoCardMissed'
  <2>1. CardPlaces' = CardPlaces
    BY <1>1 DEF CardPlaces, Real, Answer
  <2> QED
    BY <1>1, <2>1, ScanBegins DEF NoCardMissed, Earlier
<1> QED
  BY <1>5, <1>6, <1>7, <1>8 DEF ScanInv

LEMMA StepScanInv == ASSUME IInv, ScanInv, [Next]_vars PROVE ScanInv'
<1>1. CASE KernelMain
  <2>1. CASE ScanFunction
    BY <2>1, CardAdded, NothingAdded DEF IInv
  <2>2. CASE AddKeyboard \/ AddMouse
    BY <2>2, KeyboardAdded, MouseAdded
  <2>3. CASE BuildSegments \/ InstallInterrupts \/ InstallSyscalls \/ ScanEnds
                \/ ActivateAll \/ SendHello \/ ActivateInterrupts
    <3>1. UNCHANGED <<bus, place, drivers, room>>
      BY <2>3 DEF BuildSegments, InstallInterrupts, InstallSyscalls, ScanEnds, ActivateAll,
         SendHello, ActivateInterrupts
    <3>2. \/ Then("gdt", "interrupts") \/ Then("interrupts", "syscalls")
          \/ Then("syscalls", "keyboard")
          \/ place[1] = Devices /\ Then("pci", "activate")
          \/ Then("activate", "send") \/ Then("send", "sti")
          \/ Then("send", "undefined") \/ Then("sti", "running")
      BY <2>3 DEF BuildSegments, InstallInterrupts, InstallSyscalls, ScanEnds, ActivateAll,
         SendHello, ActivateInterrupts
    <3> QED
      BY <3>1, <3>2, StageMoves
  <2> QED
    BY <1>1, <2>1, <2>2, <2>3 DEF KernelMain
<1>2. CASE ~KernelMain
  <2>1. UNCHANGED bootVars
    BY <1>2 DEF Next, Raise, TakeInterrupt, CardHandler, EndOfInterrupt, Card, vars
  <2> QED
    BY <2>1, ScanKept DEF bootVars
<1> QED
  BY <1>1, <1>2

LEMMA InitScanInv == Init => ScanInv
<1> SUFFICES ASSUME Init PROVE ScanInv
  OBVIOUS
<1>1. drivers = <<>> /\ Len(drivers) = 0 /\ stage = "gdt" /\ place = <<0, 0>>
  BY DEF Init
<1>2. 3 .. 0 = {}
  BY SMT
<1>3. ScanPlaced /\ NoCardMissed
  BY <1>1 DEF ScanPlaced, NoCardMissed, BeforeScan, AfterScan
<1>4. DriversAdded /\ CardsListed /\ PortsRight
  BY <1>1, <1>2 DEF DriversAdded, CardsListed, PortsRight, BeforeScan
<1> QED
  BY <1>3, <1>4 DEF ScanInv

LEMMA ScanInvariant == Spec => [](IInv /\ ScanInv)
<1>1. IInv /\ ScanInv /\ [Next]_vars => ScanInv'
  BY StepScanInv
<1> QED
  BY <1>1, InitScanInv, BootInvariant, PTL DEF Spec

\* Found is the array from its third driver on.
LEMMA FoundIsTail ==
    ASSUME DriversAdded
    PROVE  /\ Found \in Seq(AnyDriver) /\ Len(drivers) \in Nat
           /\ Len(Found) = IF 3 <= Len(drivers) THEN Len(drivers) - 2 ELSE 0
           /\ \A i \in DOMAIN Found : i + 2 \in 3 .. Len(drivers)
                                     /\ Found[i] = drivers[i + 2]
<1> DEFINE n == Len(drivers)
<1>1. drivers \in Seq(AnyDriver)
  BY DEF DriversAdded
<1>2. n \in Nat /\ \A i \in 1 .. n : drivers[i] \in AnyDriver
  BY <1>1, LenProperties
<1> HIDE DEF n
<1>3. 3 \in Int /\ n \in Int /\ \A i \in 3 .. n : i \in 1 .. n
  BY SMT, <1>2
<1>4. /\ SubSeq(drivers, 3, n) \in Seq(AnyDriver)
      /\ Len(SubSeq(drivers, 3, n)) = IF 3 <= n THEN n - 3 + 1 ELSE 0
      /\ \A i \in 1 .. n - 3 + 1 : SubSeq(drivers, 3, n)[i] = drivers[3 + i - 1]
  BY <1>2, <1>3, SubSeqProperties
<1>5. Found = SubSeq(drivers, 3, n)
  BY DEF Found, n
<1>6. DOMAIN Found = 1 .. Len(Found)
  BY <1>4, <1>5, LenProperties
<1>7. n - 3 + 1 = n - 2
  BY SMT, <1>2
<1>8. ASSUME NEW i \in DOMAIN Found
      PROVE  i + 2 \in 3 .. n /\ Found[i] = drivers[i + 2]
  <2>1. i \in 1 .. IF 3 <= n THEN n - 3 + 1 ELSE 0
    BY <1>4, <1>5, <1>6
  <2>2. i \in 1 .. n - 3 + 1 /\ i + 2 \in 3 .. n /\ 3 + i - 1 = i + 2
    BY SMT, <1>2, <2>1
  <2> QED
    BY <1>4, <1>5, <2>2
<1> QED
  BY <1>2, <1>4, <1>5, <1>7, <1>8 DEF n

\* No place is before itself, and the order is that of the bus.
LEMMA EarlierIrreflexive == ASSUME NEW c \in Places PROVE ~Earlier(c, c)
<1>1. c[1] \in Nat /\ c[2] \in Nat
  BY PlaceNumbers
<1> QED
  BY SMT, <1>1 DEF Earlier

\* The scan of the whole bus finds every card of this machine once, behind the
\* keyboard and the mouse and in the order of the bus, unless the heap is full.
THEOREM EveryCardFoundOnce == Spec => []EveryCardOnce
<1>1. ASSUME IInv, ScanInv PROVE EveryCardOnce
  <2> SUFFICES ASSUME stage \in {"activate", "send", "sti", "running"}
               PROVE  /\ drivers = <<Keyboard, Mouse>> \o Found
                      /\ room > 0 => Len(Found) = Cardinality(CardPlaces)
                      /\ \A i \in DOMAIN Found : /\ Found[i].kind = "am79c973"
                                                 /\ Found[i].at \in CardPlaces
                      /\ \A i, j \in DOMAIN Found :
                            i < j => Earlier(Found[i].at, Found[j].at)
    BY DEF EveryCardOnce
  <2> DEFINE n == Len(drivers)
             m == Len(Found)
  <2>1. /\ stage \notin BeforeScan /\ stage \in AfterScan
        /\ place[1] = Devices
    BY <1>1 DEF BeforeScan, AfterScan, ScanInv, ScanPlaced
  <2>2. /\ drivers \in Seq(AnyDriver) /\ n >= 2
        /\ drivers[1] = Keyboard /\ drivers[2] = Mouse
    BY <1>1, <2>1 DEF ScanInv, DriversAdded
  <2>3. /\ Found \in Seq(AnyDriver) /\ n \in Nat
        /\ m = IF 3 <= n THEN n - 2 ELSE 0
        /\ \A i \in DOMAIN Found : i + 2 \in 3 .. n /\ Found[i] = drivers[i + 2]
    BY <1>1, FoundIsTail DEF ScanInv
  <2>10. DOMAIN Found = 1 .. m
    BY <2>3, LenProperties
  <2> HIDE DEF n, m
  <2>4. DOMAIN Found = 1 .. m /\ m = n - 2 /\ m \in Nat
    <3>1. n >= 2 /\ n \in Nat /\ m = IF 3 <= n THEN n - 2 ELSE 0
      BY <2>2, <2>3
    <3> QED
      BY SMT, <2>10, <3>1
  <2>5. \A i \in 1 .. m : i + 2 \in 3 .. n /\ Found[i] = drivers[i + 2]
    BY <2>3, <2>4
  <2>6. \A i \in 1 .. m : Found[i].kind = "am79c973" /\ Found[i].at \in CardPlaces
    BY <1>1, <2>5 DEF ScanInv, CardsListed, n
  <2>7. ASSUME NEW i \in 1 .. m, NEW j \in 1 .. m, i < j
        PROVE  Earlier(Found[i].at, Found[j].at)
    <3>1. i + 2 < j + 2
      BY SMT, <2>7
    <3> QED
      BY <1>1, <2>5, <3>1 DEF ScanInv, CardsListed, n
  <2>8. drivers = <<Keyboard, Mouse>> \o Found
    <3> DEFINE front == <<Keyboard, Mouse>>
    <3>1. \A a, b : /\ Len(<<a, b>>) = 2 /\ <<a, b>>[1] = a /\ <<a, b>>[2] = b
                    /\ a \in AnyDriver /\ b \in AnyDriver => <<a, b>> \in Seq(AnyDriver)
      OBVIOUS
    <3>2. Keyboard \in AnyDriver /\ Mouse \in AnyDriver
      <4>1. 1 \in 1 .. n /\ 2 \in 1 .. n
        BY SMT, <2>2, <2>3
      <4> QED
        BY <2>2, <4>1, LenProperties DEF n
    <3>3. /\ front \in Seq(AnyDriver) /\ Len(front) = 2
          /\ front[1] = Keyboard /\ front[2] = Mouse
      BY <3>1, <3>2
    <3> HIDE DEF front
    <3>7. /\ front \o Found \in Seq(AnyDriver)
          /\ Len(front \o Found) = Len(front) + Len(Found)
          /\ \A i \in 1 .. Len(front) + Len(Found) :
                (front \o Found)[i] = IF i <= Len(front) THEN front[i]
                                      ELSE Found[i - Len(front)]
      BY <2>3, <3>3, ConcatProperties
    <3>4. /\ front \o Found \in Seq(AnyDriver) /\ Len(front \o Found) = 2 + m
          /\ \A i \in 1 .. 2 + m :
                (front \o Found)[i] = IF i <= 2 THEN front[i] ELSE Found[i - 2]
      BY Zenon, <3>3, <3>7 DEF m
    <3>5. 2 + m = n
      BY SMT, <2>3, <2>4
    <3>6. ASSUME NEW i \in 1 .. n PROVE drivers[i] = (front \o Found)[i]
      <4>1. CASE i <= 2
        <5>1. i = 1 \/ i = 2
          BY SMT, <4>1
        <5> QED
          BY <2>2, <3>3, <3>4, <3>5, <4>1, <5>1
      <4>2. CASE ~(i <= 2)
        <5>1. i - 2 \in 1 .. m /\ (i - 2) + 2 = i
          BY SMT, <2>3, <2>4, <4>2
        <5> QED
          BY <2>5, <3>4, <3>5, <4>2, <5>1
      <4> QED
        BY <4>1, <4>2
    <3> QED
      BY <2>2, <3>4, <3>5, <3>6, SeqEqual DEF n, front
  <2>9. ASSUME room > 0 PROVE m = Cardinality(CardPlaces)
    <3> DEFINE f == [i \in 1 .. m |-> Found[i].at]
    <3>1. f \in [1 .. m -> CardPlaces]
      BY <2>6
    <3>2. ASSUME NEW i \in 1 .. m, NEW j \in 1 .. m, f[i] = f[j]
          PROVE  i = j
      <4>1. ~Earlier(f[i], f[j]) /\ ~Earlier(f[j], f[i])
        BY <3>1, <3>2, EarlierIrreflexive DEF CardPlaces
      <4>2. ~(i < j) /\ ~(j < i)
        BY <2>7, <4>1
      <4> QED
        BY SMT, <4>2
    <3>3. ASSUME NEW c \in CardPlaces PROVE \E i \in 1 .. m : f[i] = c
      <4>1. Earlier(c, place)
        <5>1. c[1] < Devices
          BY PlaceNumbers DEF CardPlaces
        <5> QED
          BY <2>1, <5>1 DEF Earlier
      <4>2. PICK i \in 3 .. n : drivers[i].at = c
        BY <1>1, <2>1, <2>9, <4>1 DEF ScanInv, NoCardMissed, n
      <4>3. i - 2 \in 1 .. m /\ (i - 2) + 2 = i
        BY SMT, <2>3, <2>4
      <4>4. Found[i - 2].at = c
        BY <2>5, <4>2, <4>3
      <4> QED
        BY <4>3, <4>4
    <3> HIDE DEF f
    <3>4. f \in Bijection(1 .. m, CardPlaces)
      BY <3>1, <3>2, <3>3 DEF Bijection, Injection, Surjection, IsInjective
    <3>5. ExistsBijection(1 .. m, CardPlaces)
      BY <3>4 DEF ExistsBijection
    <3> QED
      BY <2>4, <3>5, FS_CountingElements
  <2> QED
    BY <2>4, <2>6, <2>7, <2>8, <2>9 DEF m
<1> QED
  BY <1>1, ScanInvariant, PTL

\* The port of a card's driver is that of one of the card's I/O registers, and
\* never what was on the stack in place of a register.
THEOREM PortBasesRight == Spec => []PortBaseRight
<1>1. ASSUME ScanInv PROVE PortBaseRight
  BY <1>1, FoundIsTail DEF ScanInv, PortsRight, PortBaseRight
<1> QED
  BY <1>1, ScanInvariant, PTL

-----------------------------------------------------------------------------
(* What a segment descriptor holds, for every base and every limit *)

UInt32 == {n \in Nat : n < 4294967296}
UInt8 == {n \in Nat : n < 256}

\* The bytes of a descriptor, one by one.
LEMMA DescriptorBytes ==
    ASSUME NEW base \in UInt32, NEW limit \in UInt32, NEW type \in UInt8
    PROVE  LET target == SegmentDescriptor(base, limit, type)
           IN  /\ target[1] = Encoded(limit) % 256
               /\ target[2] = (Encoded(limit) \div 256) % 256
               /\ target[3] = base % 256
               /\ target[4] = (base \div 256) % 256
               /\ target[5] = (base \div 65536) % 256
               /\ target[7] = (IF limit <= 65536 THEN 64 ELSE 192)
                                 + ((Encoded(limit) \div 65536) % 16)
               /\ target[8] = (base \div 16777216) % 256
BY SMT DEF SegmentDescriptor

\* The constructor of SegmentDescriptor and Base(): every base comes back.
THEOREM BaseExact ==
    ASSUME NEW base \in UInt32, NEW limit \in UInt32, NEW type \in UInt8
    PROVE  Base(SegmentDescriptor(base, limit, type)) = base
<1> DEFINE target == SegmentDescriptor(base, limit, type)
<1>1. base \in Int /\ 0 <= base /\ base < 4294967296
  BY SMT DEF UInt32
<1>2. /\ base \div 256 = base \div 256
      /\ base = (256 * (base \div 256)) + (base % 256)
      /\ base \div 256 = (256 * (base \div 65536)) + ((base \div 256) % 256)
      /\ base \div 65536 = (256 * (base \div 16777216)) + ((base \div 65536) % 256)
      /\ (base \div 16777216) % 256 = base \div 16777216
  BY SMT, <1>1
<1>3. QED
  BY SMT, <1>1, <1>2, DescriptorBytes DEF Base

\* What is stored fits into the descriptor's 20 bits.
LEMMA EncodedFits ==
    ASSUME NEW limit \in UInt32
    PROVE  /\ Encoded(limit) \in Nat /\ Encoded(limit) < 1048576
           /\ LET e == Encoded(limit)
              IN  e = (256 * ((256 * ((e \div 65536) % 16)) + ((e \div 256) % 256)))
                       + (e % 256)
<1>1. Encoded(limit) \in Nat /\ Encoded(limit) < 1048576
  BY SMT DEF Encoded, UInt32
<1>2. QED
  BY SMT, <1>1

\* The two comments in the constructor: a segment never reaches beyond the
\* limit it was made for, and wastes at most 4095 bytes.
THEOREM LimitsTight == \A limit \in UInt32 : LimitTight(limit)
<1> SUFFICES ASSUME NEW limit \in UInt32 PROVE LimitTight(limit)
  BY SMT
<1> DEFINE target == SegmentDescriptor(0, limit, 0)
<1> DEFINE e == Encoded(limit)
<1>0. 0 \in UInt32 /\ 0 \in UInt8
  BY SMT DEF UInt32, UInt8
<1>1. e \in Nat /\ e < 1048576 /\ limit \in Int /\ 0 <= limit
  BY SMT, EncodedFits DEF UInt32
<1>2. /\ target[1] = e % 256
      /\ target[2] = (e \div 256) % 256
      /\ target[7] = (IF limit <= 65536 THEN 64 ELSE 192) + ((e \div 65536) % 16)
  BY SMT, <1>0, DescriptorBytes
<1>3. target[7] % 16 = (e \div 65536) % 16
  BY SMT, <1>1, <1>2
<1>4. StoredLimit(target) = e
  BY SMT, <1>1, <1>2, <1>3, EncodedFits DEF StoredLimit
<1>5. (target[7] \div 64 = 3) <=> limit > 65536
  BY SMT, <1>1, <1>2
<1>6. CASE limit <= 65536
  BY SMT, <1>1, <1>4, <1>5, <1>6 DEF Limit, LimitTight, Encoded
<1>7. CASE limit > 65536
  <2>1. Limit(target) = (4096 * e) + 4095
    BY SMT, <1>4, <1>5, <1>7 DEF Limit
  <2>2. /\ e = IF limit % 4096 # 4095 THEN (limit \div 4096) - 1 ELSE limit \div 4096
        /\ limit = (4096 * (limit \div 4096)) + (limit % 4096)
        /\ limit % 4096 \in Nat /\ limit % 4096 < 4096
    BY SMT, <1>1, <1>7 DEF Encoded
  <2>3. Limit(target) <= limit /\ limit - Limit(target) <= 4095
    BY SMT, <1>1, <2>1, <2>2
  <2>4. QED
    BY SMT, <2>3 DEF LimitTight
<1>8. QED
  BY SMT, <1>1, <1>6, <1>7
=============================================================================
