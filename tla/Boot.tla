--------------------------------- MODULE Boot ---------------------------------
(***************************************************************************)
(* kernelMain, from the interrupt manager to the end of the hardware's     *)
(* initialisation, and the interrupts after it: the PCI controller finds   *)
(* drivers (pci.cpp), the driver manager activates them (driver.cpp), the  *)
(* first network card sends a frame, and the interrupt manager gives each  *)
(* interrupt to its handler and acknowledges it (interrupts.cpp).          *)
(*                                                                         *)
(* The rings of the card in drivers[2] are those of NetworkCard; a second  *)
(* card is not on a network.  The two interrupt controllers (PIC) are      *)
(* external.  Keyboard, mouse and timer are modules of their own: here     *)
(* their handlers only take their turn.                                    *)
(***************************************************************************)
EXTENDS NetworkCard, GlobalDescriptorTable, FiniteSetsExt

CONSTANTS
    Buses,          \* what the bus may hold: [Places -> function or Absent]
    Devices,        \* bound: 8 buses with 32 devices each, in scan order
    Functions,      \* 8 functions for each device
    Absent,         \* the answer of an empty slot, vendor 0xFFFF or 0
    Addresses,      \* what a base address register can hold, 0 as well
    MaxCards,       \* bound: cards the heap has room for
    MaxRequests     \* bound: interrupts of the other devices

ASSUME BootAssumption ==
    /\ Devices \in Nat \ {0} /\ Functions \in Nat \ {0}
    /\ 0 \in Addresses /\ MaxCards \in Nat /\ MaxRequests \in Nat

Places == (0 .. Devices - 1) \X (0 .. Functions - 1)

\* The configuration space of a function: its interrupt line is a byte of it,
\* and it has room for six base address registers.
ASSUME ConfigurationAssumption ==
    \A b \in Buses, at \in Places : b[at] # Absent =>
        /\ b[at].line \in 0 .. 255
        /\ b[at].bars \in [1 .. 6 -> [io : BOOLEAN, address : Addresses]]

VARIABLES
    bus,            \* the bus of this machine
    gdt,            \* the segment descriptors: null, unused, code, data
    stage,          \* what kernelMain does next
    place,          \* SelectDrivers' device and function
    drivers,        \* the driver manager's array
    handlers,       \* the interrupt manager's handlers, by interrupt number
    room,           \* cards the heap has room for
    requested,      \* interrupt lines the other devices have raised
    requests,       \* how often they have
    inService,      \* lines in service: [master, slave]
    interrupt       \* the line being handled, or None

bootVars == <<bus, gdt, stage, place, drivers, handlers, room>>
picVars == <<requested, requests, inService, interrupt>>
vars == <<networkVars, bootVars, picVars>>

None == -1
HardwareInterruptOffset == 32

\* InterruptNumber is a uint8_t.
Number(line) == (line + HardwareInterruptOffset) % 256

Driver(kind, at, line, portBase) ==
    [kind |-> kind, at |-> at, line |-> line, portBase |-> portBase]
Keyboard == Driver("keyboard", None, 1, 96)
Mouse == Driver("mouse", None, 12, 96)
Syscalls == Driver("syscalls", None, 128, 0)

Stages == {"gdt", "interrupts", "syscalls", "keyboard", "mouse", "pci", "activate",
           "send", "sti", "running", "undefined"}

\* The lines of the slave are reported through line 2 of the master.
Cascade == 2

MasterLine(line) == IF line >= 8 THEN Cascade ELSE line

Init ==
    /\ NetworkInit
    /\ bus \in Buses
    /\ gdt = <<>>
    /\ stage = "gdt"
    /\ place = <<0, 0>>
    /\ drivers = <<>>
    /\ handlers = <<>>
    /\ room \in 0 .. MaxCards
    /\ requested = {} /\ requests = 0
    /\ inService = [master |-> {}, slave |-> {}]
    /\ interrupt = None

-----------------------------------------------------------------------------
(* kernelMain *)

Then(from, to) == stage = from /\ stage' = to

\* InterruptHandler: the number may have been another handler's.
Register(driver) ==
    handlers' = [n \in DOMAIN handlers \cup {Number(driver.line)} |->
                    IF n = Number(driver.line) THEN driver ELSE handlers[n]]

\* DriverManager::AddDriver
AddDriver(driver) == drivers' = Append(drivers, driver)

\* The constructor of GlobalDescriptorTable: 64 MB of code (0x9A) and data
\* (0x92).
SegmentLimits == <<0, 0, 67108864, 67108864>>
SegmentTypes == <<0, 0, 154, 146>>

BuildSegments ==
    /\ Then("gdt", "interrupts")
    /\ gdt' = [i \in 1 .. 4 |-> SegmentDescriptor(0, SegmentLimits[i], SegmentTypes[i])]
    /\ UNCHANGED <<networkVars, picVars, bus, place, drivers, handlers, room>>

InstallInterrupts ==
    /\ Then("interrupts", "syscalls")
    /\ handlers' = <<>>
    /\ UNCHANGED <<networkVars, picVars, bus, gdt, place, drivers, room>>

InstallSyscalls ==
    /\ Then("syscalls", "keyboard")
    /\ Register(Syscalls)
    /\ UNCHANGED <<networkVars, picVars, bus, gdt, place, drivers, room>>

AddKeyboard ==
    /\ Then("keyboard", "mouse")
    /\ Register(Keyboard) /\ AddDriver(Keyboard)
    /\ UNCHANGED <<networkVars, picVars, bus, gdt, place, room>>

AddMouse ==
    /\ Then("mouse", "pci")
    /\ Register(Mouse) /\ AddDriver(Mouse)
    /\ UNCHANGED <<networkVars, picVars, bus, gdt, place, room>>

\* A device with one function may answer as that function for all of them.
Answer(at) == bus[at]

\* Mutant of NumFunctions: all of them are always asked.
NumFunctionsAlways == Functions

\* DeviceHasFunctions: bit 7 of the header type, which an empty slot reads
\* as set.
NumFunctions ==
    LET first == Answer(<<place[1], 0>>)
    IN  IF first = Absent \/ first.multifunction THEN Functions ELSE 1

\* GetBaseAddressRegister answers with what was on the stack for registers a
\* header of this type does not have, and leaves the address of a memory
\* register as it was.
NumBars(function) == 6 - (4 * function.headertype)
BarResults(function, bar) ==
    IF bar > NumBars(function)
    THEN [io : BOOLEAN, address : Addresses]
    ELSE IF function.bars[bar].io THEN {function.bars[bar]}
    ELSE [io : {FALSE}, address : Addresses]

\* Mutant of SetsPort: the type of the register is not looked at.
SetsPortAlways(bar) == bar.address # 0

SetsPort(bar) == bar.address # 0 /\ bar.io

\* The last register that sets it wins; a descriptor without one keeps what
\* was on the stack.
PortBases(function) ==
    LET Candidates(bar) == {r.address : r \in {q \in BarResults(function, bar) : SetsPort(q)}}
        Kept(bar) == \E r \in BarResults(function, bar) : ~SetsPort(r)
        Last(bar) == \A later \in bar + 1 .. 6 : Kept(later)
    IN  UNION {Candidates(bar) : bar \in {b \in 1 .. 6 : Last(b)}}
        \cup (IF Last(0) THEN Addresses ELSE {})

NextPlace ==
    IF place[2] + 1 < NumFunctions THEN <<place[1], place[2] + 1>>
    ELSE <<place[1] + 1, 0>>

IsCard(function) == function.device = "am79c973"

\* What SelectDrivers takes for granted of a network card and does not look
\* at: its header is of type 0, and the firmware gave it an I/O port.
ASSUME CardAssumption ==
    \A b \in Buses, at \in Places : b[at] # Absent /\ IsCard(b[at]) =>
        /\ b[at].headertype = 0
        /\ \E bar \in 1 .. 6 : b[at].bars[bar].io /\ b[at].bars[bar].address # 0

\* GetDriver: a card the heap has room for is constructed on the heap.
Constructs(function) == IsCard(function) /\ room > 0

SelectsDriver(at) ==
    \E portBase \in PortBases(Answer(at)) :
        LET card == Driver("am79c973", at, Answer(at).line, portBase)
        IN  Register(card) /\ AddDriver(card)

ScanFunction ==
    /\ stage = "pci" /\ place[1] < Devices
    /\ IF Answer(place) # Absent /\ Constructs(Answer(place))
       THEN SelectsDriver(place) /\ room' = room - 1
       ELSE UNCHANGED <<drivers, handlers, room>>
    /\ place' = NextPlace
    /\ UNCHANGED <<networkVars, picVars, bus, gdt, stage>>

ScanEnds ==
    /\ place[1] = Devices /\ Then("pci", "activate")
    /\ UNCHANGED <<networkVars, picVars, bus, gdt, place, drivers, handlers, room>>

\* drivers[2]
HasEth0 == Len(drivers) > 2
Eth0 == drivers[3]

\* ActivateAll: of the drivers only the card's changes what is modelled here.
ActivateAll ==
    /\ Then("activate", "send")
    /\ IF HasEth0 THEN ActivateCard ELSE UNCHANGED networkVars
    /\ UNCHANGED <<picVars, bus, gdt, place, drivers, handlers, room>>

\* Without a card drivers[2] was never written, and Send is called on
\* whatever is there.
SendHello ==
    /\ IF HasEth0 THEN Then("send", "sti") /\ Send
       ELSE Then("send", "undefined") /\ UNCHANGED networkVars
    /\ UNCHANGED <<picVars, bus, gdt, place, drivers, handlers, room>>

ActivateInterrupts ==
    /\ Then("sti", "running")
    /\ UNCHANGED <<networkVars, picVars, bus, gdt, place, drivers, handlers, room>>

KernelMain ==
    \/ BuildSegments \/ InstallInterrupts \/ InstallSyscalls \/ AddKeyboard \/ AddMouse
    \/ ScanFunction \/ ScanEnds
    \/ ActivateAll \/ SendHello \/ ActivateInterrupts

-----------------------------------------------------------------------------
(* Interrupts *)

\* The timer, the keyboard, the mouse, or a disk nobody handles.
OtherLines == {0, 1, 12, 14}
TimerLine == 0

Raise(line) ==
    /\ stage \notin {"gdt", "interrupts"} /\ requests < MaxRequests
    /\ line \notin requested
    /\ requested' = requested \cup {line}
    /\ requests' = requests + 1
    /\ UNCHANGED <<networkVars, bootVars, inService, interrupt>>

\* The card's line follows its status.
CardLines == IF HasEth0 /\ csr0 # {} THEN {Eth0.line} ELSE {}
Waiting == requested \cup CardLines

\* A line waits for the lines before it, in the order 0, 1, 8 .. 15, 3 .. 7.
Rank(line) == IF line >= 8 THEN (8 * Cascade) + (line - 8) ELSE 8 * line
Blocked(line) ==
    \/ \E other \in inService.master : Rank(other) <= Rank(MasterLine(line))
    \/ line >= 8 /\ \E other \in inService.slave : other <= line

\* The processor takes the first line that waits and starts its handler with
\* interrupts off.  The card's handler is HandlerBegins.
HandledBy(line, driver) ==
    Number(line) \in DOMAIN handlers /\ handlers[Number(line)] = driver

TakeInterrupt(line) ==
    /\ stage = "running" /\ interrupt = None
    /\ line \in Waiting /\ ~Blocked(line)
    /\ \A other \in Waiting : ~Blocked(other) => Rank(line) <= Rank(other)
    /\ interrupt' = line
    /\ requested' = requested \ {line}
    /\ inService' = [master |-> inService.master \cup {MasterLine(line)},
                     slave  |-> inService.slave \cup ({line} \cap 8 .. 15)]
    /\ IF HasEth0 /\ HandledBy(line, Eth0) THEN HandlerBegins ELSE UNCHANGED networkVars
    /\ UNCHANGED <<bootVars, requests>>

\* The end of interrupt is for the first line in service of a controller.
Served(lines) == lines \ {x \in lines : \A other \in lines : Rank(x) <= Rank(other)}

\* Mutant of EndOfSlave: only the master is told.
EndOfSlaveNever(lines) == lines

EndOfSlave(lines) == IF interrupt >= 8 THEN Served(lines) ELSE lines

\* DoHandleInterrupt after the handler; a line nobody handles is printed.
EndOfInterrupt ==
    /\ interrupt # None /\ step = "out"
    /\ inService' = [master |-> Served(inService.master),
                     slave  |-> EndOfSlave(inService.slave)]
    /\ interrupt' = None
    /\ UNCHANGED <<networkVars, bootVars, requested, requests>>

CardHandler == HandlerStep /\ UNCHANGED <<bootVars, picVars>>
Card == CardStep /\ UNCHANGED <<bootVars, picVars>>

Next ==
    \/ KernelMain
    \/ \E line \in OtherLines : Raise(line)
    \/ \E line \in 0 .. 15 : TakeInterrupt(line)
    \/ CardHandler \/ EndOfInterrupt
    \/ Card

\* The processor goes on; so does the card with what it has been told.
Fairness ==
    /\ WF_vars(KernelMain)
    /\ WF_vars(\E line \in 0 .. 15 : TakeInterrupt(line))
    /\ WF_vars(CardHandler) /\ WF_vars(EndOfInterrupt)
    /\ WF_vars((CardStarts \/ CardSends) /\ UNCHANGED <<bootVars, picVars>>)

Spec == Init /\ [][Next]_vars /\ Fairness

-----------------------------------------------------------------------------
(* Properties *)

TypeOK ==
    /\ NetworkTypeOK
    /\ bus \in Buses /\ stage \in Stages
    /\ place \in (0 .. Devices) \X (0 .. Functions - 1)
    /\ \A n \in DOMAIN handlers : n \in 0 .. 255
    /\ room \in 0 .. MaxCards
    /\ requested \subseteq 0 .. 15 /\ requests \in 0 .. MaxRequests
    /\ inService.master \subseteq 0 .. 7 /\ inService.slave \subseteq 8 .. 15
    /\ interrupt \in {None} \cup 0 .. 15

\* The cards of this machine: a device that answers for all of its functions
\* without having them is one card.
Real(at) ==
    /\ Answer(at) # Absent /\ IsCard(Answer(at))
    /\ at[2] = 0 \/ (Answer(<<at[1], 0>>) # Absent => Answer(<<at[1], 0>>).multifunction)
CardPlaces == {at \in Places : Real(at)}

\* After the scan every card has one driver, as long as the heap has room,
\* behind the keyboard and the mouse and in the order of the bus.
Found == SubSeq(drivers, 3, Len(drivers))
Earlier(a, b) == a[1] < b[1] \/ (a[1] = b[1] /\ a[2] < b[2])
EveryCardOnce ==
    stage \in {"activate", "send", "sti", "running"} =>
        /\ drivers = <<Keyboard, Mouse>> \o Found
        /\ room > 0 => Len(Found) = Cardinality(CardPlaces)
        /\ \A i \in DOMAIN Found : /\ Found[i].kind = "am79c973"
                                    /\ Found[i].at \in CardPlaces
        /\ \A i, j \in DOMAIN Found : i < j => Earlier(Found[i].at, Found[j].at)

\* The port of a card is that of its I/O register, whatever was on the stack
\* in place of the registers that were not read.
PortBaseRight ==
    \A i \in DOMAIN Found :
        \E bar \in 1 .. 6 :
            /\ Answer(Found[i].at).bars[bar].io
            /\ Found[i].portBase = Answer(Found[i].at).bars[bar].address

\* Between interrupts nothing is in service, so no line stays blocked,
\* and each controller has only its own lines in service (TypeOK).
EverythingAcknowledged ==
    /\ TypeOK
    /\ interrupt = None => inService = [master |-> {}, slave |-> {}]
=============================================================================
