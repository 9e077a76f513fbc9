# Verification of a teaching kernel and a FAT file system

This directory holds TLA+ models of the code of this repository, the TLC
configurations that check them on small instances, and TLAPS proofs of the
results that hold for every size. `HW1 - My OS` is a 32-bit kernel (process
table, scheduler, system calls, heap, drivers, a desktop); `HW2 - FAT File
System` is a file system in one image file, with a program that creates it and
one that works on it. Everything here is translated from the source files; the
map from definitions to lines is in `PROJECT.json`.

## 1. Inventory

### The kernel (`src/HW1 - My OS/my_os`)

| Part | State it keeps | Operations | What makes it correct | Module |
|---|---|---|---|---|
| `TaskManager` (multitasking.cpp) | 256 task slots, current task, ready queue, the two pointers and the counter of the collatz lifecycles, `ignoreSchedule` | `AddTask`, `Fork`, `Execve`, `Waitpid`, `Exit`, `Schedule` on a tick, `BlockForCollatz`, `SetLastTaskPriority`, `CollatzAdded`, `SetIgnoreSchedule` | the queue holds each Ready task once; no wakeup is lost; a child is delivered once; a pop finds a task; the best task runs; nobody starves | `TaskManager` |
| `SyscallHandler` (syscalls.cpp) | none | dispatch on eax | a call reaches its handler and its answer the caller | `TaskManager` |
| Programs (kernel.cpp) | four input counters; the init programs of lifecycles A, B1 to B4; four workers | fork, exec and wait scripts | a child becomes its program; each run has its own input; init reports the end when all is over, and comes to it | `LifeCycles` |
| `MemoryManager` (memorymanagement.cpp) | a doubly linked list of chunks inside the heap | `malloc`, `free`, `new`, `delete` | blocks do not overlap; free space is coalesced | `MemoryManager` |
| Console (`printf`, `MouseToConsole` in kernel.cpp) | cursor x, y shared by every caller; the pointer; video memory | `printf`, `OnMouseMove` | the cursor comes back to the screen, printf ends, the pointer is shown once and goes where the mouse goes | `Console` |
| Mouse driver (mouse.cpp) | packet buffer, offset, buttons | `Activate`, `HandleInterrupt` | driver and mouse agree on where a packet starts | `MouseDriver` |
| Keyboard driver (keyboard.cpp) | none | `HandleInterrupt` | | text in `Console` |
| Desktop, windows, widgets (gui/), VGA (vga.cpp) | children, places, drag flags, pointer | mouse events, drawing | a drag ends; a window keeps under the pointer; a drawn screen shows what a click hits | `Desktop` |
| `InterruptManager` (interrupts.cpp) | handlers, the two PICs | registration, `Activate`, `DoHandleInterrupt` | everything in service is acknowledged, so no line stays blocked | `Boot` |
| PCI, driver manager (pci.cpp, driver.cpp) | scan position, driver table | `SelectDrivers`, `AddDriver`, `ActivateAll` | every card gets one driver and its own ports | `Boot` |
| Network card (amd_am79c973.cpp) | two rings of eight descriptors, status register | `Activate`, `Send`, `Receive`, `HandleInterrupt` | driver and card agree on the ring; no frame is forgotten, or has its turn twice or out of order; what is shown in it comes from no earlier frame | `NetworkCard`, `Boot` |
| `GlobalDescriptorTable` (gdt.cpp) | eight bytes per segment | encode, `Base`, `Limit` | what is decoded is what was encoded | `GlobalDescriptorTable` |
| ATA (ata.cpp) | the bus's registers | `Identify`, `Read28`, `Write28`, `Flush` | whole sectors move; what was written is read, after a power cut too if it was flushed; calls return | `AdvancedTechnologyAttachment` |
| Ports, loader | none | one instruction each | | not modelled |

Parts interact in four ways. A program calls the kernel through interrupt 0x80,
and the handler may switch tasks by returning another task's stack pointer. The
timer interrupt calls `TaskManager::Schedule(cpustate)`. Handlers and tasks share
the globals of kernel.cpp (the input counters, the cursor). Devices work beside
the processor and share memory (the network card's rings) or registers (ATA)
with their drivers. All gates are interrupt gates, so a handler is never
interrupted, and on one processor a handler is atomic for the programs, but not
for a device; programs are interrupted between any two instructions.

### The file system (`src/HW2 - FAT File System`)

| Part | State it keeps | Operations | What makes it correct | Module |
|---|---|---|---|---|
| makeFileSystem.c | the image | `create_filesystem` | the FAT and the counts agree | `FatFileSystem` |
| fileSystemOper.c, utils.c | superblock and FAT in memory during one command; the image | `mkdir`, `write`, `read`, `dir`, `chmod`, `addpw` | blocks have one owner; what was written is read; counts and sizes agree; a crash loses no finished work | `FatFileSystem` |

### What is hard here

* interleaving: a tick between any two instructions of a program, in particular
  between fork and the child's exec, around the shared input counters, inside
  B4's critical region, and inside `printf`;
* ordering of exit against waitpid, and of collatz's exit against the fifth
  interrupt, both of which resume a blocked task;
* a queue and a table with fixed sizes and unchecked ends;
* long legal sequences of malloc and free;
* two sides of a ring that never see each other's position; frames that arrive
  while the last one is acknowledged;
* a protocol without framing (the mouse's packets) and registers that keep what
  another command left in them (ATA, PCI);
* receive buffers that overlap, so that frames waiting together overwrite each
  other;
* press, drag and release over windows that overlap, and a screen that is painted
  window by window while they move;
* a file system command killed between two writes, a power cut before a flush.

`PROJECT.json` lists these as hazards, each at its line with the properties that
cover it.

## 2. Modules

| Module | Models | Built from |
|---|---|---|
| `TaskManager` | process table, scheduler, system calls | multitasking.cpp, syscalls.cpp, the timer branch of interrupts.cpp |
| `LifeCycles` | the kernel as it is run: `TaskManager` composed with the programs | kernel.cpp |
| `MCLifeCycles` | startInitProcess: the five lifecycles at their sizes, one of which runs | kernel.cpp |
| `Heap` | what `new` and `delete` promise (abstract) | |
| `MemoryManager` | the chunk list, shown to implement `Heap` | memorymanagement.cpp |
| `Console` | printf, instruction by instruction, and the console's pointer | kernel.cpp, keyboard.cpp |
| `MouseDriver` | the mouse and its driver | mouse.cpp |
| `Desktop` | `MouseDriver` composed with desktop, windows and their drawing | gui/, vga.cpp |
| `FrameQueue` | what card and driver promise about frames (abstract) | |
| `NetworkCard` | rings, driver and card, shown to implement `FrameQueue` | amd_am79c973.cpp |
| `GlobalDescriptorTable` | encoding and decoding of segments | gdt.cpp |
| `Boot` | kernelMain's initialisation and the interrupts after it, composed with `NetworkCard` and `GlobalDescriptorTable` | kernel.cpp, pci.cpp, driver.cpp, interrupts.cpp |
| `AdvancedTechnologyAttachment` | driver, bus and drives | ata.cpp |
| `FatFileSystem` | an image and the commands that change it, write by write | makeFileSystem.c, fileSystemOper.c, utils.c |
| `MC...` | constants for TLC | |
| `..._proofs` | theorems about `TaskManager`, `LifeCycles`, `MemoryManager`, `Console`, `Boot` with `NetworkCard` and `GlobalDescriptorTable`, `AdvancedTechnologyAttachment`, `Desktop` with `MouseDriver`, and `FatFileSystem` |

Operators named "Mutant of X" next to a definition X are plausible slips in X.
No behaviour uses them; `PROJECT.json` says which property each of them breaks
when it takes X's place.

### TaskManager

One variable per field: the slots of `tasks[]` are functions from `Pids`
(`state`, `ppid`, `priority`, `waitingChild`, ...), `readyQueue` is the array up
to `queueLen`, `eax` is the result register in each task's saved context. One
action per handler: `TimerInterrupt`, `Fork`, `ForkPid`, `Execve`, `Waitpid`,
`Exit`, `BlockForCollatz`, `SetLastTaskPriority`, `CollatzAdded`,
`SetIgnoreSchedule`. A handler runs with interrupts disabled on one processor,
so it is one step, with the switch to the next task (`Schedule`) in it.
`fault` records the two places where the code goes on into undefined behaviour:
a pop from an empty queue, and a fork with a full table (`AddTask` answers null
and `Fork` uses it). Nothing is modelled behind a fault.

`Next` lets any task make any call, with two limits that every program of
kernel.cpp keeps: init does not exit, and a priority is set right after a fork
under preemptive priority. The four calls of the collatz scripts are only made
by the scripts, so they are in `LifeCycles`.

### LifeCycles

The init programs of lifecycles A and B1 to B4 are written as sequences of
calls, `Scripts`, and the four workers as `Worker`. `pc` is a task's next
instruction. Fork copies `pc`, as it copies the stack. `inputs[no++]` is two
steps, `LoadStep` and `StoreStep`, since a tick may come between its load and
its store. How long a worker computes is `MinTicks`, the ticks its `Delay` loops
last at least. `MCLifeCycles` extends the module for B1 and instantiates it for the
other four, over the same variables; `lifeCycleType` says which of the five the
kernel was built with. The properties are written without the constants, so one
statement is checked of all five; `InputsDistinct` is not of A, which runs under
round robin (`InputsDistinctByPriority`).

### Heap and MemoryManager

Addresses are numbers. `chunks` maps the address of each header in the list to
the header, with `next` and `prev` as in the code. `malloc` and `free` are one
step each. `Heap` says what a caller may rely on: a live block lies in the heap,
is as long as was asked for and overlaps no other; `LiveBlocks` is the refinement
mapping, from a header that is allocated to the block behind it.

### Console

Tasks call `printf` directly, so its static `x` and `y` are shared without any
lock. A step of a task is one load or one store of x or y: `x++` is `LoadX` and
`StoreX`, `if(x >= 80)` is `TestX` and the `x = 0` behind it a `ZeroX`. The change of a
cell is `LoadCell` and `StoreCell`, each with the x and y of its address in one step,
which is coarser than the code; `at` is the task's next instruction. A character matters only as to whether it starts a line. A handler
(`HandlerBegins`, `HandlerPrints`) prints with interrupts off. `MouseMoves` is
the console's mouse handler: `Int8` is the overflow of its int8 position, `Clip`
the two tests behind it. `swapped` holds the cells whose colours are swapped, the
only thing of video memory that is kept. A stale store can put the cursor
anywhere in a byte for a while; `StoreCell` then misses the screen and writes
elsewhere in the 64 KB of video memory, which is not shown.

### MouseDriver and Desktop

The mouse puts three bytes on `wire`, the driver takes them one interrupt at a
time into `received`. `Activate` reads the acknowledgment without waiting: `late`
is the case in which it was not there yet, and then it is the first byte of a
packet. `Desktop` handles the events of a complete packet in one step, as the
handler does: first the movement, divided by four and clipped, given to the child
at the old place and to the child at the new one, then the buttons (`OnMouseDown`,
`OnMouseUp` of the child under the pointer as it is by then).

Drawing goes on beside that, pass after pass. `DrawDesktop` begins a pass by
painting the desktop over everything, and each `DrawChild` paints one window into
`screen`, from the last child to the first, at the place the window has at that
moment; a mouse interrupt may come between any two of them. What a window paints is
`Filled`, `FillRectangle`'s loops as they are: an `int32_t` counter is compared with
a `uint32_t` end (`Unsigned`, `End`, `Reaches`), so that nothing is painted of a window
that begins left of or above the screen, and `PutPixel` leaves out what lies beyond
it. `SeenIsHit` compares the two sides, which share nothing but the places: what is
left on the screen by painting, and which child the hit test answers. It is
asked at the end of a pass in which no window moved (`stirred` remembers one that
did; a pass that was stirred may show a window twice or not at all). Coarser than the
code: a window is painted in one step, so it never moves while its own
pixels are filled. The pointer's cross is left out. In the kernel the first timer
interrupt takes the processor from the drawing loop for good, as kernelMain is no
task; the model lets it go on.

### NetworkCard, FrameQueue and Boot

The rings are `recvOwner`, `recvFrame`, `recvSize` and `sendOwner`, with one place for
each side. `memory` are the bytes of the receive buffers, a byte as the number of the
frame it is of, at the addresses the constructor computes (`Address`): as
`recvBuffers` is declared `[2*1024+15][8]`, neighbouring buffers lie 0 or 16 bytes apart
after rounding, and a frame of 64 bytes or more reaches into several. `FrameArrives`
overwrites what lies there, and `Receive` shows what it finds (`Printed`). The card runs beside the handler, so `HandlerBegins`, `ReadStatus`, each
turn of `Receive`, its end, and `Acknowledge` are steps of their own, and frames
arrive between any two of them. `FrameQueue` says what the two promise together:
a queue of at most eight frames, which have their turns in order, one each, damaged
ones skipped. It does not say that a frame is shown unharmed, because that is not
so: what is shown in a turn are bytes of the frames that wait then (`from`), the
frame's own if it waits alone, and never bytes of a frame that had its turn before.
Of two that wait together most or all of the first is shown as the second. `PendingFrames`, the
frames from the driver's place on, is the mapping.

`Boot` is `kernelMain` step by step (`BuildSegments` to `ActivateInterrupts`),
with the scan of the bus function by function. What `GetBaseAddressRegister`
leaves unwritten on the stack is any value (`BarResults`). `HandleInterrupt` is
`TakeInterrupt`, the handler, and `EndOfInterrupt`; `Blocked` and `Rank` are the
priorities of the two interrupt controllers, which decide what a missing
acknowledgment blocks. A kernel without a card calls `Send` on `drivers[2]`,
which was never written: the stage `undefined`, behind which nothing is
modelled.

### GlobalDescriptorTable

`SegmentDescriptor` is the constructor with its two ways to store a limit (in
bytes up to 64 KB, in pages beyond), `BaseOf` and `LimitOf` the decoders.

### AdvancedTechnologyAttachment

`regs` are the registers both drives of a bus see, with the byte left in each of
them. A call sends its command at once and then polls (`Returns`, when the status
lets the loop end); the drives answer in steps of their own (`Answers`,
`AnswersError`), keep written sectors in a cache (`WritesBack`, `Flush`), and lose
it in a `PowerCut`. `written` and `safe` are history: what a read may show.

### FatFileSystem

A command is a process that loads the superblock and the FAT, and then changes
the image by a series of `write` calls. Nothing else runs meanwhile, so what it
will write is a function of what it loaded: the actions `mkdir`, `WriteNew`,
`WriteOver`, `WriteNothing`, `chmod` and `addpw` plan the series into `todo`,
`Write` does the next one, and `Crash` drops the rest. The plan keeps the order
of the code's writes, with every rewrite of the superblock and the FAT as two
writes, and the entry and its name as two. `stored` remembers what a finished
command left under a path. `fault` is reached when a walk comes to bytes no
command wrote, from which the code takes the length of a name.

Abstractions: blocks before the root directory's table are left out (they never
change hands); sizes are in blocks, and a byte of size is a unit of size; names
have one length, such that entry and name divide a block (31 letters, for
example), so that no entry crosses a block's end; a path has one name or two;
dates and the listing of `dir` are left out. `del`, `rmdir` and `dumpe2fs` are
empty in the source, so no entry is ever freed and `add_dir_entry`'s branch for
a passive entry in the middle is dead code.

## 3. Runs

| Run | Question | Bounds |
|---|---|---|
| `task_manager_rr` | all orders of ticks, forks, execve, waitpid (any child, or one) and exits under round robin: exact queue, no empty pop, no lost wakeup, one delivery, no starvation | 4 slots |
| `task_manager_pp` | the same under preemptive priority with priorities changed: the best task is dispatched | 4 slots |
| `lifecycles` | the five lifecycles, with a tick between any two steps: exact queue, children become programs, each run its own input, the critical region of B4, the dead stay dead, init sees all end, and the end comes | A with 2 collatz and 1 long-running; B2 with the drawn pair; B1, B3, B4 at their real sizes |
| `memory_manager` | the list tiles the heap, coalescing is complete, `Heap` is implemented | 16 bytes, 2-byte headers, requests of 0 to 3 |
| `console` | two tasks in printf, a printing handler and the mouse: the cursor comes back, printf returns, the pointer is shown once and follows the mouse | 2 by 2 cells, bytes of 3 bits, one call of one character each, one handler, one movement |
| `desktop` | any mouse movements and buttons over two windows that overlap, while the screen is painted: packets in step, drags that end, grip, a drawn screen shows what a click hits | 2 by 2 pixels, windows of 2 by 1 and 1 by 2, bytes of 4 bits, words of 100 values |
| `boot_network` | four machines (single, multi-function, misbehaving, card-less), interrupts on four other lines, a card and its ring: drivers, ports, acknowledgments, `FrameQueue` implemented, every announced frame looked at | ring of 2 with buffers 16 bytes apart, 3 frames of 68 bytes, 2 devices with 2 functions, 2 other interrupts |
| `ata` | any calls on two drives, errors of identify, read and flush, and a power cut: whole sectors, reads show what was written, no call hangs | 4-byte sectors, 3 sector numbers, reads of -1 and 5 bytes, 2 writes, 1 cut |
| `fat_commands` | all sequences of commands up to a full image: counts, readable directories, contents | 3 free blocks, 4 entries per block, names d, f, g, sizes up to 2 before the last command |
| `fat_crashes` | two commands killed anywhere: one owner per block, safe free counts, finished work | 3 free blocks, names d, f, two one-block files, sizes up to 2 before the last command |
| `fat_long_files` | finding 1 | |
| `fat_full_directory` | finding 2 | |

A module's type invariant is a conjunct of one of its invariants (`TopWindowDrag`,
`EverythingAcknowledged`, `NothingPending`, `FreeCountSafe`, `ChunksTileHeap`), or
it is proved.

Why these bounds are enough. Four slots hold init, a child, a grandchild and a
sibling: the shapes that `Waitpid` and `Exit` tell apart are a parent with no
child, with one, with several, and a waiter for one of several; slots are never
reused, so more tasks repeat these. A third copy of a program of lifecycle A adds
no call. The heap of 16 bytes holds several chunks, so each of the cases of
`free` (neighbours free or not, at either end) comes up with others around it,
and the proofs cover every size. On the console, a screen of two by two has a
line end, a last row and a clear for every character or two, and a byte of eight
values leaves room beyond the screen for stale cursors; proved for every size.
Two windows that overlap give the cases of the code: in front, behind, beside,
and none; on four pixels they can cover each other, reach over each edge and leave
the screen on the left and at the top, where they are not painted. A ring of two with three frames gets full, empty and round, with a
frame lost and one that races with an acknowledgment; the ring's agreement is
proved for every size. Sectors of four bytes tell odd and even counts apart, and
of the three sector numbers two share their low byte. In the image, three free
blocks and two directory levels let tables grow by their first, second and third
entry, let the image fill up, and let directory and file compete for a block.
Files have no more than one block and tables no more entries than a block holds
in the two passing runs, because beyond that the code fails (findings 1 and 2);
the passing runs show what holds below these limits.

`CHECK_DEADLOCK FALSE` stands in the configurations where behaviours do end: at
a fault or in the stage `undefined`, or where a bound stops the users, the
frames, or the calls.

### Fairness

`TaskManager`: weak fairness of the timer interrupt, because the timer chip
raises it for ever and no program masks it. `LifeCycles`: also strong fairness
of each task's step. A slice lasts 55 ms, millions of instructions, so a task
that is dispatched again and again gets further, although ticks keep taking the
processor from it. `EveryReadyTaskRuns` and `LifeCycleEnds` need no more.

`Console`: weak fairness of each task's step inside printf, for the same reason,
and of a handler that prints. Nobody has to call printf or press a key.
`Boot`: weak fairness of kernelMain's steps, of taking an interrupt that waits
and is not blocked, of the handler's steps and its end, and of the card's start
and sending; frames need not arrive. `AdvancedTechnologyAttachment`: weak
fairness of the polling loop and of the drives' answers; without an answer the
loop has no end, since it has no timeout.

## 4. Findings

1. `fat_long_files`: a file longer than a block runs over the blocks behind its
   first. `read` makes the same mistake, so a file reads well until its
   neighbour is written.
2. `fat_full_directory`: one entry more than a directory's block holds is
   written at block number 0x1111, outside of the image. With a program built
   from this source and names of 31 letters, the seventeenth file in the root of
   a 1 KB-block image makes the image 4369 KB and 64 bytes long, and cannot be
   read.

Met while modelling, and modelled as they are unless noted, without a run of
their own.

Kernel and programs:

* `Exit` of collatz resumes init but leaves `blockedTaskForCollatz` set; a collatz
  that ended before the fifth interrupt (an input of 1 calls no `Delay`) has init
  queued twice. `MinTicks` keeps it out of the B3 and B4 runs.
* Under round robin two runs of B1 could take the same input: the index is
  incremented in two instructions. `InputsDistinct` is checked for the preemptive
  lifecycles.
* A fork with 256 tasks stores through null (`fault`). `SetLastTaskPriority` makes
  the last task Ready whatever its state; only a fork right before it makes that
  right, and every script has one.
* `malloc` answers null when nothing fits. `GetDriver` is modelled with that (no
  driver); the constructors of the other parts would run on null.

Console and desktop:

* While tasks print, a stale `x + 1` or `y + 1` can drive the cursor off the
  screen; only its return is a property.
* Colours that a task writes back between the mouse's two swaps leave a trail of
  the pointer (`disturbed`).
* A mouse movement of more than 48 columns wraps the int8 position, and the
  pointer jumps to the left edge.
* `OnKeyDown` of the console stores into a string literal.
* A late acknowledgment of the mouse is taken for the first byte of a packet, for
  good. The keyboard's answers come through the same port; its set-up is not
  modelled.
* A window that is dragged behind another one keeps `Dragging` when the button is
  released over the one in front, and then follows the pointer without a button.
* A window that begins left of or above the screen is not drawn but still takes
  clicks (the exception in `SeenIsHit`). No key
  event reaches a window: a click never sets the focus.

Hardware:

* Two devices on one interrupt line: the last constructor wins, the other device
  is never looked at.
* Without a network card `drivers[2]` is used uninitialised. `AddDriver` does not
  look at its 265 elements' end; a bus would need that many cards.
* `Send` does not look at the owner of the descriptor, so a ninth frame before the
  card has sent the first overwrites it; kernelMain sends one. `Receive` takes
  the length from `flags`, where the driver put its own buffer length, and not from
  what the card reports in `flags2`; the model takes it for the frame's size, as
  the code does.
* The arrays `sendBuffers` and `recvBuffers` are declared `[2*1024+15][8]`, so buffer i
  starts 8 bytes behind buffer i-1 and the eight buffers of a ring overlap. Of
  received frames that wait together, the later ones overwrite the earlier, and
  what is shown in the earlier one's turn are then, all or all but the first 16,
  the later one's bytes. This is in
  the model and in the run `boot_network`; the data of sent frames is not modelled.
* ATA: bits 16 to 23 of a sector number go to `lbaLow` over bits 0 to 7, so sectors
  that differ in their low byte only are one. `Write28` neither waits for the
  drive to ask for data nor looks at its status: the drive of the model is never
  busy then and never fails, and what the runs and proofs say of writing holds of such
  a drive only.
* The stubs of exceptions without an error code leave the stack as if there had
  been one. Not modelled.

File system: `mkdir` on a full image counts the directory anyway; `write` of a
missing linux file adds a byte to the directories' sizes; writing a protected
file again drops its `PASSWORD_ENABLED`; `write` on a directory's name turns it
into a file; `chmod +rw` sets `r` only, since the second test looks at the first
letter.

## 5. Proofs

`TaskManager_proofs` proves, for every size of the process table, both
schedulers and every lifecycle type:

* `TypeCorrect`: `Spec => []TypeOK`;
* `QueueIsExact`: `Spec => []ReadyQueueExact`;
* `NeverPopsEmpty`: `Spec => []PopFindsTask`;
* `NoWakeupLost`: `Spec => []NoLostWakeup`;

all from `SchedulerInvariant`: `Spec => []IInv`. None of the four is inductive.
That the pop finds a task rests on the queue being exact and on some task being
Ready whenever the running one leaves the processor. The argument for that is
the heart of the proof: a blocked task waits for a live child; a child's slot
comes after its parent's; so the live task in the last slot is not blocked, and
it is Ready if it is not the one that leaves. `IInv` therefore holds, besides
`TypeOK` and `PopFindsTask`: the queue holds each Ready task once (`QueueExact`),
only the current task is Running (`RunningExact`), a parent's pid is smaller than
its children's (`SlotsInOrder`), init lives (`InitLives`), a task is blocked
exactly when it waits for a child that has not ended (`WaitersExact`), and no
task is still blocked for collatz (`NobodyBlocked`). There is a lemma per handler
(`TickIInv`, `ForkIInv`, `WaitpidIInv`, `ExitIInv`, ...), and lemmas on what
insertion, removal and popping do to the set of queued tasks.

With that invariant as a premise, the action properties:

* `ChildrenDeliveredOnce`: `Spec => DeliveredOnce`, with `TakenEnded`, that a child
  whose pid has been handed out has ended; `ExitIsFinal` comes from the same cases;
* `BestIsPicked`: `Spec => PicksBest` under the preemptive scheduler, from
  `QueueSorted`. `Before` is a strict total order (`BeforeOrders`), the place the
  insertion finds splits a sorted queue, and taking an entry out or its head off
  leaves the rest sorted. A change of priority unsorts the queue for one entry
  only, the one that `SetLastTaskPriority` takes out first.

The handlers keep `IInv` with one premise, `RaisesQueued`: a tick that raises
collatz finds it in the queue. `Next` makes no call of the collatz scripts, so
nothing is ever counted and the premise holds (`NothingCounted`); the lifecycles
have to establish it.

`LifeCycles_proofs` composes this with the programs. For any numbers of programs,
every size of the process table and each of the five lifecycles it proves
`SpecKernel =>`

* `LifeCycleQueueExact`: `[]ReadyQueueExact`;
* `ChildrenNeverStray`: `[]ChildrenBecomePrograms`;
* `AllProgramsAreDone`: `[]AllProgramsTerminated`;
* `CountedAfterRegion`: `[]RaisedAfterCriticalRegion`;
* `ExitedTasksStay`: `TerminatedStays`;

all from `KernelInvariant`: `SpecKernel => []KernelInv /\ [][EndedKept]_vars`. The
argument has four layers:

1. What the init programs look like. `WellLaid` says it of every script, whatever
   `Copies` is: the pth fork is at `ForkAt(p)`, its forkpid and execve follow it, and
   the wait loop is the end (`SpawnAllPlaces`, `initB3Places`, `initB4Places`,
   `ScriptsWellLaid`).
2. Where each task is in its program, `Ctl`. The program counter of init tells which
   tasks exist: the pth does when init is past its fork. A child is at its
   forkpid with a 0, at its execve with a 0, or in its program; init is at its
   forkpid with a pid, which is not 0. When init stops waiting it has been given
   every child. One lemma per instruction (`ForkCtl`, `ExecCtl`, `WaitCtl`, ...); of
   the scheduler they need only that one task runs and none that waits (`Base`).
3. The scheduler, `Kept`: `IInv`, the sorted queue, and that init is dispatched first
   (`InitFirst`). `KeptNext` has the handlers of `TaskManager` from the section
   above, each with `RaisesQueued`.
4. B3 and B4. Until init waits it is the only task that runs, since its priority is
   the highest (`InitRuns`); so no child has begun (`Fresh`), and the fifth
   interrupt finds collatz in the queue: in B4 because the others are more urgent
   and at work for at least as long (`CountB4`, `CollatzWaits`). In B3 init blocks itself with
   collatz as the only other task; the scheduler's invariant does not hold then,
   since init is blocked without waiting for a child. `Waiting` is the invariant of
   that phase: `KernelInv` is `Normal \/ Waiting`, and the fifth interrupt, which
   wakes init, leads back (`WaitingTick`, `Resumed`).

Two hypotheses: `Configured`, that `Copies` gives each program a number, and
`LongDelays`, that in B3 and B4 a program works for at least five interrupts. The
code counts on the second: `Delay` does 750 million iterations, though an input of 1
would not call it (section 4). Without it collatz
could exit before it is raised, and the scheduler would raise a task that is not in
its queue. A, B1 and B2 need no such premise. All five instances of `MCLifeCycles`
satisfy both.

One more theorem is about the inputs. `EachRunHasItsInput`: under the preemptive
scheduler `SpecKernel => []InputsDistinct`, in every lifecycle. Its third hypothesis is
`EnoughInputs`: no program is spawned more often than it has inputs (10 each in
kernel.cpp, where B1 spawns 10). It is what the run checks of B1 to B4 as
`InputsDistinctByPriority`. Three steps lead to it:

* In A, B1 and B2 all tasks are equally urgent, so the oldest is dispatched and goes
  on until it exits: when a forked task runs, or has begun its program, every older
  one has exited (`InTurn`). It rests on the sorted queue (`DispatchesBest`) and on
  init giving its own priority to its children (`PrioritiesAlike`). In B3 and B4 the
  priorities differ, but no two of the four tasks run the same program
  (`SetUpsDiffer`). Either way two runs of a program never number their inputs at the
  same time (`OneAtATime`).
* So the load and the store of `inputs[no++]` are as good as one step: the runs that
  have stored a number have different ones, all below the global, which has counted
  no more runs than there are (`Numbered`).
* The runs of a program are at most those the script spawns, and these are at most
  its copies (`CopiesRun`, `RunsBounded`).

`MemoryManager_proofs` proves, for every heap, header and set of request sizes:

* `HeapTiled`: `Spec => []ChunksTileHeap`;
* `HeapCoalesced`: `Spec => []NoFreeNeighbours`;
* `HeapImplemented`: `Spec => ImplementsHeap`, the refinement of `Heap`.

`ChunksTileHeap` is inductive and is stated for any list as `Tiles(h, f)`, because
`free` passes through lists that are not states: the marked list, and the list
after the first merge. Each of the three changes, `Mark`, `Split` and `MergeNext`,
keeps it (`MarkTiles`, `SplitTiles`, `MergeTiles`); `MallocCases` and `FreeCases`
reduce the operations to them. For coalescing, `CoalescedBut(h, a)` says that
only a may have a free successor, which is what marking and merging into the
predecessor leave; `MergeIfFreeCoalesces` finishes it. It needs the invariant
before: two merges are enough only because the neighbours' neighbours are not
free. For the refinement, merging free chunks changes nothing for the callers
(`MergeIfFreeHeld`), so `malloc` is `Allocate` (`MallocAllocates`), which is
disjoint because the list tiles the heap, and `free` is `Release` (`FreeReleases`).

`Console_proofs` proves `CursorReturns`, `Spec => []CursorBackOnScreen`, for every
number of tasks, every screen that fits into a byte twice, and every text. The
property is far from inductive: tasks store stale values over each other's. The
invariant behind it says who will notice: if `x` is past the line's end, some
task is at an instruction of `NoticesColumn`, from which it tests or resets x
before it leaves printf, and the same for `y` and `NoticesRow`. `ConsoleInvariant`
and `ConsoleTypeCorrect` are the inductive invariant and the types.

Two more theorems are about the pointer. `PointerStaysShown`: `Spec =>
[]PointerShown`, from `CellKept`: as long as no interrupt fell into the change of a
cell, a task that is about to store a cell stores the colours the cell still has.
`PointerGoesWithMouse`: `Spec => PointerFollowsMouse`, from the types, by the
arithmetic of `Int8` and `Clip` for any width of the byte.

`Boot_proofs` proves, for every ring, bus, number of frames and of interrupts:

* `RingStaysInSync`: `Spec => []RingInSync`; inductive with the types;
* `EveryFrameAnnounced`: `Spec => []FramesAnnounced`, from `Announced`, which says
  for each point of the handler who still stands for a waiting frame: the flag in
  the status, `Receive` still running, or the race with the acknowledgment;
* `InterruptsAcknowledged`: `Spec => []EverythingAcknowledged`, from
  `InServiceExact`: while a line is handled, exactly that line, and the cascade
  for a line of the slave, are in service.

* `RingIsQueue`: `Spec => ImplementsQueue`, the refinement of `FrameQueue`, for any
  address of the buffers and any sizes of frames. The mapping `PendingFrames` is a
  sequence read from a ring, so each step of the ring is a lemma on that sequence
  (`QueueInv` adds that the card's place is as far ahead of the driver's as frames
  wait, and that frames are numbered as they come in). For the bytes, `BuffersHold`
  says that the buffer of a waiting frame holds bytes of that frame or of later
  ones, and those wait as well: a frame overwrites, wherever its buffer lies, only
  what came in before it;
* `EveryCardFoundOnce`: `Spec => []EveryCardOnce`, and `PortBasesRight`: `Spec =>
  []PortBaseRight`, from `ScanInv`, which says what the scan has done when it is at a
  place of the bus: every card before that place has a driver, in the order of the
  bus, and no other place has one.

For the segments it proves `BaseExact` (the base decoded is the base
encoded, for every 32-bit base and limit) and `LimitsTight` (the limit decoded is
at most the limit asked for, and at most 4095 bytes short of it).

`AdvancedTechnologyAttachment_proofs` proves, for every sector size, set of sector
numbers, texts and counts:

* `NothingLeftPending`: `Spec => []NothingPending`. The two loops of a transfer move
  at least a sector's words whatever the count is (`WholeSector`);
* `ShownIsWritten`: `Spec => ReadsBack`. The invariant `AInv` says that `lbaHi` is what
  Identify left (`HighIsZero`), on which finding a sector again rests, that what the
  cache and the medium hold under a number was written under it (`CacheWritten`),
  and that a Flush that is under way is at its own drive (`FlushWorks`).

`Desktop_proofs` proves, for every number, size and place of the windows, every
screen and all movements: `DriverInStep` (`InStep`), `TopWindowDragged`
(`TopWindowDrag`), `GripNeverLost` (`GripKept`) and `ClickReachesSeen` (`SeenIsHit`).
The invariant has four parts:

* the bytes on the wire and in the buffer are one packet or none, and begin with the
  buttons the mouse sent (`PacketStarts`);
* the front window is dragged only with the button held and under the pointer
  (`FrontDragged`). A packet that moves away and releases the button at once is the
  case that matters: the movement comes first and takes the window along, so the
  release finds it under the pointer;
* no window goes far from the screen (`Near`): only a window under the pointer, before
  or after a movement, is moved, and the pointer is on the screen. So no sum in
  `FillRectangle` overflows but for a negative beginning, and `FilledWindow` can say
  what is painted: the pixels `ContainsCoordinate` accepts, if the window begins on
  the screen, and none otherwise;
* during a pass that nothing stirred, each pixel shows the least of the windows
  painted so far that fill it, or the background (`PassShows`): the last painted is
  the least, since the children are painted from the last.

`ClickReachesSeen` follows at the end of a pass. A click reaches the least window that
contains the point; where that one begins on the screen it was painted, no lesser one
was, and so it is what is left on the screen.

`FatFileSystem_proofs` proves, for every image, block and file size, with commands
killed at any of their writes:

* `FirstBlocksApart`: `Spec => []OneOwner`: two entries that their directories list never
  begin at one block, and the FAT calls the blocks they begin at taken. Of the blocks
  behind a long file's first it says nothing. It holds for long files and full
  directories as well: what these destroy is contents, not the FAT's ownership;
* `FreeCountNeverTooHigh`: `Spec /\ [][~CountWraps]_vars => []FreeCountSafe`. The
  premise is needed: killed commands leave blocks that the superblock no longer
  counts; when its count is 0 while the FAT has such a block, an empty file or a
  directory that grows passes the check of the capacity, and the 16-bit count goes
  from 0 to 65535. `CountWraps` is that step and no other. The run `fat_crashes`,
  with files of one block and directories that do not grow, never takes it;
* `FreeCountIsExact`: without crashes, `Spec => [](FreeCountSafe /\ CountExact)`, with no
  premise about the count, since it is then exact whenever a command begins.

The invariants are about the image and the writes still to do. `Allots(todo, T, U)`
says that the FATs in `todo` grow from T, the blocks taken now, to U, and that an
entry or a link is written only when its block is already taken: whatever prefix
of the writes is done, no block is taken twice. `Fits` says that an entry to be
written does not share its first block with another entry, now or later, and
`Counted` that each count is lowered before its FAT takes the block. A command is
shown to make such a plan (the lemmas on `Plans` and `Ready`), a write to keep what
is left of it (`AllotsTail`), and a crash drops it. Walks along a chain of blocks are
recursive functions; what is needed of them (a chain from a taken block stays in
taken blocks) is proved by induction on the set of positions for which it holds
(`SetInduction`, from the library's well-founded minimum).

Three more theorems are about what the directories hold. Findings 1 and 2 set their
limits: no file is longer than a block (`l.len <= 1`), and no command lengthens a full
table (`[][~TableGrows]_vars`, where `TableGrows` is the step of a command that plans
to link two blocks in the FAT). mkdir and write are given different names, as a
`write` on a directory's name makes a file of it, and no name is empty. Within
these limits, for every size of image and block and any sequence of commands:

* `WalksStayInside`: `[]DirectoriesReadable`, if nobody is killed: a killed command may
  leave a table whose old last entry has lost its mark and whose new one was never
  written;
* `FinishedWorkIsThere`: `[]FinishedWorkSurvives`, with commands killed anywhere. A
  table without a mark hides none of the entries it has;
* `SuperblockCounts`: `[]CountsExact`, if nobody is killed.

That no table is lengthened need not be supposed where there is room.
`TablesGrowWhenFull` proves it of every behaviour in which no directory is full while
a block is free when a command begins (`RoomInTables`): each command is shown to
leave the FAT without links then (`CommandStaysFlat`). On an image of no more than
`EntriesPerBlock + 1` blocks that is always so: a full table has an entry, and so a
block of its own, for every block but the root's (`SmallTablesHaveRoom`). For these
images, those of `fat_commands` and `fat_crashes` among them, nothing is left to
suppose of the behaviour: `SmallImagesKeepWork` is `Spec => []FinishedWorkSurvives`
with commands killed anywhere, and `SmallImagesCount` is
`Spec => []CountsExact /\ []DirectoriesReadable` with nobody killed.

Again the invariants relate the image to the writes in `todo`:

* `Tables` says that the entries of a directory are active up to the last one, which
  alone may be marked, that active entries are in directories only and that no
  name is twice in one. `Fine` says how each write fits to that: an entry that is
  written again keeps name, kind and block, and loses its mark only if a new entry
  behind it is still to come (`KeepsEntry`); a new one goes to the end of a table,
  without a name (`AddsEntry`); it gets a name no other entry has (`GivesName`); and a
  block is nobody's directory (`PutsBlock`). `Ordered` says which writes may not come
  before which, a directory's table before its entry, for example.
  `WriteKeepsTables` is the step: what is left of the plan fits to the image as the
  write has changed it.
* `MarksInv`: each table is marked, or a write that marks its end is in `todo`.
* `SurvivesInv`: a finished path has an entry and a content (`Holds`) that no write in
  `todo` touches (`Spares`), and the path in the making will have both when `todo` is
  done (`Promises`). A write keeps or redeems a promise (`WriteKeepsPromise`), and
  a crash drops what has not been redeemed, with nothing finished among it.
* `Settles`: the last superblock in `todo` counts the entries that are in use with
  the one that is to come (`Agrees`, `Kind`). A write changes neither side
  (`WriteKeepsKinds`), so that both meet when the last superblock is written. That
  the count of files stays below `NumBlocks` is an injection of the entries into
  the blocks (`EntriesCounted`).

`CommandIs` connects them with the code: each command that does not stray makes one of
six kinds of plan (`MakesDir`, `RefusesDir`, `MakesFile`, `Overwrites`, `Resizes`, `Edits`), and
`PlanningIsFine`, `PlanningPromises` and `PlanSettles` are proved of these.

Assumptions: the named ones in the modules. They say that sizes are natural
numbers, that the screen fits into a byte twice (80 and 25 in 256) and the mouse's
offsets into a signed byte (`ScreenAssumption`, `OffsetAssumption`), that B3 and B4 run
under preemptive priority (`LifeCycleAssumption`), that the interrupt line in a PCI
configuration space is a byte and a card has a header of type 0 with an I/O register
(`ConfigurationAssumption`, `CardAssumption`), that a sector has an even number of
bytes and a sector number is four bytes (`SectorAssumption`, `NumbersAssumption`), that
a block's number fits into 16 bits (`FatAssumption`), that receive buffers have an
address and frames a size (`BuffersAssumption`), and that a machine word holds twice the
screen and twice any window (`WordAssumption`; 2^32 in the code). To these come the
specifications' limits on callers stated above.

Only model-checked:

* liveness (`EveryReadyTaskRuns`, `LifeCycleEnds`, `PrintfReturns`, `FramesLookedAt`,
  `CallsReturn`) and the fairness it rests on: outside what the prover handles;
* `InputsDistinctByPriority` as the run states it, of the instances B1 to B4 at once;
  `EachRunHasItsInput` is the theorem about each of them.

## 6. Not modelled

`PROJECT.json` lists every component. Left out for good: the ports and the loader
(single instructions), VGA's register tables and colours, the keyboard's table of
characters (a stateless function) and its set-up, the bytes of interrupt gates
and the stubs' stack layout, `PrintProcessTable` and the other output, the
data of frames that are sent. The focus and key events of widgets are left out because no
event reaches them. Names of any length in a directory, with entries across the
end of a block, are left out to keep an image small enough to check.

## 7. What could come next

1. Directory entries across the end of a block, with names of two lengths.
