-------------------------------- MODULE Console --------------------------------
(***************************************************************************)
(* The text console of kernel.cpp: printf, whose cursor is two static      *)
(* bytes that every task and every interrupt handler shares; the keyboard, *)
(* whose handler prints; and the pointer that MouseToConsole shows by      *)
(* swapping the colours of one cell.                                       *)
(*                                                                         *)
(* Tasks call printf directly, without a system call, so a timer, keyboard *)
(* or mouse interrupt comes between any two instructions of it.  A step of *)
(* a task is one load or one store of x or of y, as in the unoptimised     *)
(* build, or one of video memory, for which x and y are taken in the same  *)
(* step.  A handler runs to its end with interrupts off, one character a   *)
(* step.                                                                   *)
(* Characters are kept only as far as they move the cursor, and a cell of  *)
(* video memory only as to whether its colours are swapped.                *)
(***************************************************************************)
EXTENDS Integers, Sequences, FiniteSets

CONSTANTS
    Tasks,          \* the tasks that print
    Cols, Rows,     \* 80 and 25
    ByteSize,       \* 256: an int8_t reaches from -128 to 127
    Texts,          \* what a task prints, as sequences of "char" and "nl"
    HandlerTexts,   \* what the keyboard and other handlers print
    Offsets,        \* the movements a mouse packet can report
    MaxCalls,       \* bound: calls of printf per task
    MaxKeys,        \* bound: prints by handlers
    MaxMoves        \* bound: movements of the mouse

ASSUME ScreenAssumption ==
    /\ Cols \in Nat \ {0} /\ Rows \in Nat \ {0}
    /\ ByteSize \in Nat
    /\ 2 * Cols <= ByteSize /\ 2 * Rows <= ByteSize
ASSUME TextAssumption ==
    /\ Texts \subseteq Seq({"char", "nl"})
    /\ HandlerTexts \subseteq Seq({"char", "nl"})
\* An offset is an int8_t, or the negative of one.
ASSUME OffsetAssumption == Offsets \subseteq -(ByteSize \div 2) .. ByteSize \div 2
ASSUME BoundAssumption == {MaxCalls, MaxKeys, MaxMoves} \subseteq Nat
ASSUME TasksAssumption == IsFiniteSet(Tasks)

VARIABLES
    x, y,        \* printf's static cursor
    at,          \* per task, the next instruction of its printf
    rest,        \* per task, the characters it has left
    loaded,      \* per task, the byte it has loaded to write back plus one
    attribute,   \* per task, the colours it has loaded to write back, both
                 \* reset when they are written
    swapped,     \* the cells on the screen whose colours are swapped
    pointer,     \* MouseToConsole's x and y
    calls,       \* per task, the calls of printf so far
    keys,        \* prints by handlers so far
    moves,       \* movements of the mouse so far
    handling,    \* what the running handler has left to print
    disturbed    \* someone came between a load of a cell and its store

cursor == <<x, y>>
printing == <<at, rest, loaded, attribute>>
mouse == <<pointer, moves>>
bounded == <<calls, keys>>
vars == <<x, y, at, rest, loaded, attribute, swapped, pointer, calls, keys,
          moves, handling, disturbed>>

Labels == {"out", "fetch", "loadcell", "storecell", "loadx", "storex",
           "testx", "nlloady", "nlstorey", "wrapx", "wraploady", "wrapstorey",
           "testy", "cleary", "rowtest", "startrow", "coltest", "clearload",
           "clearstore", "coladd", "colstore", "rowadd", "rowstore", "homex",
           "home"}

Byte == 0 .. ByteSize - 1

\* 80*y + x: a column past the end is the start of the next row.
Cell(col, row) == Cols * row + col
Screen == 0 .. Cols * Rows - 1
Here == Cell(x, y)
PointerCell == Cell(pointer.x, pointer.y)

TypeOK ==
    /\ x \in Byte /\ y \in Byte
    /\ at \in [Tasks -> Labels]
    /\ rest \in [Tasks -> Seq({"char", "nl"})]
    /\ loaded \in [Tasks -> Byte]
    /\ attribute \in [Tasks -> BOOLEAN]
    /\ swapped \subseteq Screen
    /\ pointer \in [x : 0 .. Cols - 1, y : 0 .. Rows - 1]
    /\ calls \in [Tasks -> 0 .. MaxCalls]
    /\ keys \in 0 .. MaxKeys
    /\ moves \in 0 .. MaxMoves
    /\ handling \in Seq({"char", "nl"})
    /\ disturbed \in BOOLEAN

\* The constructor of MouseToConsole puts the pointer in the middle.
Init ==
    /\ x = 0 /\ y = 0
    /\ at = [t \in Tasks |-> "out"]
    /\ rest = [t \in Tasks |-> <<>>]
    /\ loaded = [t \in Tasks |-> 0]
    /\ attribute = [t \in Tasks |-> FALSE]
    /\ pointer = [x |-> Cols \div 2, y |-> Rows \div 2]
    /\ swapped = {PointerCell}
    /\ calls = [t \in Tasks |-> 0]
    /\ keys = 0
    /\ moves = 0
    /\ handling = <<>>
    /\ disturbed = FALSE

-----------------------------------------------------------------------------
(* printf, called by a task *)

Storing(t) == at[t] \in {"storecell", "clearstore"}

\* Whether a step of one of the others falls between a load and a store.
Disturbs(others) ==
    disturbed' = (disturbed \/ \E t \in others : Storing(t))

At(t, label) ==
    /\ at[t] = label
    /\ handling = <<>> /\ UNCHANGED handling
    /\ Disturbs(Tasks \ {t})
GoTo(t, label) == at' = [at EXCEPT ![t] = label]

Unmoved == UNCHANGED <<cursor, swapped, mouse, bounded>>

Call(t) ==
    /\ At(t, "out")
    /\ calls[t] < MaxCalls
    /\ \E text \in Texts :
         /\ rest' = [rest EXCEPT ![t] = text]
         /\ GoTo(t, "fetch")
    /\ calls' = [calls EXCEPT ![t] = @ + 1]
    /\ UNCHANGED <<x, y, loaded, attribute, swapped, mouse, keys>>

\* switch(str[i]); a new line starts with x = 0.
Fetch(t) ==
    /\ At(t, "fetch")
    /\ IF rest[t] = <<>>
       THEN GoTo(t, "out") /\ UNCHANGED <<x, rest>>
       ELSE /\ rest' = [rest EXCEPT ![t] = Tail(@)]
            /\ IF Head(rest[t]) = "nl"
               THEN GoTo(t, "nlloady") /\ x' = 0
               ELSE GoTo(t, "loadcell") /\ UNCHANGED x
    /\ UNCHANGED <<y, loaded, attribute, swapped, mouse, bounded>>

\* VideoMemory[...] & 0xFF00
LoadCell(t, from, to) ==
    /\ At(t, from)
    /\ attribute' = [attribute EXCEPT ![t] = Here \in swapped]
    /\ GoTo(t, to)
    /\ Unmoved /\ UNCHANGED <<rest, loaded>>

\* The store goes to where the cursor is by now.
StoreCell(t, from, to) ==
    /\ At(t, from)
    /\ swapped' = IF attribute[t] THEN swapped \cup ({Here} \cap Screen)
                  ELSE swapped \ {Here}
    /\ attribute' = [attribute EXCEPT ![t] = FALSE]
    /\ GoTo(t, to)
    /\ UNCHANGED <<cursor, mouse, bounded, rest, loaded>>

\* x++ and y++ are a load and a store each.
LoadX(t, from, to) ==
    /\ At(t, from)
    /\ loaded' = [loaded EXCEPT ![t] = x]
    /\ GoTo(t, to)
    /\ Unmoved /\ UNCHANGED <<rest, attribute>>

StoreX(t, from, to) ==
    /\ At(t, from)
    /\ x' = (loaded[t] + 1) % ByteSize
    /\ loaded' = [loaded EXCEPT ![t] = 0]
    /\ GoTo(t, to)
    /\ UNCHANGED <<y, swapped, mouse, bounded, rest, attribute>>

LoadY(t, from, to) ==
    /\ At(t, from)
    /\ loaded' = [loaded EXCEPT ![t] = y]
    /\ GoTo(t, to)
    /\ Unmoved /\ UNCHANGED <<rest, attribute>>

StoreY(t, from, to) ==
    /\ At(t, from)
    /\ y' = (loaded[t] + 1) % ByteSize
    /\ loaded' = [loaded EXCEPT ![t] = 0]
    /\ GoTo(t, to)
    /\ UNCHANGED <<x, swapped, mouse, bounded, rest, attribute>>

\* Mutant of PastEnd: the line is one cell longer.
PastEndByOne == x > Cols

PastEnd == x >= Cols

\* A test and the x = 0 or y = 0 it guards are two instructions.
Test(t, from, holds, yes, no) ==
    /\ At(t, from)
    /\ GoTo(t, IF holds THEN yes ELSE no)
    /\ Unmoved /\ UNCHANGED <<rest, loaded, attribute>>

ZeroX(t, from, to) ==
    /\ At(t, from)
    /\ x' = 0
    /\ GoTo(t, to)
    /\ UNCHANGED <<y, swapped, mouse, bounded, rest, loaded, attribute>>

ZeroY(t, from, to) ==
    /\ At(t, from)
    /\ y' = 0
    /\ GoTo(t, to)
    /\ UNCHANGED <<x, swapped, mouse, bounded, rest, loaded, attribute>>

TestX(t) == Test(t, "testx", PastEnd, "wrapx", "testy")
TestY(t) == Test(t, "testy", y >= Rows, "cleary", "fetch")

\* The loops that clear the screen count in x and y themselves.
RowTest(t) == Test(t, "rowtest", y < Rows, "startrow", "homex")
ColTest(t) == Test(t, "coltest", x < Cols, "clearload", "rowadd")

\* Mutant of StartRow: the rows start over with the columns.
StartRowFromTop(t) ==
    /\ At(t, "startrow")
    /\ x' = 0 /\ y' = 0
    /\ GoTo(t, "coltest")
    /\ UNCHANGED <<swapped, mouse, bounded, rest, loaded, attribute>>

StartRow(t) == ZeroX(t, "startrow", "coltest")

Step(t) ==
    \/ Fetch(t)
    \/ LoadCell(t, "loadcell", "storecell") \/ StoreCell(t, "storecell", "loadx")
    \/ LoadX(t, "loadx", "storex") \/ StoreX(t, "storex", "testx")
    \/ LoadY(t, "nlloady", "nlstorey") \/ StoreY(t, "nlstorey", "testx")
    \/ TestX(t) \/ ZeroX(t, "wrapx", "wraploady")
    \/ LoadY(t, "wraploady", "wrapstorey") \/ StoreY(t, "wrapstorey", "testy")
    \/ TestY(t) \/ ZeroY(t, "cleary", "rowtest")
    \/ RowTest(t) \/ StartRow(t)
    \/ ColTest(t)
    \/ LoadCell(t, "clearload", "clearstore") \/ StoreCell(t, "clearstore", "coladd")
    \/ LoadX(t, "coladd", "colstore") \/ StoreX(t, "colstore", "coltest")
    \/ LoadY(t, "rowadd", "rowstore") \/ StoreY(t, "rowstore", "rowtest")
    \/ ZeroX(t, "homex", "home") \/ ZeroY(t, "home", "fetch")

-----------------------------------------------------------------------------
(* Interrupt handlers *)

\* What printing one character makes of the cursor when nothing interrupts.
\* The cells it writes keep their colours.
NextColumn(c) == IF c = "nl" THEN 0 ELSE (x + 1) % ByteSize
NextRow(c) == IF c = "nl" THEN (y + 1) % ByteSize ELSE y
Wraps(c) == NextColumn(c) >= Cols
RowBelow(c) == IF Wraps(c) THEN (NextRow(c) + 1) % ByteSize ELSE NextRow(c)
Clears(c) == RowBelow(c) >= Rows

Advance(c) ==
    /\ x' = IF Wraps(c) \/ Clears(c) THEN 0 ELSE NextColumn(c)
    /\ y' = IF Clears(c) THEN 0 ELSE RowBelow(c)

\* KeyboardDriver::HandleInterrupt prints a known key's character, and
\* "KEYBOARD 0x" with two digits for an unknown one; releases print nothing.
\* Other handlers print as well, the process table at every switch.
HandlerBegins ==
    /\ handling = <<>> /\ keys < MaxKeys
    /\ \E text \in HandlerTexts : handling' = text
    /\ keys' = keys + 1
    /\ Disturbs(Tasks)
    /\ UNCHANGED <<cursor, printing, swapped, mouse, calls>>

HandlerPrints ==
    /\ handling # <<>>
    /\ Advance(Head(handling))
    /\ handling' = Tail(handling)
    /\ UNCHANGED <<printing, swapped, mouse, bounded, disturbed>>

\* Conversion to int8_t.
Int8(n) == ((n + ByteSize \div 2) % ByteSize) - (ByteSize \div 2)

\* Mutant of Clip: whatever is off the screen goes to its start.
ClipToStart(n, limit) == IF Int8(n) \in 0 .. limit - 1 THEN Int8(n) ELSE 0

\* x += offset; if(x >= 80) x = 79; if(x < 0) x = 0;
Clip(n, limit) ==
    IF Int8(n) >= limit THEN limit - 1 ELSE IF Int8(n) < 0 THEN 0 ELSE Int8(n)

\* Mutant of SwapColours: a cell is swapped once and never back.
SwapOnce(cells, cell) == cells \cup {cell}

SwapColours(cells, cell) ==
    IF cell \in cells THEN cells \ {cell} ELSE cells \cup {cell}

OnMouseMove(xoffset, yoffset) ==
    /\ handling = <<>> /\ moves < MaxMoves
    /\ moves' = moves + 1
    /\ pointer' = [x |-> Clip(pointer.x + xoffset, Cols),
                   y |-> Clip(pointer.y + yoffset, Rows)]
    /\ swapped' = SwapColours(SwapColours(swapped, PointerCell), PointerCell')
    /\ Disturbs(Tasks)
    /\ UNCHANGED <<cursor, printing, bounded, handling>>

\* The driver calls it only when one of the two offsets is not 0.
MouseMoves ==
    \E xoffset, yoffset \in Offsets :
        <<xoffset, yoffset>> # <<0, 0>> /\ OnMouseMove(xoffset, yoffset)

Next ==
    \/ \E t \in Tasks : Call(t) \/ Step(t)
    \/ HandlerBegins \/ HandlerPrints
    \/ MouseMoves

\* The scheduler gives every task the processor again and again, and a
\* handler runs to its end.
Fairness == WF_vars(HandlerPrints) /\ \A t \in Tasks : WF_vars(Step(t))

Spec == Init /\ [][Next]_vars /\ Fairness

-----------------------------------------------------------------------------
(* Properties *)

\* "Assuming our terminal is 80*25 size" (printf): when no task is inside of
\* printf, the cursor is on the screen, whatever the tasks did to each
\* other's x++, y++ and clearing of the screen before.
CursorBackOnScreen ==
    (\A t \in Tasks : at[t] = "out") => x < Cols /\ y < Rows

\* The clearing loops, which count in the shared cursor, end all the same:
\* printf returns once the others stop printing.
PrintfReturns == \A t \in Tasks : at[t] # "out" ~> at[t] = "out"

\* Exactly the pointer's cell has its colours swapped, unless an interrupt
\* fell between the two halves of a task's change of a cell.
PointerShown == ~disturbed => swapped = {PointerCell}

\* The pointer goes the way the mouse goes, as long as no packet reports a
\* movement longer than an int8_t can add to a position on the screen.
NoOverflow(offset, limit) == offset <= ByteSize \div 2 - limit
PointerFollowsMouse ==
    [][\A xoffset, yoffset \in Offsets :
         /\ OnMouseMove(xoffset, yoffset)
         /\ NoOverflow(xoffset, Cols) /\ NoOverflow(yoffset, Rows)
         => /\ xoffset >= 0 => pointer'.x >= pointer.x
            /\ xoffset <= 0 => pointer'.x <= pointer.x
            /\ yoffset >= 0 => pointer'.y >= pointer.y
            /\ yoffset <= 0 => pointer'.y <= pointer.y]_vars
=============================================================================
