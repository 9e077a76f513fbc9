---------------------------- MODULE Console_proofs ----------------------------
(***************************************************************************)
(* Proofs about Console, for every number of tasks, size of the screen and *)
(* text: whatever interrupts printf, its cursor is on the screen whenever  *)
(* no task is inside of it (CursorReturns); the mouse's pointer is shown   *)
(* once, where it is (PointerStaysShown), and goes where the mouse goes    *)
(* (PointerGoesWithMouse).                                                 *)
(***************************************************************************)
EXTENDS Console, TLAPS

\* The instructions after which a column, or a row, past the end of the
\* screen is noticed or replaced before printf returns.
NoticesColumn == {"testx", "wrapx", "coltest", "rowadd", "rowstore", "rowtest",
                  "startrow", "homex"}
NoticesRow == {"testx", "wrapx", "wraploady", "wrapstorey", "testy", "cleary",
               "rowtest", "homex", "home"}

ColumnNoticed == x >= Cols => \E t \in Tasks : at[t] \in NoticesColumn
RowNoticed == y >= Rows => \E t \in Tasks : at[t] \in NoticesRow

IInv == TypeOK /\ ColumnNoticed /\ RowNoticed

\* What the leaves below need to know of the screen and of a byte.
LEMMA Sizes ==
    /\ Cols \in Nat /\ Cols > 0 /\ Rows \in Nat /\ Rows > 0
    /\ ByteSize \in Nat /\ ByteSize > 0
    /\ \A n \in Int : n % ByteSize \in Byte
BY SMT, ScreenAssumption DEF Byte

\* The cell of a place on the screen is on the screen.
LEMMA CellOnScreen ==
    ASSUME NEW col \in 0 .. Cols - 1, NEW row \in 0 .. Rows - 1
    PROVE  Cell(col, row) \in Screen
<1>1. Cols * row \in Nat /\ Cols * (Rows - 1) \in Nat
  BY SMT, Sizes
<1>2. Cols * row <= Cols * (Rows - 1)
  <2>1. Cols * (Rows - 1) = (Cols * row) + (Cols * ((Rows - 1) - row))
    BY SMT, Sizes
  <2>2. Cols * ((Rows - 1) - row) \in Nat
    BY SMT, Sizes
  <2> QED
    BY SMT, <1>1, <2>1, <2>2
<1>3. Cols * Rows = (Cols * (Rows - 1)) + Cols
  BY SMT, Sizes
<1> QED
  BY SMT, <1>1, <1>2, <1>3, Sizes DEF Cell, Screen

\* Clipping brings every position back, the ones that overflowed as well.
LEMMA ClipInRange ==
    ASSUME NEW n \in Int, NEW limit \in Nat \ {0}
    PROVE  Clip(n, limit) \in 0 .. limit - 1
<1>1. Int8(n) \in Int
  BY SMT, Sizes DEF Int8
<1> QED
  BY SMT, <1>1 DEF Clip

LEMMA InitIInv == Init => IInv
<1> SUFFICES ASSUME Init PROVE IInv
  OBVIOUS
<1>1. pointer \in [x : 0 .. Cols - 1, y : 0 .. Rows - 1]
  BY SMT, Sizes DEF Init
<1>2. PointerCell \in Screen
  BY <1>1, CellOnScreen DEF PointerCell
<1>3. /\ 0 \in Byte /\ 0 \in 0 .. MaxCalls /\ 0 \in 0 .. MaxKeys /\ 0 \in 0 .. MaxMoves
  BY SMT, Sizes, BoundAssumption DEF Byte
<1>4. <<>> \in Seq({"char", "nl"})
  OBVIOUS
<1>5. /\ at \in [Tasks -> Labels] /\ rest \in [Tasks -> Seq({"char", "nl"})]
      /\ loaded \in [Tasks -> Byte] /\ attribute \in [Tasks -> BOOLEAN]
      /\ calls \in [Tasks -> 0 .. MaxCalls]
  BY <1>3, <1>4 DEF Init, Labels
<1>6. TypeOK
  BY <1>1, <1>2, <1>3, <1>4, <1>5 DEF Init, TypeOK
<1>7. x < Cols /\ y < Rows
  BY SMT, Sizes DEF Init
<1>8. ~(x >= Cols) /\ ~(y >= Rows)
  BY SMT, <1>7, Sizes DEF Init
<1> QED
  BY <1>6, <1>8 DEF IInv, ColumnNoticed, RowNoticed

-----------------------------------------------------------------------------
(* A task in printf *)

\* A step of one task leaves the others where they are.
LEMMA OthersStay ==
    ASSUME TypeOK, NEW t \in Tasks, NEW label \in Labels, GoTo(t, label)
    PROVE  /\ at' \in [Tasks -> Labels]
           /\ at'[t] = label
           /\ \A u \in Tasks : u # t => at'[u] = at[u]
BY DEF TypeOK, GoTo

\* The flag stays a flag.
LEMMA FlagTyped ==
    ASSUME NEW S, Disturbs(S)
    PROVE  disturbed' \in BOOLEAN
BY DEF Disturbs

LEMMA CallTyped == ASSUME TypeOK, NEW t \in Tasks, Call(t) PROVE TypeOK'
<1>1. PICK text \in Texts : rest' = [rest EXCEPT ![t] = text] /\ GoTo(t, "fetch")
  BY DEF Call
<1>2. at' \in [Tasks -> Labels]
  BY <1>1, OthersStay DEF Labels
<1>3. rest' \in [Tasks -> Seq({"char", "nl"})]
  BY <1>1, TextAssumption DEF TypeOK
<1>4. calls[t] + 1 \in 0 .. MaxCalls
  BY SMT, BoundAssumption DEF Call, TypeOK
<1>5. calls' \in [Tasks -> 0 .. MaxCalls]
  BY <1>4 DEF Call, TypeOK
<1>6. disturbed' \in BOOLEAN
  BY FlagTyped DEF Call, At
<1> QED
  BY <1>2, <1>3, <1>5, <1>6 DEF TypeOK, Call, At, mouse, PointerCell

\* A step that changes no more than what one task loads and the cursor.
LEMMA StepTyped == ASSUME TypeOK, NEW t \in Tasks, Step(t) PROVE TypeOK'
<1> USE DEF Labels
<1>1. disturbed' \in BOOLEAN /\ handling' = handling
  BY FlagTyped DEF Step, At, Fetch, LoadCell, StoreCell, LoadX, StoreX, LoadY, StoreY,
     Test, TestX, TestY, RowTest, ColTest, StartRow, ZeroX, ZeroY
<1>2. at' \in [Tasks -> Labels]
  <2>1. \E label \in Labels : GoTo(t, label)
    BY DEF Step, Fetch, LoadCell, StoreCell, LoadX, StoreX, LoadY, StoreY,
       Test, TestX, TestY, RowTest, ColTest, StartRow, ZeroX, ZeroY
  <2> QED
    BY <2>1, OthersStay
<1>3. x' \in Byte /\ y' \in Byte
  <2>1. /\ x' \in {x, 0, (loaded[t] + 1) % ByteSize}
        /\ y' \in {y, 0, (loaded[t] + 1) % ByteSize}
    BY DEF Step, Fetch, LoadCell, StoreCell, LoadX, StoreX, LoadY, StoreY,
       Test, TestX, TestY, RowTest, ColTest, StartRow, ZeroX, ZeroY, Unmoved, cursor
  <2>2. 0 \in Byte /\ (loaded[t] + 1) % ByteSize \in Byte
    BY SMT, Sizes DEF TypeOK, Byte
  <2> QED
    BY <2>1, <2>2 DEF TypeOK
<1>4. UNCHANGED <<pointer, moves, calls, keys>>
  BY DEF Step, Fetch, LoadCell, StoreCell, LoadX, StoreX, LoadY, StoreY,
     Test, TestX, TestY, RowTest, ColTest, StartRow, ZeroX, ZeroY, Unmoved, mouse, bounded
<1>5. rest' \in [Tasks -> Seq({"char", "nl"})]
  <2>1. CASE UNCHANGED rest
    BY <2>1 DEF TypeOK
  <2>2. CASE rest[t] # <<>> /\ rest' = [rest EXCEPT ![t] = Tail(@)]
    <3>1. Tail(rest[t]) \in Seq({"char", "nl"})
      BY <2>2 DEF TypeOK
    <3> QED
      BY <2>2, <3>1 DEF TypeOK
  <2> QED
    BY <2>1, <2>2 DEF Step, Fetch, LoadCell, StoreCell, LoadX, StoreX, LoadY, StoreY,
       Test, TestX, TestY, RowTest, ColTest, StartRow, ZeroX, ZeroY
<1>6. loaded' \in [Tasks -> Byte]
  <2>1. \/ UNCHANGED loaded
        \/ \E byte \in {x, y, 0} : loaded' = [loaded EXCEPT ![t] = byte]
    BY DEF Step, Fetch, LoadCell, StoreCell, LoadX, StoreX, LoadY, StoreY,
       Test, TestX, TestY, RowTest, ColTest, StartRow, ZeroX, ZeroY
  <2>2. {x, y, 0} \subseteq Byte
    BY SMT, Sizes DEF TypeOK, Byte
  <2> QED
    BY <2>1, <2>2 DEF TypeOK
<1>7. attribute' \in [Tasks -> BOOLEAN] /\ swapped' \subseteq Screen
  <2>1. CASE UNCHANGED <<attribute, swapped>>
    BY <2>1 DEF TypeOK
  <2>2. CASE \E from, to \in Labels : LoadCell(t, from, to)
    BY <2>2 DEF TypeOK, LoadCell, Unmoved
  <2>3. CASE \E from, to \in Labels : StoreCell(t, from, to)
    BY <2>3 DEF TypeOK, StoreCell
  <2> QED
    BY <2>1, <2>2, <2>3 DEF Step, Fetch, LoadX, StoreX, LoadY, StoreY,
       Test, TestX, TestY, RowTest, ColTest, StartRow, ZeroX, ZeroY, Unmoved
<1> QED
  BY <1>1, <1>2, <1>3, <1>4, <1>5, <1>6, <1>7 DEF TypeOK

-----------------------------------------------------------------------------
(* Interrupts *)

LEMMA HandlersTyped ==
    ASSUME TypeOK, HandlerBegins \/ HandlerPrints
    PROVE  TypeOK'
<1>1. CASE HandlerBegins
  <2>1. handling' \in Seq({"char", "nl"})
    BY <1>1, TextAssumption DEF HandlerBegins
  <2>2. keys' \in 0 .. MaxKeys
    BY SMT, <1>1, BoundAssumption DEF HandlerBegins, TypeOK
  <2>3. disturbed' \in BOOLEAN
    BY <1>1, FlagTyped DEF HandlerBegins
  <2> QED
    BY <1>1, <2>1, <2>2, <2>3 DEF HandlerBegins, TypeOK, cursor, printing, mouse
<1>2. CASE HandlerPrints
  <2>1. handling' \in Seq({"char", "nl"})
    BY <1>2 DEF HandlerPrints, TypeOK
  <2>2. x' \in Byte /\ y' \in Byte
    <3>1. \A c : NextColumn(c) \in Byte /\ NextRow(c) \in Byte
      BY SMT, Sizes DEF NextColumn, NextRow, TypeOK, Byte
    <3>2. \A c : RowBelow(c) \in Byte /\ 0 \in Byte
      BY SMT, <3>1, Sizes DEF RowBelow, Byte
    <3> QED
      BY <1>2, <3>1, <3>2 DEF HandlerPrints, Advance
  <2> QED
    BY <1>2, <2>1, <2>2 DEF HandlerPrints, TypeOK, printing, mouse, bounded
<1> QED
  BY <1>1, <1>2

LEMMA MouseTyped == ASSUME TypeOK, MouseMoves PROVE TypeOK'
<1>1. PICK xoffset, yoffset \in Offsets : OnMouseMove(xoffset, yoffset)
  BY DEF MouseMoves
<1>2. /\ pointer.x + xoffset \in Int /\ pointer.y + yoffset \in Int
      /\ Cols \in Nat \ {0} /\ Rows \in Nat \ {0}
  <2>1. xoffset \in Int /\ yoffset \in Int
    BY OffsetAssumption
  <2> QED
    BY SMT, <2>1, Sizes DEF TypeOK
<1>3. pointer' \in [x : 0 .. Cols - 1, y : 0 .. Rows - 1]
  BY <1>1, <1>2, ClipInRange DEF OnMouseMove
<1>4. PointerCell \in Screen /\ PointerCell' \in Screen
  BY <1>3, CellOnScreen DEF PointerCell, TypeOK
<1>5. swapped' \subseteq Screen
  BY <1>1, <1>4 DEF OnMouseMove, SwapColours, TypeOK
<1>6. moves' \in 0 .. MaxMoves
  BY SMT, <1>1, BoundAssumption DEF OnMouseMove, TypeOK
<1>7. disturbed' \in BOOLEAN
  BY <1>1, FlagTyped DEF OnMouseMove
<1> QED
  BY <1>1, <1>3, <1>5, <1>6, <1>7 DEF OnMouseMove, TypeOK, cursor, printing, bounded

LEMMA NextTyped == TypeOK /\ [Next]_vars => TypeOK'
<1> SUFFICES ASSUME TypeOK, [Next]_vars PROVE TypeOK'
  OBVIOUS
<1>1. CASE UNCHANGED vars
  BY <1>1 DEF vars, TypeOK
<1>2. CASE Next
  BY <1>2, CallTyped, StepTyped, HandlersTyped, MouseTyped DEF Next
<1> QED
  BY <1>1, <1>2

-----------------------------------------------------------------------------
(* The cursor *)

\* A column off the screen is still to be noticed after a step that puts it
\* on the screen, that is itself one that notices, or that leaves x alone
\* and was not.
LEMMA ColumnStays ==
    ASSUME TypeOK, ColumnNoticed, NEW t \in Tasks, NEW label \in Labels, GoTo(t, label),
           \/ ~(x' >= Cols)
           \/ label \in NoticesColumn
           \/ x' = x /\ at[t] \notin NoticesColumn
    PROVE  ColumnNoticed'
<1>1. CASE ~(x' >= Cols)
  BY <1>1 DEF ColumnNoticed
<1>2. CASE label \in NoticesColumn
  BY <1>2, OthersStay DEF ColumnNoticed
<1>3. CASE x' = x /\ at[t] \notin NoticesColumn
  BY <1>3, OthersStay DEF ColumnNoticed
<1> QED
  BY <1>1, <1>2, <1>3

\* The same for a row.
LEMMA RowStays ==
    ASSUME TypeOK, RowNoticed, NEW t \in Tasks, NEW label \in Labels, GoTo(t, label),
           \/ ~(y' >= Rows)
           \/ label \in NoticesRow
           \/ y' = y /\ at[t] \notin NoticesRow
    PROVE  RowNoticed'
<1>1. CASE ~(y' >= Rows)
  BY <1>1 DEF RowNoticed
<1>2. CASE label \in NoticesRow
  BY <1>2, OthersStay DEF RowNoticed
<1>3. CASE y' = y /\ at[t] \notin NoticesRow
  BY <1>3, OthersStay DEF RowNoticed
<1> QED
  BY <1>1, <1>2, <1>3

LEMMA StepNoticed ==
    ASSUME IInv, NEW t \in Tasks, Step(t)
    PROVE  ColumnNoticed' /\ RowNoticed'
<1> USE DEF IInv, Labels
<1>0. ~(0 >= Cols) /\ ~(0 >= Rows)
  BY SMT, Sizes
<1>1. CASE Fetch(t)
  <2>1. PICK label \in {"out", "nlloady", "loadcell"} :
            GoTo(t, label) /\ (x' = x \/ x' = 0) /\ y' = y
    BY <1>1 DEF Fetch
  <2> QED
    BY <1>0, <1>1, <2>1, ColumnStays, RowStays DEF Fetch, At, NoticesColumn, NoticesRow
<1>2. CASE LoadCell(t, "loadcell", "storecell") \/ LoadCell(t, "clearload", "clearstore")
  BY <1>2, ColumnStays, RowStays DEF LoadCell, Unmoved, cursor, At, NoticesColumn, NoticesRow
<1>3. CASE StoreCell(t, "storecell", "loadx") \/ StoreCell(t, "clearstore", "coladd")
  BY <1>3, ColumnStays, RowStays DEF StoreCell, cursor, At, NoticesColumn, NoticesRow
<1>4. CASE LoadX(t, "loadx", "storex") \/ LoadX(t, "coladd", "colstore")
  BY <1>4, ColumnStays, RowStays DEF LoadX, Unmoved, cursor, At, NoticesColumn, NoticesRow
<1>5. CASE StoreX(t, "storex", "testx") \/ StoreX(t, "colstore", "coltest")
  BY <1>5, ColumnStays, RowStays DEF StoreX, At, NoticesColumn, NoticesRow
<1>6. CASE \/ LoadY(t, "nlloady", "nlstorey")
           \/ LoadY(t, "wraploady", "wrapstorey")
           \/ LoadY(t, "rowadd", "rowstore")
  BY <1>6, ColumnStays, RowStays DEF LoadY, Unmoved, cursor, At, NoticesColumn, NoticesRow
<1>7. CASE \/ StoreY(t, "nlstorey", "testx")
           \/ StoreY(t, "wrapstorey", "testy")
           \/ StoreY(t, "rowstore", "rowtest")
  BY <1>7, ColumnStays, RowStays DEF StoreY, At, NoticesColumn, NoticesRow
<1>8. CASE TestX(t)
  <2>1. x' = x /\ y' = y
    BY <1>8 DEF TestX, Test, Unmoved, cursor
  <2>2. /\ at[t] = "testx"
        /\ GoTo(t, "wrapx") \/ (~(x >= Cols) /\ GoTo(t, "testy"))
    BY <1>8 DEF TestX, Test, PastEnd, At
  <2> QED
    BY <2>1, <2>2, ColumnStays, RowStays DEF NoticesColumn, NoticesRow
<1>9. CASE TestY(t)
  <2>1. x' = x /\ y' = y
    BY <1>9 DEF TestY, Test, Unmoved, cursor
  <2>2. /\ at[t] = "testy"
        /\ GoTo(t, "cleary") \/ (~(y >= Rows) /\ GoTo(t, "fetch"))
    BY <1>9 DEF TestY, Test, At
  <2> QED
    BY <2>1, <2>2, ColumnStays, RowStays DEF NoticesColumn, NoticesRow
<1>10. CASE RowTest(t)
  <2>1. x' = x /\ y' = y
    BY <1>10 DEF RowTest, Test, Unmoved, cursor
  <2>2. y < Rows => ~(y >= Rows)
    BY SMT, Sizes DEF TypeOK, Byte
  <2>3. /\ at[t] = "rowtest"
        /\ GoTo(t, "homex") \/ (~(y >= Rows) /\ GoTo(t, "startrow"))
    BY <1>10, <2>2 DEF RowTest, Test, At
  <2> QED
    BY <2>1, <2>3, ColumnStays, RowStays DEF NoticesColumn, NoticesRow
<1>11. CASE ColTest(t)
  <2>1. x' = x /\ y' = y
    BY <1>11 DEF ColTest, Test, Unmoved, cursor
  <2>2. x < Cols => ~(x >= Cols)
    BY SMT, Sizes DEF TypeOK, Byte
  <2>3. /\ at[t] = "coltest"
        /\ GoTo(t, "rowadd") \/ (~(x >= Cols) /\ GoTo(t, "clearload"))
    BY <1>11, <2>2 DEF ColTest, Test, At
  <2> QED
    BY <2>1, <2>3, ColumnStays, RowStays DEF NoticesColumn, NoticesRow
<1>12. CASE \/ ZeroX(t, "wrapx", "wraploady")
            \/ StartRow(t)
            \/ ZeroX(t, "homex", "home")
  <2>1. /\ x' = 0 /\ y' = y
        /\ \/ at[t] \in {"wrapx", "homex"} /\ \E label \in {"wraploady", "home"} : GoTo(t, label)
           \/ at[t] = "startrow" /\ GoTo(t, "coltest")
    BY <1>12 DEF ZeroX, StartRow, At
  <2> QED
    BY <1>0, <2>1, ColumnStays, RowStays DEF NoticesColumn, NoticesRow
<1>13. CASE ZeroY(t, "cleary", "rowtest") \/ ZeroY(t, "home", "fetch")
  <2>1. /\ y' = 0 /\ x' = x
        /\ at[t] \in {"cleary", "home"}
        /\ \E label \in {"rowtest", "fetch"} : GoTo(t, label)
    BY <1>13 DEF ZeroY, At
  <2> QED
    BY <1>0, <2>1, ColumnStays, RowStays DEF NoticesColumn, NoticesRow
<1> QED
  BY <1>1, <1>2, <1>3, <1>4, <1>5, <1>6, <1>7, <1>8, <1>9, <1>10, <1>11, <1>12, <1>13
     DEF Step

\* A handler leaves the cursor on the screen after every character.
LEMMA HandlerOnScreen ==
    ASSUME TypeOK, HandlerPrints
    PROVE  ~(x' >= Cols) /\ ~(y' >= Rows)
<1>1. PICK c : Advance(c)
  BY DEF HandlerPrints
<1>2. ~(0 >= Cols) /\ ~(0 >= Rows)
  BY SMT, Sizes
<1> QED
  BY <1>1, <1>2 DEF Advance, Wraps, Clears

LEMMA NextIInv == IInv /\ [Next]_vars => IInv'
<1> SUFFICES ASSUME IInv, [Next]_vars PROVE IInv'
  OBVIOUS
<1>1. TypeOK'
  BY NextTyped DEF IInv
<1>2. CASE UNCHANGED <<x, y, at>>
  BY <1>1, <1>2 DEF IInv, ColumnNoticed, RowNoticed
<1>3. ASSUME NEW t \in Tasks, Call(t) PROVE IInv'
  BY <1>1, <1>3, ColumnStays, RowStays
     DEF IInv, Call, At, NoticesColumn, NoticesRow, Labels
<1>4. ASSUME NEW t \in Tasks, Step(t) PROVE IInv'
  BY <1>1, <1>4, StepNoticed DEF IInv
<1>5. CASE HandlerPrints
  BY <1>1, <1>5, HandlerOnScreen DEF IInv, ColumnNoticed, RowNoticed
<1>6. CASE HandlerBegins \/ MouseMoves \/ UNCHANGED vars
  BY <1>2, <1>6 DEF HandlerBegins, MouseMoves, OnMouseMove, vars, cursor, printing
<1> QED
  BY <1>3, <1>4, <1>5, <1>6 DEF Next

-----------------------------------------------------------------------------
(* The theorems *)

\* The inductive invariant of the console: a column or row off the screen is
\* never left there, because some task is still about to look at it.
THEOREM ConsoleInvariant == Spec => []IInv
BY InitIInv, NextIInv, PTL DEF Spec

\* printf, its callers and the handlers keep every variable in its type, the
\* console mouse's overflowing position and the swapped cells as well.
THEOREM ConsoleTypeCorrect == Spec => []TypeOK
<1>1. IInv => TypeOK
  BY DEF IInv
<1> QED
  BY <1>1, ConsoleInvariant, PTL

\* The cursor is on the screen whenever no task is inside of printf.
THEOREM CursorReturns == Spec => []CursorBackOnScreen
<1>1. IInv => CursorBackOnScreen
  <2> SUFFICES ASSUME IInv, \A t \in Tasks : at[t] = "out"
               PROVE  x < Cols /\ y < Rows
    BY DEF CursorBackOnScreen
  <2>1. ~(x >= Cols) /\ ~(y >= Rows)
    BY DEF IInv, ColumnNoticed, RowNoticed, NoticesColumn, NoticesRow
  <2> QED
    BY SMT, <2>1, Sizes DEF IInv, TypeOK, Byte
<1> QED
  BY <1>1, ConsoleInvariant, PTL

-----------------------------------------------------------------------------
(* The pointer *)

\* While nobody has come between a task's load of a cell and its store, what
\* the task has loaded are the cell's colours.
CellKept ==
    ~disturbed =>
        /\ swapped = {PointerCell}
        /\ \A t \in Tasks : Storing(t) =>
              handling = <<>> /\ (attribute[t] <=> Here \in swapped)

\* A step that is no load of a cell: nobody stores after it.
LEMMA QuietCell ==
    ASSUME CellKept,
           disturbed' \/ (~disturbed /\ \A t \in Tasks : ~Storing(t)'),
           ~disturbed' => swapped' = {PointerCell}'
    PROVE  CellKept'
BY DEF CellKept

LEMMA StepKeepsCell ==
    ASSUME TypeOK, CellKept, NEW t \in Tasks, Step(t)
    PROVE  CellKept'
<1> SUFFICES ASSUME ~disturbed' PROVE CellKept'
  BY DEF CellKept
<1>1. /\ ~disturbed /\ \A u \in Tasks : u # t => ~Storing(u)
      /\ handling = <<>> /\ handling' = handling
  BY DEF Step, At, Disturbs, Fetch, LoadCell, StoreCell, LoadX, StoreX, LoadY, StoreY,
     Test, TestX, TestY, RowTest, ColTest, StartRow, ZeroX, ZeroY
<1>2. PointerCell' = PointerCell
  BY DEF Step, Fetch, LoadCell, StoreCell, LoadX, StoreX, LoadY, StoreY,
     Test, TestX, TestY, RowTest, ColTest, StartRow, ZeroX, ZeroY, Unmoved, mouse, PointerCell, Cell
<1>3. swapped = {PointerCell}
  BY <1>1 DEF CellKept
<1>4. \A u \in Tasks : u # t => at'[u] = at[u]
  <2>1. \E label \in Labels : GoTo(t, label)
    BY DEF Step, Fetch, LoadCell, StoreCell, LoadX, StoreX, LoadY, StoreY,
       Test, TestX, TestY, RowTest, ColTest, StartRow, ZeroX, ZeroY, Labels
  <2> QED
    BY <2>1, OthersStay
<1>5. \A u \in Tasks : u # t => ~Storing(u)'
  BY <1>1, <1>4 DEF Storing
<1>6. CASE LoadCell(t, "loadcell", "storecell") \/ LoadCell(t, "clearload", "clearstore")
  <2>1. attribute' = [attribute EXCEPT ![t] = Here \in swapped]
    BY <1>6 DEF LoadCell
  <2>2. attribute'[t] <=> Here \in swapped
    BY <2>1 DEF TypeOK
  <2>3. swapped' = swapped /\ x' = x /\ y' = y
    BY <1>6 DEF LoadCell, Unmoved, cursor
  <2>4. Here' = Here
    BY <2>3 DEF Here, Cell
  <2> QED
    BY <1>1, <1>2, <1>3, <1>5, <2>2, <2>3, <2>4 DEF CellKept
<1>7. CASE StoreCell(t, "storecell", "loadx") \/ StoreCell(t, "clearstore", "coladd")
  <2>1. PICK from \in {"storecell", "clearstore"}, to \in {"loadx", "coladd"} :
          StoreCell(t, from, to)
    BY <1>7
  <2>2. Storing(t)
    BY <2>1 DEF StoreCell, At, Storing
  <2>3. attribute[t] <=> Here \in swapped
    BY <1>1, <2>2 DEF CellKept
  <2>4. swapped' = IF attribute[t] THEN swapped \cup ({Here} \cap Screen)
                   ELSE swapped \ {Here}
    BY <2>1 DEF StoreCell
  <2>5. swapped' = swapped
    BY <2>3, <2>4
  <2>6. to \in Labels /\ GoTo(t, to)
    BY <2>1 DEF StoreCell, Labels
  <2>7. at'[t] = to
    BY <2>6, OthersStay
  <2>8. ~Storing(t)'
    BY <2>7 DEF Storing
  <2> QED
    BY <1>1, <1>2, <1>3, <1>5, <2>5, <2>8, QuietCell
<1>8. CASE ~(\/ LoadCell(t, "loadcell", "storecell")
             \/ LoadCell(t, "clearload", "clearstore")
             \/ StoreCell(t, "storecell", "loadx")
             \/ StoreCell(t, "clearstore", "coladd"))
  <2>1. PICK label \in Labels \ {"storecell", "clearstore"} : GoTo(t, label)
    BY <1>8 DEF Step, Fetch, LoadX, StoreX, LoadY, StoreY,
       Test, TestX, TestY, RowTest, ColTest, StartRow, ZeroX, ZeroY, Labels
  <2>2. at'[t] = label
    BY <2>1, OthersStay
  <2>3. ~Storing(t)'
    BY <2>2 DEF Storing
  <2>4. swapped' = swapped
    BY <1>8 DEF Step, Fetch, LoadX, StoreX, LoadY, StoreY,
       Test, TestX, TestY, RowTest, ColTest, StartRow, ZeroX, ZeroY, Unmoved
  <2> QED
    BY <1>1, <1>2, <1>3, <1>5, <2>3, <2>4, QuietCell
<1> QED
  BY <1>6, <1>7, <1>8

LEMMA CallKeepsCell ==
    ASSUME TypeOK, CellKept, NEW t \in Tasks, Call(t)
    PROVE  CellKept'
<1> SUFFICES ASSUME ~disturbed' PROVE CellKept'
  BY DEF CellKept
<1>1. /\ ~disturbed /\ \A u \in Tasks : u # t => ~Storing(u)
      /\ swapped' = swapped /\ pointer' = pointer
      /\ GoTo(t, "fetch")
  BY DEF Call, At, Disturbs, mouse
<1>2. at'[t] = "fetch" /\ \A u \in Tasks : u # t => at'[u] = at[u]
  BY <1>1, OthersStay DEF Labels
<1>3. \A u \in Tasks : ~Storing(u)'
  BY <1>1, <1>2 DEF Storing
<1> QED
  BY <1>1, <1>3, QuietCell DEF CellKept, PointerCell, Cell

\* The pointer's old cell gets its colours back and the new one's are swapped.
LEMMA MouseKeepsCell == ASSUME CellKept, MouseMoves PROVE CellKept'
<1> SUFFICES ASSUME ~disturbed' PROVE CellKept'
  BY DEF CellKept
<1>1. /\ ~disturbed /\ \A u \in Tasks : ~Storing(u)
      /\ swapped' = SwapColours(SwapColours(swapped, PointerCell), PointerCell')
      /\ at' = at
  BY DEF MouseMoves, OnMouseMove, Disturbs, printing
<1>2. swapped = {PointerCell}
  BY <1>1 DEF CellKept
<1>3. SwapColours(swapped, PointerCell) = {}
  BY <1>2 DEF SwapColours
<1>4. swapped' = {PointerCell'}
  BY <1>1, <1>3 DEF SwapColours
<1> QED
  BY <1>1, <1>4, QuietCell DEF Storing

LEMMA HandlersKeepCell ==
    ASSUME CellKept, HandlerBegins \/ HandlerPrints
    PROVE  CellKept'
<1> SUFFICES ASSUME ~disturbed' PROVE CellKept'
  BY DEF CellKept
<1>1. CASE HandlerBegins
  <2>1. /\ ~disturbed /\ \A u \in Tasks : ~Storing(u)
        /\ swapped' = swapped /\ pointer' = pointer /\ at' = at
    BY <1>1 DEF HandlerBegins, Disturbs, printing, mouse
  <2> QED
    BY <2>1, QuietCell DEF CellKept, Storing, PointerCell, Cell
<1>2. CASE HandlerPrints
  <2>1. /\ ~disturbed /\ handling # <<>>
        /\ swapped' = swapped /\ pointer' = pointer /\ at' = at
    BY <1>2 DEF HandlerPrints, printing, mouse
  <2>2. \A u \in Tasks : ~Storing(u)
    BY <2>1 DEF CellKept
  <2> QED
    BY <2>1, <2>2, QuietCell DEF CellKept, Storing, PointerCell, Cell
<1> QED
  BY <1>1, <1>2

\* Exactly the pointer's cell has its colours swapped, unless an interrupt
\* fell between the load and the store of a task.
THEOREM PointerStaysShown == Spec => []PointerShown
<1>1. Init => CellKept
  BY DEF Init, CellKept, Storing
<1>2. ASSUME TypeOK, CellKept, [Next]_vars PROVE CellKept'
  <2>1. CASE UNCHANGED vars
    BY <1>2, <2>1 DEF vars, CellKept, Storing, PointerCell, Here, Cell
  <2>2. CASE Next
    BY <1>2, <2>2, StepKeepsCell, CallKeepsCell, MouseKeepsCell, HandlersKeepCell DEF Next
  <2> QED
    BY <1>2, <2>1, <2>2
<1>3. CellKept => PointerShown
  BY DEF CellKept, PointerShown
<1> QED
  BY <1>1, <1>2, <1>3, ConsoleTypeCorrect, PTL DEF Spec

\* Without an overflow of the int8_t the position goes the way of the offset.
LEMMA ClipGoesOn ==
    ASSUME NEW limit \in Nat \ {0}, NEW p \in 0 .. limit - 1, NEW offset \in Offsets,
           NoOverflow(offset, limit)
    PROVE  /\ offset >= 0 => Clip(p + offset, limit) >= p
           /\ offset <= 0 => Clip(p + offset, limit) <= p
<1> DEFINE half == ByteSize \div 2
           n == p + offset
<1>1. half \in Nat /\ ByteSize \in Nat /\ half + half <= ByteSize /\ ByteSize > 0
  BY SMT, Sizes
<1>2. offset \in Int /\ -half <= offset
  <2>1. offset \in -half .. half
    BY OffsetAssumption
  <2> QED
    BY SMT, <1>1, <2>1
<1>3. offset <= half - limit
  BY DEF NoOverflow
<1> HIDE DEF half
<1>4. n \in Int /\ 0 <= n + half /\ n + half < ByteSize
  BY SMT, <1>1, <1>2, <1>3
<1>5. (n + half) % ByteSize = n + half
  <2>1. \A a, b \in Nat : a < b => a % b = a
    BY SMT
  <2>2. n + half \in Nat
    BY SMT, <1>1, <1>4
  <2> QED
    BY <2>1, <2>2, <1>1, <1>4
<1>6. Int8(n) = n
  BY SMT, <1>1, <1>4, <1>5 DEF Int8, half
<1>7. n = p + offset /\ p \in Int /\ 0 <= p /\ p <= limit - 1 /\ limit \in Int
  BY SMT
<1> HIDE DEF n
<1>8. Clip(n, limit) = IF n >= limit THEN limit - 1 ELSE IF n < 0 THEN 0 ELSE n
  BY <1>6 DEF Clip
<1>9. /\ offset >= 0 => Clip(n, limit) >= p
      /\ offset <= 0 => Clip(n, limit) <= p
  BY SMT, <1>2, <1>4, <1>7, <1>8
<1> QED
  BY <1>9 DEF n

\* The pointer goes the way the mouse goes, up to the edges of the screen.
THEOREM PointerGoesWithMouse == Spec => PointerFollowsMouse
<1>1. ASSUME TypeOK, NEW xoffset \in Offsets, NEW yoffset \in Offsets,
             OnMouseMove(xoffset, yoffset),
             NoOverflow(xoffset, Cols), NoOverflow(yoffset, Rows)
      PROVE  /\ xoffset >= 0 => pointer'.x >= pointer.x
             /\ xoffset <= 0 => pointer'.x <= pointer.x
             /\ yoffset >= 0 => pointer'.y >= pointer.y
             /\ yoffset <= 0 => pointer'.y <= pointer.y
  <2>1. pointer' = [x |-> Clip(pointer.x + xoffset, Cols),
                    y |-> Clip(pointer.y + yoffset, Rows)]
    BY <1>1 DEF OnMouseMove
  <2>2. pointer.x \in 0 .. Cols - 1 /\ pointer.y \in 0 .. Rows - 1
    BY <1>1 DEF TypeOK
  <2>3. Cols \in Nat \ {0} /\ Rows \in Nat \ {0}
    BY ScreenAssumption
  <2>4. /\ xoffset >= 0 => Clip(pointer.x + xoffset, Cols) >= pointer.x
        /\ xoffset <= 0 => Clip(pointer.x + xoffset, Cols) <= pointer.x
    BY <1>1, <2>2, <2>3, ClipGoesOn
  <2>5. /\ yoffset >= 0 => Clip(pointer.y + yoffset, Rows) >= pointer.y
        /\ yoffset <= 0 => Clip(pointer.y + yoffset, Rows) <= pointer.y
    BY <1>1, <2>2, <2>3, ClipGoesOn
  <2> QED
    BY <2>1, <2>4, <2>5
<1>2. TypeOK =>
        [\A xoffset, yoffset \in Offsets :
           /\ OnMouseMove(xoffset, yoffset)
           /\ NoOverflow(xoffset, Cols) /\ NoOverflow(yoffset, Rows)
           => /\ xoffset >= 0 => pointer'.x >= pointer.x
              /\ xoffset <= 0 => pointer'.x <= pointer.x
              /\ yoffset >= 0 => pointer'.y >= pointer.y
              /\ yoffset <= 0 => pointer'.y <= pointer.y]_vars
  BY <1>1
<1> QED
  BY <1>2, ConsoleTypeCorrect, PTL DEF PointerFollowsMouse
===============================================================================
