------------------------------- MODULE Desktop -------------------------------
(***************************************************************************)
(* The desktop of GRAPHICSMODE: desktop.cpp, window.cpp, widget.cpp and    *)
(* the filling of rectangles in vga.cpp, driven by the mouse driver.       *)
(*                                                                         *)
(* kernelMain gives the desktop two windows without children, so an event  *)
(* goes from the driver to the desktop and from there to a window.  One    *)
(* mouse interrupt completes a packet and handles all of its events, with  *)
(* interrupts off.  kernelMain draws the desktop again and again, and may  *)
(* be interrupted between any two children; the first timer interrupt      *)
(* takes the processor from it for good, as it is no task.  Colours, the   *)
(* pointer's cross and the focus, which no key event asks for, are left    *)
(* out.                                                                    *)
(***************************************************************************)
EXTENDS MouseDriver, FiniteSets, FiniteSetsExt

CONSTANTS
    Width, Height,  \* the desktop, 320 by 200 pixels
    Divisor,        \* 4: mouse counts per pixel
    Number,         \* of windows, in the order of AddChild
    FirstPlace,     \* [1..Number -> [x, y]], where the windows are at first
    Size,           \* [1..Number -> [w, h]]
    WordSize        \* 2^32

Windows == 1 .. Number
Top == 1

ASSUME DesktopAssumption ==
    /\ Width \in Nat \ {0} /\ Height \in Nat \ {0} /\ Divisor \in Nat \ {0}
    /\ Number \in Nat \ {0}
    /\ Size \in [Windows -> [w : Nat \ {0}, h : Nat \ {0}]]
    /\ FirstPlace \in [Windows -> [x : 0 .. Width - 1, y : 0 .. Height - 1]]
ASSUME WordAssumption ==
    /\ WordSize \in Nat
    /\ \A w \in Windows :
          /\ 2 * Width + 2 * Size[w].w <= WordSize
          /\ 2 * Height + 2 * Size[w].h <= WordSize

VARIABLES
    desktop,    \* [pointer |-> MouseX and MouseY,
                \*  place   |-> per window, its x and y,
                \*  dragging |-> per window, Dragging]
    screen,     \* [Pixels -> the window it shows, or Background]
    drawn,      \* children drawn in this pass of Draw
    stirred     \* a window has moved since the pass began, or none began yet

drawVars == <<screen, drawn, stirred>>
vars == <<driverVars, mouseVars, desktop, drawVars>>

Points == [x : Int, y : Int]
Pixels == [x : 0 .. Width - 1, y : 0 .. Height - 1]
Background == 0

TypeOK ==
    /\ MouseTypeOK
    /\ desktop \in [pointer : [x : 0 .. Width - 1, y : 0 .. Height - 1],
                    place : [Windows -> Points],
                    dragging : [Windows -> BOOLEAN]]
    /\ screen \in [Pixels -> {Background} \cup Windows]
    /\ drawn \in 0 .. Number /\ stirred \in BOOLEAN

Init ==
    /\ MouseInit
    /\ desktop = [pointer  |-> [x |-> Width \div 2, y |-> Height \div 2],
                  place    |-> FirstPlace,
                  dragging |-> [w \in Windows |-> FALSE]]
    /\ screen = [p \in Pixels |-> Background]
    /\ drawn = Number /\ stirred = TRUE

-----------------------------------------------------------------------------
(* Widgets *)

ContainsCoordinate(place, w, p) ==
    /\ place[w].x <= p.x /\ p.x < place[w].x + Size[w].w
    /\ place[w].y <= p.y /\ p.y < place[w].y + Size[w].h

\* The first child with the coordinate, if any.
Containing(place, p) == {w \in Windows : ContainsCoordinate(place, w, p)}
Hits(place, p, w) ==
    /\ w \in Containing(place, p)
    /\ \A v \in Containing(place, p) : w <= v

\* Window::OnMouseDown and OnMouseUp of the child under the pointer.
OnMouseDown(d, button) ==
    [d EXCEPT !.dragging =
        [w \in Windows |-> IF Hits(d.place, d.pointer, w) THEN button = 1 ELSE @[w]]]

\* Mutant of OnMouseUp: the window goes on dragging.
OnMouseUpIgnored(d, button) == d

OnMouseUp(d, button) ==
    [d EXCEPT !.dragging =
        [w \in Windows |-> IF Hits(d.place, d.pointer, w) THEN FALSE ELSE @[w]]]

\* Window::OnMouseMove of the windows in `moved`.
Dragged(d, moved, dx, dy) ==
    [w \in Windows |->
        IF w \in moved /\ d.dragging[w]
        THEN [x |-> d.place[w].x + dx, y |-> d.place[w].y + dy]
        ELSE d.place[w]]

Hit(place, p) == {w \in Windows : Hits(place, p, w)}

\* Mutant of SecondChild: the window that had the old place moves twice.
EitherChild(first, second) == second

\* if(firstchild != i)
SecondChild(first, second) == second \ first

\* CompositeWidget::OnMouseMove: first the child at the old place, then the
\* one at the new place, where the first may have moved to or from.
MoveChildren(d, new) ==
    LET dx == new.x - d.pointer.x
        dy == new.y - d.pointer.y
        first == Hit(d.place, d.pointer)
        halfway == [d EXCEPT !.place = Dragged(d, first, dx, dy)]
        second == SecondChild(first, Hit(halfway.place, new))
    IN  [halfway EXCEPT !.place = Dragged(halfway, second, dx, dy)]

\* C's division rounds towards 0.
Quotient(n) == IF n >= 0 THEN n \div Divisor ELSE -((-n) \div Divisor)

Clipped(n, limit) == IF n < 0 THEN 0 ELSE IF n >= limit THEN limit - 1 ELSE n

OnMouseMove(d, dx, dy) ==
    LET new == [x |-> Clipped(d.pointer.x + Quotient(dx), Width),
                y |-> Clipped(d.pointer.y + Quotient(dy), Height)]
    IN  [MoveChildren(d, new) EXCEPT !.pointer = new]

-----------------------------------------------------------------------------
(* The driver's calls for one packet *)

\* Moving is reported before the buttons.
Moved(d) ==
    IF Packet[2] = 0 /\ Packet[3] = 0 THEN d
    ELSE OnMouseMove(d, Signed(Packet[2]), -Signed(Packet[3]))

Button(d, button) ==
    IF Pressed(Packet[1], button) = Pressed(buttons, button) THEN d
    ELSE IF Pressed(buttons, button) THEN OnMouseUp(d, button)
    ELSE OnMouseDown(d, button)

HandlePacket == Button(Button(Button(Moved(desktop), 1), 2), 3)

HandleInterrupt ==
    /\ TakeByte
    /\ desktop' = IF PacketComplete THEN HandlePacket ELSE desktop
    /\ stirred' = (stirred \/ desktop'.place # desktop.place)
    /\ UNCHANGED <<screen, drawn>>

MouseEvent == MouseSends /\ UNCHANGED <<desktop, drawVars>>

-----------------------------------------------------------------------------
(* Drawing *)

\* FillRectangle counts with an int32_t and compares with a uint32_t.
Unsigned(n) == IF n < 0 THEN n + WordSize ELSE n
End(from, size) ==
    LET sum == Unsigned(from) + size
    IN  IF sum >= WordSize THEN sum - WordSize ELSE sum
Reaches(from, size, n) ==
    from <= n /\ \A m \in from .. n : Unsigned(m) < End(from, size)

\* PutPixel leaves out what is not on the screen.
Filled(place, w, p) ==
    Reaches(place[w].x, Size[w].w, p.x) /\ Reaches(place[w].y, Size[w].h, p.y)

\* Mutant of ChildDrawn: children are drawn in the order of AddChild.
ChildAdded(k) == k

\* CompositeWidget::Draw draws the last child first.
ChildDrawn(k) == Number + 1 - k

\* A pass of Draw begins with the desktop's own rectangle.
DrawDesktop ==
    /\ drawn = Number
    /\ screen' = [p \in Pixels |-> Background]
    /\ drawn' = 0 /\ stirred' = FALSE
    /\ UNCHANGED <<driverVars, mouseVars, desktop>>

\* A child is drawn where it is when its turn comes.
DrawChild ==
    /\ drawn < Number
    /\ LET w == ChildDrawn(drawn + 1)
       IN  screen' = [p \in Pixels |-> IF Filled(desktop.place, w, p) THEN w
                                       ELSE screen[p]]
    /\ drawn' = drawn + 1
    /\ UNCHANGED <<driverVars, mouseVars, desktop, stirred>>

Next == MouseEvent \/ HandleInterrupt \/ DrawDesktop \/ DrawChild

Spec == Init /\ [][Next]_vars

-----------------------------------------------------------------------------
(* Properties *)

Pointer == desktop.pointer
Place == desktop.place
Dragging == desktop.dragging

\* The window in front is dragged only while the driver sees the left button
\* held, and then it is under the pointer: no release escapes it.  A window
\* behind it can be dragged under it, and keeps Dragging when the button is
\* released there.  The pointer is on the desktop all the while (TypeOK).
TopWindowDrag ==
    /\ TypeOK
    /\ Dragging[Top] => /\ Pressed(buttons, 1)
                        /\ ContainsCoordinate(Place, Top, Pointer)

\* A window that is grabbed goes where the pointer goes, at the edges of the
\* desktop too, so the pointer keeps its place on it.
KeepsGrip(w) ==
    Hits(Place, Pointer, w) /\ Dragging[w] /\ Dragging'[w] =>
        /\ Place'[w].x - Place[w].x = Pointer'.x - Pointer.x
        /\ Place'[w].y - Place[w].y = Pointer'.y - Pointer.y
GripKept == [][\A w \in Windows : KeepsGrip(w)]_vars

\* A pass of Draw in which no window moved shows at every pixel what a click
\* there reaches, though it was drawn from the back, with places read one by
\* one between the interrupts, over what the pass before had left.  Only a
\* window that begins left of or above the screen takes clicks unseen.
OnScreen(w) == Place[w].x >= 0 /\ Place[w].y >= 0
Seen(p) == {screen[p]} \ {Background}
SeenIsHit ==
    drawn = Number /\ ~stirred =>
        \A p \in Pixels :
            Seen(p) = Hit(Place, p) \/ \E w \in Hit(Place, p) : ~OnScreen(w)
=============================================================================
